------------------------------ MODULE Catalogue ------------------------------
(***************************************************************************)
(* The optimizer catalogue and the result tables, as the mr-query and      *)
(* mr-catalogue programs change them.                                      *)
(*                                                                         *)
(* Every program is a session that sends SQL statements one at a time      *)
(* over its own connection; the adapter runs each in a transaction of its  *)
(* own (PQexec with autocommit), so a session may be interleaved with      *)
(* others, may throw, and may be killed, between any two statements.  One  *)
(* action below is one statement (or one group of INSERTs into the result  *)
(* tables), together with the C++ code that runs up to the next one.       *)
(*                                                                         *)
(* A minerule text is a member of Texts; what its rules are is abstracted  *)
(* to "the answer of that text".  A result table holds, per kind, either   *)
(* nothing, the whole answer of a text, a part being written by a session  *)
(* or Junk: rows of several runs, or rows computed from a wrong result.    *)
(***************************************************************************)
EXTENDS Naturals, FiniteSets

CONSTANTS
  Procs,            \* the mr-query / mr-catalogue processes
  Names,            \* minerule names, which are also result table names
  Texts,            \* minerule texts (up to the name in them)
  Itemsets,         \* the texts of the form MINE ITEMSET
  Clustered,        \* the texts with a CLUSTER BY list
  Equivalents,      \* <<t, u>>: getMineruleRelationship(t, u) is Equivalence
  Dominates,        \* <<t, u>>: ... is Dominance, or is Equivalence while the option
                    \* optimizations::avoidEquivalenceDetection is set
  Combines,         \* <<T, u>>: the combinator finds u as a formula over T
  ItemDependent,    \* the texts for which hasIDConstraints holds
  TreeMined,        \* the other texts ConstrTree / DestrTree accept
  Unconditional,    \* the item dependent texts without a mining condition
  Overwrite,        \* option safety::overwriteHomonymMinerules
  Cascade,          \* option safety::allowCascadeDeletes
  TryOptimizations, \* option optimizations::tryOptimizations
  CacheWrites,      \* option mrdb::cacheWrites
  Commands,         \* the commands the users give in this instance
  Allowed,          \* Allowed[p]: the names process p may create or delete
  Serial,           \* TRUE: users never run two programs at a time
  Crashes,          \* TRUE: a program may be killed between two statements
  MaxQueries,       \* bound: no session takes ids after this many queries
  MaxLists,         \* bound: ... or after this many attribute lists
  Absent, Empty, Junk

Lists == {"ga", "ra", "ca"}
Kinds == {"rules", "heads", "bodies"}
Counters == {"mr_att_lists", "mr_query"}
Relationships == {"None", "Equivalence", "Dominance", "Combination"}
Labels == {"idle", "exists", "lookup", "victims", "delete", "drop",
           "catalogue", "sizes", "base", "count", "cursor", "elems",
           "redrop", "probe", "create", "insert", "fill", "copy",
           "original", "derived", "select", "update", "store"}
Contents == Texts \cup Procs \cup {Absent, Empty, Junk}

ASSUME TextsAssumption ==
  /\ Texts # {} /\ Names # {}
  /\ Itemsets \subseteq Texts /\ Clustered \subseteq Texts
  /\ ItemDependent \subseteq Texts /\ TreeMined \subseteq Texts
  /\ Unconditional \subseteq ItemDependent

ASSUME RelationsAssumption ==
  /\ Equivalents \subseteq Texts \X Texts
  /\ \A t, u, v \in Texts :
       <<t, u>> \in Equivalents /\ <<u, v>> \in Equivalents => <<t, v>> \in Equivalents
  /\ Dominates \subseteq Texts \X Texts
  /\ Combines \subseteq (SUBSET Texts) \X Texts

ASSUME OptionsAssumption ==
  /\ Overwrite \in BOOLEAN /\ Cascade \in BOOLEAN
  /\ TryOptimizations \in BOOLEAN /\ CacheWrites \in BOOLEAN
  /\ Serial \in BOOLEAN /\ Crashes \in BOOLEAN
  /\ Commands \subseteq {"query", "delete", "derive"}
  /\ Allowed \in [Procs -> SUBSET Names]
  /\ MaxQueries \in Nat /\ MaxLists \in Nat

ASSUME ContentsAssumption ==
  /\ Texts \cap Procs = {}
  /\ Absent \notin Texts \cup Procs
  /\ Empty \notin Texts \cup Procs
  /\ Junk \notin Texts \cup Procs
  /\ Absent # Empty /\ Absent # Junk /\ Empty # Junk

(***************************************************************************)
(* A row of mr_query: gal, ral and cal are the three lists, 0 is NULL.     *)
(***************************************************************************)
Row == [id : Nat, name : Names, text : Texts, res : Names, lists : [Lists -> Nat]]

(***************************************************************************)
(* The local state of a session.  rs holds the rows of a SELECT which are  *)
(* still to be processed, past the catInfos vector of optimize(), base the *)
(* past minerules to reuse, src the result being read; sound says that     *)
(* what was read so far are whole answers of the texts of their rows.      *)
(***************************************************************************)
Session ==
  [op : {"query", "delete", "derive"}, name : Names, text : Texts, orig : Names,
   res : Names, rel : Relationships, rs : SUBSET Row, past : SUBSET Row,
   base : SUBSET Row, src : Names, sound : BOOLEAN, kind : Kinds,
   list : Lists \cup {"none"}, lists : [Lists -> Nat], id : Nat]

AnyName == CHOOSE n \in Names : TRUE
AnyText == CHOOSE t \in Texts : TRUE

Blank ==
  [op |-> "query", name |-> AnyName, text |-> AnyText, orig |-> AnyName,
   res |-> AnyName, rel |-> "None", rs |-> {}, past |-> {},
   base |-> {}, src |-> AnyName, sound |-> TRUE, kind |-> "rules",
   list |-> "ga", lists |-> [l \in Lists |-> 0], id |-> 0]

VARIABLES
  mr_query,         \* the rows of table mr_query
  mr_att_lists,     \* the lists stored in table mr_att_lists
  mr_autoincrement, \* the current_id of each counter
  tables,           \* tables[n][k]: the content of the k-table of result n
  pc, sess          \* the sessions

database == <<mr_query, mr_att_lists, mr_autoincrement, tables>>
vars == <<mr_query, mr_att_lists, mr_autoincrement, tables, pc, sess>>

TypeOK ==
  /\ mr_query \subseteq Row
  /\ mr_att_lists \subseteq [id : Nat, list : Lists]
  /\ mr_autoincrement \in [Counters -> Nat]
  /\ tables \in [Names -> [Kinds -> Contents]]
  /\ pc \in [Procs -> Labels]
  /\ sess \in [Procs -> Session]

-----------------------------------------------------------------------------
(* Mutants stand before the definition they may replace.                   *)
NamedByResult(n) == {r \in mr_query : r.res = n}
Named(n) == {r \in mr_query : r.name = n}

DependentByName(n) == {r \in mr_query : r.name = n}
Dependent(n) == {r \in mr_query : r.name = n \/ r.res = n}
Answers(c, t) == c = t \/ <<c, t>> \in Equivalents
Exist(n) == \A k \in Kinds : tables[n][k] # Absent

Goto(p, label, s) ==
  /\ pc' = [pc EXCEPT ![p] = label]
  /\ sess' = [sess EXCEPT ![p] = s]

(* main() returns, or an exception reaches it and it exits.                *)
End(p) == Goto(p, "idle", Blank)

ToCreateKeeping(p, s) == Goto(p, "probe", [s EXCEPT !.kind = "rules"])

(* createResultTables: the old tables are dropped only when overwriting.   *)
(* A MINE ITEMSET has no head list: the tables it creates are those of the *)
(* sequences, which are not modelled, it drops the old ones only if there  *)
(* are such already, and then an assertion on its head list stops it.      *)
ToCreate(p, s) ==
  \/ /\ s.text \notin Itemsets
     /\ Goto(p, IF Overwrite THEN "redrop" ELSE "probe", [s EXCEPT !.kind = "rules"])
  \/ s.text \in Itemsets /\ Overwrite /\ Goto(p, "redrop", [s EXCEPT !.kind = "rules"])
  \/ s.text \in Itemsets /\ End(p)

(* optimize() is left at once for itemsets and without tryOptimizations.   *)
ToOptimize(p, s) ==
  IF TryOptimizations /\ s.text \notin Itemsets
    THEN Goto(p, "catalogue", s)
    ELSE ToCreate(p, s)

(* addMineruleResult starts with the group attribute list.                 *)
ToRegister(p, s) == Goto(p, "select", [s EXCEPT !.list = "ga"])

(* IDIncrementalAlgorithm reads the past result while it writes the new    *)
(* one; the trees and the combinator load it before creating tables.       *)
ReadsLazily(s) == s.rel = "Dominance" /\ s.text \in ItemDependent

Init ==
  /\ mr_query = {} /\ mr_att_lists = {}
  /\ mr_autoincrement = [c \in Counters |-> 0]
  /\ tables = [n \in Names |-> [k \in Kinds |-> Absent]]
  /\ pc = [p \in Procs |-> "idle"]
  /\ sess = [p \in Procs |-> Blank]

-----------------------------------------------------------------------------
(* The users start the programs; the bound is on those that take new ids.  *)
MayStart(p, op) ==
  /\ pc[p] = "idle" /\ op \in Commands
  /\ Serial => \A q \in Procs : pc[q] = "idle"

IdsLeft ==
  /\ mr_autoincrement["mr_query"] < MaxQueries
  /\ mr_autoincrement["mr_att_lists"] < MaxLists

StartQuery(p) ==
  /\ MayStart(p, "query") /\ IdsLeft
  /\ \E n \in Allowed[p], t \in Texts :
       Goto(p, "exists", [Blank EXCEPT !.op = "query", !.name = n, !.text = t, !.res = n])
  /\ UNCHANGED database

StartDelete(p) ==
  /\ MayStart(p, "delete")
  /\ \E n \in Allowed[p] :
       Goto(p, "lookup", [Blank EXCEPT !.op = "delete", !.name = n])
  /\ UNCHANGED database

(* mr-catalogue -a ori,der: its help text requires that the user has first *)
(* put the derived result in the tables of der; here, a complete one.      *)
StartDerive(p) ==
  /\ MayStart(p, "derive") /\ IdsLeft
  /\ \E r \in mr_query, d \in Allowed[p] :
       /\ Dependent(d) = {}
       /\ \A k \in Kinds : tables[d][k] = Absent
       /\ tables' = [tables EXCEPT ![d] = [k \in Kinds |-> r.text]]
       /\ Goto(p, "original", [Blank EXCEPT !.op = "derive", !.name = d,
                                            !.res = d, !.orig = r.name])
  /\ UNCHANGED <<mr_query, mr_att_lists, mr_autoincrement>>

-----------------------------------------------------------------------------
(* Deleting a minerule.                                                    *)

CheckHomonym(p) ==
  /\ pc[p] = "exists"
  /\ \/ Named(sess[p].name) = {} /\ ToOptimize(p, sess[p])
     \/ Named(sess[p].name) # {} /\ Overwrite /\ Goto(p, "victims", sess[p])
     \/ Named(sess[p].name) # {} /\ ~Overwrite /\ End(p)
  /\ UNCHANGED database

LookupDeleted(p) ==
  /\ pc[p] = "lookup"
  /\ \/ Named(sess[p].name) = {} /\ End(p)
     \/ Named(sess[p].name) # {} /\ Goto(p, "victims", sess[p])
  /\ UNCHANGED database

SelectVictims(p) ==
  LET victims == Dependent(sess[p].name) IN
  /\ pc[p] = "victims"
  /\ \/ victims = {} /\ End(p)                                 \* the assert fails
     \/ victims # {} /\ ~Cascade /\ (\E r, s \in victims : r # s) /\ End(p)
     \/ /\ victims # {}
        /\ Cascade \/ \A r, s \in victims : r = s
        /\ Goto(p, "delete", [sess[p] EXCEPT !.rs = victims])
  /\ UNCHANGED database

DeleteRow(p) ==
  /\ pc[p] = "delete"
  /\ \E v \in sess[p].rs :
       /\ mr_query' = {r \in mr_query : r.id # v.id}
       /\ \/ /\ sess[p].rs # {v}
             /\ Goto(p, "delete", [sess[p] EXCEPT !.rs = @ \ {v}])
          \/ /\ sess[p].rs = {v}
             /\ Goto(p, "drop", [sess[p] EXCEPT !.rs = {}, !.kind = "rules"])
  /\ UNCHANGED <<mr_att_lists, mr_autoincrement, tables>>

(* deleteDestTables, from deleteMinerule and from createResultTables.      *)
DropTable(p) ==
  LET s == sess[p] IN
  /\ pc[p] \in {"drop", "redrop"}
  /\ tables' = [tables EXCEPT ![s.name][s.kind] = Absent]
  /\ \/ s.kind = "rules" /\ Goto(p, pc[p], [s EXCEPT !.kind = "heads"])
     \/ s.kind = "heads" /\ Goto(p, pc[p], [s EXCEPT !.kind = "bodies"])
     \/ s.kind = "bodies" /\ pc[p] = "drop" /\ s.op = "delete" /\ End(p)
     \/ s.kind = "bodies" /\ pc[p] = "drop" /\ s.op = "query" /\ ToOptimize(p, s)
     \/ s.kind = "bodies" /\ pc[p] = "redrop" /\ s.text \in Itemsets /\ End(p)
     \/ /\ s.kind = "bodies" /\ pc[p] = "redrop" /\ s.text \notin Itemsets
        /\ Goto(p, "probe", [s EXCEPT !.kind = "rules"])
  /\ UNCHANGED <<mr_query, mr_att_lists, mr_autoincrement>>

-----------------------------------------------------------------------------
(* Looking for past results that can be reused.                            *)

ReadCatalogue(p) ==
  /\ pc[p] = "catalogue"
  /\ Goto(p, "sizes", [sess[p] EXCEPT !.rs = mr_query, !.past = mr_query])
  /\ UNCHANGED database

NextRow(s, r) == [s EXCEPT !.rs = @ \ {r}]

(* updateQrySize of every row: its rules table must be there.              *)
CountPast(p) ==
  /\ pc[p] = "sizes"
  /\ \E r \in sess[p].rs :
       \/ /\ tables[r.res]["rules"] = Absent
          /\ End(p)
       \/ /\ tables[r.res]["rules"] # Absent
          /\ Goto(p, "sizes", NextRow(sess[p], r))
  /\ UNCHANGED database

EquivalentOrDominant(s) ==
  {r \in s.past : <<r.text, s.text>> \in Equivalents \cup Dominates}
EquivalentPast(s) == {r \in s.past : <<r.text, s.text>> \in Equivalents}
DominantPast(s) == {r \in s.past : <<r.text, s.text>> \in Dominates}
CombinedPast(s) ==
  {B \in SUBSET s.past : <<{r.text : r \in B}, s.text>> \in Combines}

HasIncremental(t) == t \in ItemDependent \/ t \in TreeMined

(* The loop of optimize() and the switch of executeMinerule.  Which of     *)
(* several equivalent rows comes first and which dominating one is the     *)
(* smallest is left open, as is whether the genetic search succeeds.       *)
Optimize(p) ==
  LET s == sess[p] IN
  /\ pc[p] = "sizes" /\ s.rs = {}
  /\ \/ \E r \in EquivalentPast(s) :
          Goto(p, "base", [s EXCEPT !.rel = "Equivalence", !.base = {r}, !.past = {}])
     \/ /\ EquivalentPast(s) = {} /\ DominantPast(s) # {}
        /\ s.text \in Unconditional
        /\ End(p)                   \* IDIncrementalAlgorithm asserts mc!=NULL
     \/ /\ EquivalentPast(s) = {} /\ HasIncremental(s.text)
        /\ s.text \notin Unconditional
        /\ \E r \in DominantPast(s) :
             Goto(p, "base", [s EXCEPT !.rel = "Dominance", !.base = {r}, !.past = {}])
     \/ /\ EquivalentPast(s) = {} /\ DominantPast(s) # {} /\ ~HasIncremental(s.text)
        /\ ToCreate(p, [s EXCEPT !.past = {}])
     \/ /\ EquivalentPast(s) = {} /\ DominantPast(s) = {} /\ s.text \in ItemDependent
        /\ \E B \in CombinedPast(s) :
             Goto(p, "base", [s EXCEPT !.rel = "Combination", !.base = B, !.past = {}])
     \/ /\ EquivalentPast(s) = {} /\ DominantPast(s) = {}
        /\ ToCreate(p, [s EXCEPT !.past = {}])
  /\ UNCHANGED database

(* A second dominating row makes optimize() query the best one again.      *)
OptimizeThrows(p) ==
  LET s == sess[p] IN
  /\ pc[p] = "sizes" /\ s.rs = {}
  /\ \E r \in DominantPast(s) :
       /\ DominantPast(s) # {r}
       /\ \/ Named(r.name) = {}
          \/ \E q \in Named(r.name) : tables[q.res]["rules"] = Absent
  /\ End(p)
  /\ UNCHANGED database

(* getMRQueryInfo / getResultsetName of the next past minerule to reuse.   *)
ReadBase(p) ==
  LET s == sess[p] IN
  /\ pc[p] = "base"
  /\ \E b \in s.base :
       \/ Named(b.name) = {} /\ End(p)
       \/ \E r \in Named(b.name) :
            Goto(p, IF ReadsLazily(s) THEN "cursor" ELSE "count",
                 [s EXCEPT !.src = r.res, !.base = {b}, !.rs = s.base \ {b}])
  /\ UNCHANGED database

(* updateQrySize of that minerule; an equivalent one is reused as it is.   *)
CountBase(p) ==
  LET s == sess[p] IN
  /\ pc[p] = "count"
  /\ \/ tables[s.src]["rules"] = Absent /\ End(p)
     \/ /\ tables[s.src]["rules"] # Absent /\ s.rel = "Equivalence"
        /\ ToRegister(p, [s EXCEPT !.res = s.src, !.base = {}])
     \/ /\ tables[s.src]["rules"] # Absent /\ s.rel # "Equivalence"
        /\ Goto(p, "cursor", s)
  /\ UNCHANGED database

(* The tables K of src hold the answer of the minerule being reused.       *)
Faithful(s, K) ==
  \A b \in s.base : \A k \in K : Answers(tables[s.src][k], b.text)

(* QueryResult::Iterator::init selects the rules of the past result.       *)
OpenCursor(p) ==
  LET s == sess[p]
      t == [s EXCEPT !.sound = @ /\ Faithful(s, {"rules"})]
  IN
  /\ pc[p] = "cursor"
  /\ \/ tables[s.src]["rules"] = Absent /\ End(p)
     \/ tables[s.src]["rules"] # Absent /\ ReadsLazily(s) /\ ToCreate(p, t)
     \/ tables[s.src]["rules"] # Absent /\ ~ReadsLazily(s) /\ Goto(p, "elems", t)
  /\ UNCHANGED database

(* The trees and ResultCombinator load the elements of every rule.         *)
LoadElems(p) ==
  LET s == sess[p]
      t == [s EXCEPT !.sound = @ /\ Faithful(s, {"bodies", "heads"})]
  IN
  /\ pc[p] = "elems"
  /\ \/ (\E k \in {"bodies", "heads"} : tables[s.src][k] = Absent) /\ End(p)
     \/ /\ \A k \in {"bodies", "heads"} : tables[s.src][k] # Absent
        /\ \/ s.rs # {} /\ Goto(p, "base", [t EXCEPT !.base = s.rs, !.rs = {}])
           \/ s.rs = {} /\ ToCreate(p, [t EXCEPT !.base = {}])
  /\ UNCHANGED database

-----------------------------------------------------------------------------
(* Creating and filling the result tables.                                 *)

(* The label after createResultTables.  The incremental algorithms never   *)
(* call init() and finalize() of their inserter, so that in cached mode    *)
(* their rules go to streams that were not opened and reach no table.      *)
AfterCreate(s) ==
  IF ~CacheWrites THEN "insert" ELSE IF s.rel = "None" THEN "copy" ELSE "select"

(* The next table createResultTables looks at: rules, bodies, heads.       *)
NextTable(p) ==
  LET s == sess[p] IN
  \/ /\ s.kind = "rules"
     /\ Goto(p, "probe", [s EXCEPT !.kind = "bodies"])
  \/ /\ s.kind = "bodies"
     /\ Goto(p, "probe", [s EXCEPT !.kind = "heads"])
  \/ /\ s.kind = "heads"
     /\ Goto(p, AfterCreate(s), [s EXCEPT !.kind = "rules", !.list = "ga"])

ProbeTable(p) ==
  LET s == sess[p] IN
  /\ pc[p] = "probe"
  /\ \/ tables[s.name][s.kind] # Absent /\ NextTable(p)
     \/ tables[s.name][s.kind] = Absent /\ Goto(p, "create", s)
  /\ UNCHANGED database

CreateTable(p) ==
  LET s == sess[p] IN
  /\ pc[p] = "create"
  /\ \/ /\ tables[s.name][s.kind] = Absent
        /\ tables' = [tables EXCEPT ![s.name][s.kind] = Empty]
        /\ NextTable(p)
     \/ /\ tables[s.name][s.kind] # Absent      \* somebody else created it
        /\ End(p)
        /\ UNCHANGED tables
  /\ UNCHANGED <<mr_query, mr_att_lists, mr_autoincrement>>

(* The first rows session p writes, and the last.                          *)
Begun(c, p) == IF c = Empty THEN p ELSE Junk
Ended(c, p, t) == IF c = p THEN t ELSE Junk

FirstInserts(p) ==
  LET s == sess[p] IN
  /\ pc[p] = "insert"
  /\ \/ ~Exist(s.name) /\ End(p) /\ UNCHANGED tables
     \/ /\ Exist(s.name)
        /\ tables' = [tables EXCEPT ![s.name] = [k \in Kinds |-> Begun(@[k], p)]]
        /\ Goto(p, "fill", s)
  /\ UNCHANGED <<mr_query, mr_att_lists, mr_autoincrement>>

LastInserts(p) ==
  LET s == sess[p]
      elems == {"bodies", "heads"}
      read == IF ReadsLazily(s) THEN Faithful(s, elems) ELSE TRUE
      answer == IF s.sound /\ read THEN s.text ELSE Junk
      broken == \/ ~Exist(s.name)
                \/ ReadsLazily(s) /\ \E k \in elems : tables[s.src][k] = Absent
  IN
  /\ pc[p] = "fill"
  /\ \/ broken /\ End(p) /\ UNCHANGED tables
     \/ /\ ~broken
        /\ tables' = [tables EXCEPT ![s.name] = [k \in Kinds |-> Ended(@[k], p, answer)]]
        /\ ToRegister(p, s)
  /\ UNCHANGED <<mr_query, mr_att_lists, mr_autoincrement>>

(* CachedDBInserter::finalize: one COPY each for rules, heads and bodies.  *)
CopyTable(p) ==
  LET s == sess[p] IN
  /\ pc[p] = "copy"
  /\ \/ tables[s.name][s.kind] = Absent /\ End(p) /\ UNCHANGED tables
     \/ /\ tables[s.name][s.kind] # Absent
        /\ tables' = [tables EXCEPT ![s.name][s.kind] = Ended(Begun(@, p), p, s.text)]
        /\ \/ s.kind = "rules" /\ Goto(p, "copy", [s EXCEPT !.kind = "heads"])
           \/ s.kind = "heads" /\ Goto(p, "copy", [s EXCEPT !.kind = "bodies"])
           \/ s.kind = "bodies" /\ ToRegister(p, s)
  /\ UNCHANGED <<mr_query, mr_att_lists, mr_autoincrement>>

-----------------------------------------------------------------------------
(* Registering the result: addMineruleResult.                              *)

CounterOf(s) == IF s.list = "none" THEN "mr_query" ELSE "mr_att_lists"

NextList(s) ==
  CASE s.list = "ga" -> "ra"
    [] s.list = "ra" /\ s.text \in Clustered -> "ca"
    [] OTHER -> "none"

LastValue(c) == IF mr_autoincrement[c] = 0 THEN 1 ELSE mr_autoincrement[c]
LowerValue(c) == mr_autoincrement[c] - 1
NewValue(c) == mr_autoincrement[c] + 1

(* getNewAutoincrementValue: SELECT, then UPDATE.                          *)
SelectId(p) ==
  /\ pc[p] = "select"
  /\ Goto(p, "update", [sess[p] EXCEPT !.id = NewValue(CounterOf(sess[p]))])
  /\ UNCHANGED database

UpdateId(p) ==
  /\ pc[p] = "update"
  /\ mr_autoincrement' = [mr_autoincrement EXCEPT ![CounterOf(sess[p])] = sess[p].id]
  /\ Goto(p, "store", sess[p])
  /\ UNCHANGED <<mr_query, mr_att_lists, tables>>

RegisterUnstoredList(p) ==
  LET s == sess[p] IN
  /\ pc[p] = "store" /\ s.list # "none"
  /\ Goto(p, "select", [s EXCEPT !.lists[s.list] = s.id, !.list = NextList(s)])
  /\ UNCHANGED database

InsertList(p) ==
  LET s == sess[p] IN
  /\ pc[p] = "store" /\ s.list # "none"
  /\ mr_att_lists' = mr_att_lists \cup {[id |-> s.id, list |-> s.list]}
  /\ Goto(p, "select", [s EXCEPT !.lists[s.list] = s.id, !.list = NextList(s)])
  /\ UNCHANGED <<mr_query, mr_autoincrement, tables>>

(* query_id is the primary key of mr_query: a second use of an id fails.   *)
InsertQuery(p) ==
  LET s == sess[p] IN
  /\ pc[p] = "store" /\ s.list = "none"
  /\ \/ (\E r \in mr_query : r.id = s.id) /\ UNCHANGED mr_query
     \/ /\ \A r \in mr_query : r.id # s.id
        /\ mr_query' = mr_query \cup
             {[id |-> s.id, name |-> s.name, text |-> s.text, res |-> s.res, lists |-> s.lists]}
  /\ End(p)
  /\ UNCHANGED <<mr_att_lists, mr_autoincrement, tables>>

(* addDerivedResult.                                                       *)
LookupOriginal(p) ==
  LET s == sess[p] IN
  /\ pc[p] = "original"
  /\ \/ Named(s.orig) = {} /\ End(p)
     \/ \E r \in Named(s.orig) : Goto(p, "derived", [s EXCEPT !.text = r.text])
  /\ UNCHANGED database

LookupDerived(p) ==
  LET s == sess[p] IN
  /\ pc[p] = "derived"
  /\ \/ Named(s.name) # {} /\ End(p)
     \/ Named(s.name) = {} /\ ToRegister(p, s)
  /\ UNCHANGED database

-----------------------------------------------------------------------------
Start(p) == StartQuery(p) \/ StartDelete(p) \/ StartDerive(p)

Step(p) ==
  \/ CheckHomonym(p) \/ LookupDeleted(p) \/ SelectVictims(p) \/ DeleteRow(p)
  \/ DropTable(p) \/ ReadCatalogue(p) \/ CountPast(p) \/ Optimize(p)
  \/ OptimizeThrows(p) \/ ReadBase(p) \/ CountBase(p) \/ OpenCursor(p)
  \/ LoadElems(p) \/ ProbeTable(p) \/ CreateTable(p) \/ FirstInserts(p)
  \/ LastInserts(p) \/ CopyTable(p) \/ SelectId(p) \/ UpdateId(p)
  \/ InsertList(p) \/ InsertQuery(p) \/ LookupOriginal(p) \/ LookupDerived(p)

Crash(p) == Crashes /\ pc[p] # "idle" /\ End(p) /\ UNCHANGED database

Next == \E p \in Procs : Start(p) \/ Step(p) \/ Crash(p)

Spec == Init /\ [][Next]_vars

(* The operating system runs every program that can go on.                 *)
FairSpec == Spec /\ \A p \in Procs : WF_vars(Step(p))

-----------------------------------------------------------------------------
(* Properties.                                                             *)

(* The tables of result n hold the whole answer of text t, once.           *)
Whole(n, t) == \A k \in Kinds : Answers(tables[n][k], t)

(* What a catalogue row promises (Docs/HOWTO_ACCESS_RESULTS.md): its       *)
(* result tables exist and hold exactly the rules its text asks for.       *)
Intact == \A r \in mr_query : Whole(r.res, r.text)

(* A result that rows share belongs to a row that is itself catalogued     *)
(* under the name of that result, unless a session is deleting them; an    *)
(* owner that went first would let a later run take the tables over.       *)
Owned ==
  \A r \in mr_query :
    \/ \E o \in mr_query : o.name = r.res /\ o.res = r.res
    \/ \E p \in Procs : pc[p] = "delete" /\ r \in sess[p].rs

(* existsMinerule, getMRQueryInfo and getResultsetName look a row up by    *)
(* its name: at most one row has it.                                       *)
NamesUnique == \A r, s \in mr_query : r.name = s.name => r = s

(* The attribute lists of two rows, or two lists of one row, never share   *)
(* an id: mr_att_lists has no key, so their columns would be mixed up.     *)
ListsPrivate ==
  \A r, s \in mr_query : \A l, m \in Lists :
    r.lists[l] = s.lists[m] /\ r.lists[l] # 0 => r = s /\ l = m

(* Every list id in a row was stored before the row.                       *)
ListsStored ==
  \A r \in mr_query : \A l \in Lists :
    r.lists[l] # 0 => [id |-> r.lists[l], list |-> l] \in mr_att_lists

(* Without allowCascadeDeletes "the system refuses to delete the minerule" *)
(* whose result is used by another one (CHANGELOG, v1.0.7).                *)
RefusesShared ==
  [][~Cascade => \A r \in mr_query \ mr_query' :
                   \A o \in mr_query : o.res = r.name => o.name = r.name]_vars

(* While a row stays in the catalogue nobody touches the tables it uses.   *)
ResultsStable ==
  [][\A r \in mr_query \cap mr_query' : tables'[r.res] = tables[r.res]]_vars

(* What a reader gets under a name: nothing when it is not catalogued, the *)
(* answer of its text when the tables it points to are whole, else Junk.   *)
Reading(n) ==
  IF Named(n) = {} THEN Absent
  ELSE LET r == CHOOSE r \in Named(n) : TRUE
       IN  IF Whole(r.res, r.text) THEN r.text ELSE Junk

Store == INSTANCE AnswerStore
           WITH Nothing <- Absent, store <- [n \in Names |-> Reading(n)]

(* The catalogue and its tables implement the dictionary of AnswerStore:   *)
(* every statement of a program publishes one whole answer, withdraws one, *)
(* or changes nothing a reader can see.                                    *)
ImplementsStore == Store!Spec

(* A mr-query of a rule that has started under a name ends up catalogued   *)
(* under it: with one program at a time, homonyms overwritten and          *)
(* dependents deleted with them, no statement of executeMinerule fails.    *)
Completes ==
  \A p \in Procs : \A n \in Names :
    (pc[p] = "exists" /\ sess[p].name = n /\ sess[p].text \notin Itemsets \cup Unconditional)
      ~> \E r \in mr_query : r.name = n
=============================================================================
