# TLA+ specifications of minerule

minerule keeps a *catalogue* of the minerules (data mining queries in an SQL
dialect) it has answered, and their answers in result tables of the same
database. A new minerule is first compared with those of the catalogue: an
equivalent one is answered by pointing at the tables of the old one, a more
special one by filtering an old result, a combination by merging several; only
then is the source data mined. These modules specify that system, check it with
TLC on small instances, and prove its central properties with TLAPS.

## 1. The system

| component | state | operations | talks to |
|---|---|---|---|
| optimizer catalogue (`src/src/Optimizer/OptimizerCatalogue.cpp`) | tables `mr_query`, `mr_att_lists`, `mr_autoincrement`, `mr_eval_measures` | `addMineruleResult`, `addDerivedResult`, `deleteMinerule`, `existsMinerule`, `getMRQueryInfo(s)` | database, one statement at a time |
| result tables (`src/src/Database/Connection.cpp`) | three tables per result: rules, body elements, head elements | `createResultTables`, `insert`, `finalize`, `deleteDestTables` | database |
| driver (`Algorithms.cpp`, `Programs/`) | one parsed minerule per process | `executeMinerule`, `deleteQuery`, `addDerivedQuery` | all of the above |
| past-result optimizer (`OptimizedMinerule.cpp`, `GAQueryCombinator.cpp`) | the past minerules it read | `optimize`, `getMineruleRelationship`, `checkForCombinedQueries` | catalogue, predicate reasoning |
| incremental algorithms (`IDIncrementalAlgorithm`, `ConstrTree`, `DestrTree`, `ResultCombinator`) | a cursor on the past result, trees of bodies and heads | `execute`, `filterQueries`, `insertRulesInStructure` | result tables, source data |
| predicate reasoning (`PredicateUtils/`) | predicates in disjunctive form, truth tables, intervals | `encode`, `getRelationship`, `operator&=` | - |
| rule, itemset and sequence miners (`Algorithms/`) | body maps with sets of group ids, prefix trees, id lists | `mineRules`, `generateRules`, `BuildMiner` | source data, result tables |
| query normalizer (`QueryNormalizer.cpp`, `SimplePredAnalyzer.cpp`) | the minerule being rewritten, the table of equivalent keys | `normalize`, `compactPredicates` | catalogue, source data |
| source data (`Database/PrepareDataUtils`, `SourceTable`, `Transaction.hpp`) | body and head cursors ordered by group | `findGid`, `loadBody`, `loadHead` | database |
| items (`SourceRowAttribute`, `SourceRowElement`, `ItemType`) | typed values of columns, the keys of all maps of the miners | `createAttribute`, `operator<`, `setParam` | source data, result tables |
| installation (`CatalogueInstaller`) | whether each catalogue table exists | `install`, `uninstall`, `checkInstallation` | database |
| adapter (`Adapters/postgres/`) | a connection, cursors, parameter arrays | `execute`, `executeQuery`, `next` | PostgreSQL |
| parser, options, logging | the text of a minerule, option values | parsing and printing | - |

What is hard. Several programs may run at a time on one database, users are not
stopped from starting two, and **no statement is part of a larger
transaction**: the adapter sends every statement with autocommit. A program may
throw or be killed between any two of its dozens of statements, and everything it
has done so far stays. Results are shared: a row of `mr_query` may point at the
tables of another minerule. The names of tables are the names of minerules, so
whoever reuses a name reuses the tables. Counters, cursors and catalogue rows are
read in one statement and used in a later one. The other parts are sequential
algorithms whose difficulty lies in the data: truth tables over atoms that are
not independent, group counting with early pruning, merges of ordered cursors.

What makes the components correct:

* catalogue and tables: a row always has its tables, and they hold the answer of
  the row's text, once and nothing else; a name has one row; a shared result has
  an owner; attribute lists are stored before the row and belong to one row only;
  nobody changes a catalogued result; a minerule that starts gets catalogued.
* optimizer: a past minerule is called equivalent only if it has the same answer,
  dominating only if the new answer is a part of its answer.
* miners: the rules found are those whose support reaches the threshold, each once,
  with their right measures (no miner looks at the confidence threshold).
* incremental algorithms: the same result as mining would give.
* sequence miner: the sequences written are frequent and satisfy the conditions, every other
  one is part of a longer one as frequent, and no table of its own stays behind.
* normalizer: a minerule keeps its meaning, and ends up with the reference keys.
* items: the program orders and tells apart items as the database does, and reads back from
  a result table what it wrote.
* installation: complete or absent.

`PROJECT.json` lists the hazards of the code with the properties that cover each, or the reason why none does.

## 2. The modules

| module | what it is |
|---|---|
| `AnswerStore` | the abstract specification: a dictionary from names to whole answers, changed at one name at a time |
| `Catalogue` | the catalogue, the result tables and the sessions that change them, statement by statement |
| `CatalogueInv` | the inductive invariants `IInv`, `StoredInv` and `PrivateInv` and, for programs on names of their own, `ApartInv`; the hypotheses `Careful` and `Apart` |
| `MCCatalogue` | the relations and name assignments of the instances TLC checks; names of their own are confirmed to be `Apart` |
| `CatalogueProofs` | `TypeCorrect`; the attribute lists: `RowListsStored`, `RowListsPrivate`; `IInv` is inductive, and `AnswersWhole`, `RowsOwned`, `ResultsUntouched`, `SharedRefused`, `StoreImplemented`; `ApartInv` is inductive, and `ApartWhole`, `ApartUntouched`, `ApartStore` |
| `PredicateRelation` | how two predicates are compared: variables, settings, interval filter, encodings, merge |
| `PastQueries` | `optimize()`: the loop over the past minerules and the search for a combination; it EXTENDS `PredicateRelation`, whose steps are its comparisons |
| `MCPastQueries` | the predicates and catalogues of the instances TLC checks, whose whole-numbered literals TLC confirms to be `Separated` and `Dense` |
| `PastQueriesProofs` | the inductive invariants `CompareInv` and `QueriesInv`, `Combining`, `CountInv`, `RecognizeInv`, `Scanning`; `CompareSound`, `QueriesSound`, `AnswersPromised`, `CombinationAnswers`, `DistanceCounted`, `RelationshipsRecognized`, `BestChosen` |
| `Ordering` | how the models sort: `Listed` gives the sequence of a finite set in an order |
| `SourceData` | what the body, head and joined queries select and in which order, and the cursors that are moved over them group by group; it EXTENDS `Ordering` |
| `RuleMining` | the choice of an algorithm, reading, pruning, and the miners `BFSWithGidsNoCross`, `BFSWithGidsAndCross`, `CARE`, `ConstrainedItemsets`; it EXTENDS `SourceData` |
| `RuleMatching` | `mr-match`: the rules of an extraction are matched with the groups of a table; it EXTENDS `RuleMining` |
| `IncrementalMining` | the item dependent filter, `ResultCombinator`, `ConstrTree` and `DestrTree`; it EXTENDS `SourceData` |
| `SequenceMining` | `STSMiner`, with the tables it creates; it EXTENDS `Ordering` for the order in which lists are read |
| `QueryNormalizer` | the passes of `normalize()`; it EXTENDS `Ordering` for the order of its keys |
| `TypedItems` | items between columns, ordered maps and result tables |
| `MCRuleMining`, `MCIncrementalMining`, `MCSequenceMining`, `MCQueryNormalizer`, `MCTypedItems` | the tables and minerules of the instances TLC checks; the first four have TLC confirm the hypotheses of the proofs: `GroupedTables` and `CareDisjoint`, `JobsAnswerable`, `OneIsAllowed`, and `EquivalentKeys`, `OrderedKeys` and `ReferencesLast` |
| `SourceDataProofs` | what a query returns and in which order, what the cursors skip and load: lemmas |
| `RuleMiningProofs` | `CursorsInStep`, `GivesUpOnNothing`, `ExactRules`, and of `RuleMatching` `MatchedGroups` |
| `IncrementalMiningProofs` | `IncrementalInv` is inductive; `SupportsCounted`, `AnswersSound`, `AnswersComplete` |
| `SequenceMiningProofs` | `KilledRunsFailTwice`, `WritesOnce`, `PositionsExact`, `WrittenRight`, `WritesAll`, `LeavesNothing` |
| `QueryNormalizerProofs` | `TypedInv`, `KeptInv`, `NormalInv`; `GroupsKept`, `RowsKept`, `EndsNormal` |
| `TypedItemsProofs` | the orders of items as total orders, and `GroupsOrdered`, `MapExact`, `ResultsReadBack` |

How they meet. A minerule is normalized (`QueryNormalizer`), compared with the past ones
(`PastQueries`), and then answered by mining (`RuleMining`, `SequenceMining`) or from past results
(`IncrementalMining`); `Catalogue` is the driver around all of that, and the only place where
programs meet. Each module takes from the others what their properties state:

* `Catalogue` takes the relations between texts as constants. What `Promised` says of a dominating or
  equivalent past minerule is the meaning `Catalogue` gives to its relations (section 5 says where the code
  promises less).
* `Catalogue` takes the answer of a text as one value. `Exact` of `RuleMining` and of `SequenceMining` and
  `Sound` and `Complete` of `IncrementalMining` say that mining and filtering lead to the same answer.
* `SourceData` compares groups and items as numbers, in the order in which the database returns them.
  `ItemsExact` and `GroupsAscend` of `TypedItems` are that assumption, with the types and
  values for which it is right.
* `RuleMatching` goes on where `RuleMining` ended, with the rules inserted there.
* `IncrementalMining` starts from rules as the miners wrote them; `ReadBack` says when the items
  read are those written.

### `Catalogue`

The state is the database and, for each process, where it is (`pc`) and what it
holds in local variables (`sess`). A label stands between two statements:

| labels | code |
|---|---|
| `exists`, `lookup` | `checkAndHandleHomonymMinerules`; `checkQueryName` of mr-catalogue |
| `victims`, `delete`, `drop` | `deleteMinerule`: the SELECT, the DELETE of each row, the three DROPs |
| `catalogue`, `sizes` | `optimize()`: `getMRQueryInfos` and `updateQrySize` of every row |
| `base`, `count`, `cursor`, `elems` | the past minerule is read again by name; its size; `QueryResult::Iterator`; the elements of its rules |
| `redrop`, `probe`, `create` | `createResultTables` |
| `insert`, `fill`, `copy` | the direct inserter between its first and its last INSERT; `CachedDBInserter::finalize` |
| `select`, `update`, `store` | `getNewAutoincrementValue` and the INSERT it is for, first for the attribute lists, then for the row |
| `original`, `derived` | `addDerivedResult` |

An error, a failed assertion and the normal end all go to `idle` (`End`): nothing
is undone. `Crash` ends a program anywhere.

Abstractions:

* A text stands for a minerule without its name. Its answer is assumed not to be
  empty, so that a filled table differs from a new one.
* The content of a table is nothing (`Absent`), no rows (`Empty`), rows a session
  is still writing, the answer of a text, or `Junk`: rows of two runs, or rows
  computed from a result that was not whole. A session that reads a past result
  remembers in `sound` whether it was whole when it was read.
* Which texts are equivalent, dominated or combined is given by constants.
  `RelationsAssumption` states what the code ensures: equivalence is transitive,
  and the head lists are compared, so itemsets are related only to itemsets.
* Which of several equivalent rows is found first, which dominating one is the
  smallest and whether the genetic search succeeds in time are left open.
* All INSERTs of a result are two steps, the first and the last.
* `StartDerive` has the user put a complete result into tables that no row uses
  before running `mr-catalogue -a`, as its help text asks.

`MaxQueries` and `MaxLists` bound the ids that are given out; they guard only the
start of programs that take ids, so every program that starts can go on to its end.

### Properties of `Catalogue`

`Intact` is the main one: every row of `mr_query` has its tables and they hold the
answer of its text. `Owned`, `NamesUnique`, `ListsPrivate`, `ListsStored` relate the
rows of the catalogue with one another and with the attribute lists. `ResultsStable`
and `RefusesShared` say what a step may not do. `ImplementsStore` is the refinement of
`AnswerStore`: reading a name yields nothing or the whole answer of its text.
`Completes` is the liveness property: a query of a rule that starts is catalogued. `NamesUnique` is a
part of `IInv`, which is checked as a whole.

### `PredicateRelation`

| actions | code |
|---|---|
| `Compare` | `getPredicateRelationship`, and the same first lines of `GAQueryCombinator::evaluator`: the simple predicates of both are numbered |
| `FirstSetting`, `NextSetting`, `NoMoreSettings` | `VarSetEnumerator`: settings as binary numbers, counted up; the loop of `encode` |
| `FilterNext`, `KeepSetting` | `impossibleVariableSetting`: one simple predicate narrows the interval of its attribute, until one is empty or none is left; `encode` appends the setting |
| `MergeSame`, `MergeAlone`, `MergeRest`, `MergeEnd` | `getCodesRelationship` |
| `CountAlone` | `computeHammingDistance` |

A setting is the set of the variables that are true, an encoding the sequence of its settings;
the bits of an encoding's cells are not modelled. A row gives every attribute a number, and
`Meaning` says, independently of all that, which rows a predicate accepts. Simple predicates
compare an attribute with a literal, two attributes, or two literals, which is what the parser
leaves; values are numbers. `NumberOf` is in units of 1/`Unit`, so that the cast to `int` in
`compareValues` is visible. More than `MaxVars` variables end the program (`aborted`).

`Sound`: what a comparison claims of two predicates is true of their rows. `Recognized`: without
cross conditions no claim is missed. `DistanceExact`: the distance is the size of the symmetric
difference of the encodings.

### `PastQueries`

| actions | code |
|---|---|
| `SkipRow`, `RelateRow`, `RelateNext`, `Relate`, `EndOfRows` | the loop of `optimize()` and `getMineruleRelationship` |
| `UnreadableRow` | a past minerule with a condition on groups: `getMineruleText` stores it without HAVING, so its text cannot be parsed again |
| `EvaluateGenome`, `Combine`, `SearchOn`, `GiveUp` | `checkForCombinedQueries` and `GAQueryCombinator` |
| `RunComparison` | the steps of `PredicateRelation` |

The source table, the attribute lists and the aggregates are one value, `form`, of which only
equality matters. The genetic search evaluates any combinations in any order: how genomes are
bred is the library's. A genome is a set of disjuncts, each a set of candidates (duplicates
change nothing). The exception of `hasIDConstraints` for an attribute that the catalogue does not
know is left out, and so are `firstMineruleIncludesSecondMinerule` and its like, which have no
callers.

`Promised`: the minerule chosen is a past one, comparable to the new one, and each of its
conditions accepts what the new one accepts, and only that when it is called equivalent.
`BestFound`: without cross conditions an equivalent past minerule is not missed, and otherwise the
dominating one with the smallest result is chosen. `CombinationExact`: a combination accepts
exactly the rows of the new condition, if the comparison saw all of its disjuncts. `Ends`: `optimize()` ends.

### `RuleMining` and `SourceData`

| actions | code |
|---|---|
| `Refuse`, `Prepare` | `newAlgorithm` in `Algorithms.cpp`: the preferred algorithm or the first that can handle the minerule; `SourceTable::init` |
| `ReadNoCross`, `ReadAndCross`, `ReadCare`, `ReadItemsets` | the reading loops: one group, with `findGid` on the other cursor |
| `PruneBodies`, `PruneCare`, `PruneItemsets` | `pruneMap` and the selection of frequent items |
| `GenerateRules`, `AddHead` | the queue of bodies that grows while it is scanned; the recursion over heads |
| `BuildRules`, `BuildHead` | the two recursions of CARE in `Bodymap.cpp` |
| `Finish` | the last rule is inserted |

The calls still to be made are `work`; one step is the loop of one call. Groups, items, bodies and heads
are numbers and sets of them. A query selects rows of the table by their numbers and returns them in the order of
the table, or of their groups where the code asks for ORDER BY (`Ordered`). A cursor is the position of its row. `Expected` is the answer by definition,
from the rows of the table, with the comparison each miner uses for its threshold.

`Aligned`: while two cursors are moved in step, the group ids of an item are those of the groups that
hold it. `Exact`: the rules inserted are those of the minerule, each once. `NothingLost`: an
extraction that gives up had nothing to find. `Ends`, which `MatchEnds` includes: the loops run out.

### `RuleMatching`

| actions | code |
|---|---|
| `OpenSourceTable` | `execute` in `mrmatch.cpp`: the source table of the minerule or of `-t`, by one joined query or by two |
| `MatchRuleTransaction`, `MatchItemTransaction` | one round of `matchWithCrossProduct` or `matchWithoutCrossProduct`: a group is loaded and every rule is compared with it |
| `NoMoreHeads`, `NoMoreGroups` | the `break` and the end of these loops |
| `PrintMatches`, `SaveMatches` | `printMatches` on the screen, and of `RuleGidsDBMatcher` |

Whether the items determine the attributes of the condition (`hasIDConstraints`) is left open, so that both
loops are taken. The order in which matches are shown, by rule or by group, is left out: `matches` has the groups of each rule.
`Matched`: the groups listed for a rule are those in which it holds, in order; none is missing if every
group has heads, and none is added unless there is a cross condition. `MatchEnds`: both programs end.

### `IncrementalMining`

| actions | code |
|---|---|
| `Choose` | `newIncrementalAlgorithm` and the preparation of the queries |
| `FilterRule`, `FilterEnd` | `IDIncrementalAlgorithm::execute` |
| `LoadConjunct`, `UniteConjunct`, `SaveCombination` | `ResultCombinator::execute` and the set operations of `QueryResult` |
| `Insert`, `StartReading` | the past rules become a tree of bodies and heads |
| `ReadConstructive`, `ReadDestructive`, `EndReading` | one group of `adjustSuppRSet` |
| `ExtractRules` | the rules that reach the thresholds |

A row says which parts of the new and of the past condition it satisfies. A tree is the two functions from
its nodes to their supports. `InStep` collects the tables for which the trees are right, and `HeadsFromOne` the past
minerules whose heads have what `DestrTree` needs (below, section 5). `JobsAnswerable` says what the optimizer has
established before an incremental algorithm is called.

`Counted`: while the trees are adjusted, every past rule and its body are counted exactly on the groups read
so far (and, in the destructive tree, on the old ones for the rest). `Sound`, `Complete`: the rules written are
right, and none is lost. `Ends`: no null pointer, no endless loop.

### `SequenceMining`

| actions | code |
|---|---|
| `Start` | `createResultTables` and the start of a run |
| `CreateSource`, `CreateNumbers`, `DropNumbers`, `FailSource` | the source table of the run, the numbering of the groups, and a CREATE that fails because a killed run left the table |
| `ExtractSingletons` | the frequent items |
| `StartLevel`, `ReadCandidate`, `EndLevel` | `_Seqk` is created and read, one candidate pair at a time; `check_pos_lists`; closed patterns are not written |
| `Finish`, `Fail` | the last tables are dropped, at the end or by the handlers: those of `mineRules` drop the source table and the tables of two levels, that of `setSeqIDProp` the numbers of the groups, if it was they that could not be created (`STSMiner.hpp:429`) |
| `Kill`, `Again` | the program is killed between two statements and started again by its user |

A pattern is kept with the ends of its occurrences (`ends`), the groups, and what is known of its
conditions (`bits`, `counts`). `EndsExact`: those ends are the ends of all occurrences. `Exact`, `Complete`,
`NoneTwice`: what is written. `NothingLeft`, `FailsTwice`: tables of killed runs make at most two later runs
fail each, and a run that ends leaves none. A run killed while the groups are numbered does cost two:
one fails on the source table and drops it, the next one on the numbers. `Ends`.

### `QueryNormalizer`

| actions | code |
|---|---|
| `Load` | the predicates as the parser left them, and the entries of `mr_eq_keys` |
| `SubstituteInLists`, `SubstituteInAndList`, `AbortOnReference` | keys give way to the reference key; values are looked up in the source table |
| `ComparePair`, `NextPredicate`, `NextList` | one turn of `compactPredicates`, with the table of 108 relationships in `SimplePredAnalyzer.cpp` |
| `RelaxOperators`, `CleanPredicates` | the last two passes |

`compactPredicates` reads the attribute and the value of a predicate once, before its inner loop. When a later predicate
takes its place (case `l`), `removeNode` deletes these strings, and the following turns go on with them. From then on
(`freed`) a turn takes any entry that the two operators have in the table, or finds the attributes different
(`RelationsOf`); `misread` records that a deleted attribute was taken for that of another predicate. The value of a
literal is a rank, one for the database and for the program: `SimplePredAnalyzer.cpp:81` compares literals by
their bytes, `addNewCondition` and `relaxOperatorInPred` leave it to the collation of the database, and the two are taken to agree.

`SameRows`: under `Careful`, and unless a deleted attribute was taken for another one (`misread`), a condition accepts
the pairs of rows it accepted before. `SameGroups`: the
attribute lists group the rows as before. `Normal`: what is left is about reference keys.

### `TypedItems`

| actions | code |
|---|---|
| `ReadRow`, `ReadThrows`, `EndOfRows` | a row of the cursor becomes a group and an item, which is looked up in a `std::map` (lower bound by the order of the program) |
| `InsertItem` | an INSERT with `setParam` |
| `InsertLine`, `Finalize` | the lines of the cached writer, and COPY |
| `ReadElem`, `EndOfElems` | the elements are read again by the incremental algorithms |

An int is `-Half .. Half - 1`, a text a pair of what `setParam` keeps and the rest; the database's
collation is a constant, and a NULL, an empty text and a text that COPY reads as another one are values.
`ItemsExact`, `GroupsAscend` and `ReadBack` are stated under `FitsInt`, `OrderedAlike` and `Writable`, which
are as weak as the instances allow: without any of them a table of the same family violates the property.

## 3. The runs

The runs of the catalogue use module `MCCatalogue`. `ta` dominates `tc` and `td`, is equivalent to
`tb`, and `te` is a combination of `ta` and `tc`: one text for each branch of
`executeMinerule`.

| run | instance | shows |
|---|---|---|
| `serial` | one program at a time, three names, five texts, one of them an itemset, cascades, 3 ids | owners stay, results do not change, the dictionary is implemented, every mr-query of a rule completes |
| `serial_crash` | one program at a time, killed anywhere, no cascades | results stay whole, lists belong to one row, no owner of a shared result goes, and `IInv` is an invariant |
| `own_names` | two programs at once on different names, writes through files; past minerules dominate (`avoidEquivalenceDetection`), but no incremental algorithm fits and all is mined | programs that share only the catalogue do not disturb each other's results, even when a row vanishes while another program ranks it or two rows get one id, and their lists are stored before their rows |
| `race_delete` | two programs, homonyms kept | **violation** of `RefusesShared`: a minerule goes although another was just registered on its result |

Bounds. Three names are needed for an owner, a dependent and a bystander; three ids
let a name be catalogued, deleted or overwritten and catalogued again, with a third
row to relate to; five texts cover every branch. Two processes are enough for every
check-then-act pair of the code, as each is between two statements of one session.

The runs of the optimizer use module `MCPastQueries`.

| run | instance | shows |
|---|---|---|
| `past_queries` | eight simple predicates over three attributes, whole numbers as literals; 18 conditions against one another, and catalogues of up to four past minerules | comparisons are sound and complete, the best past minerule is found, combinations are exact, `optimize()` ends |
| `past_fractions` | literals 1 and 1.5 | **violation** of `Sound` |

Bounds. Rows hold the numbers 1 to 5 in half units, with the literals at 2 and 4: values below,
at, between and above them. `MaxVars` 4 stands for 31, and some pairs of conditions exceed it. Three past
minerules of a combination in two disjuncts, and two evaluations, are enough for a combination that
follows one that was rejected and for every order of the operands. A disjunct that begins with a
candidate without a mining condition is left out of `past_queries`: `buildAssociatedPredicate` takes
an empty predicate for one that is not set yet.

The other runs have a module each.

| run | instance | shows |
|---|---|---|
| `mining` | every table of a family of three groups over three items, stored by group or by item, under fifteen minerules | each miner keeps its cursors in step, inserts exactly the rules, none twice, and ends; `mr-match` lists the groups of the mined table, or of one with a group without heads, in which each rule holds |
| `incremental` | tables of three groups with cells that satisfy the past, the new or both conditions, or have two rows of which one does; conditions on one side and on both; heads of two items; filters and combinations over three items | exact counts at every step, and the same rules as mining, if the queries are in step |
| `sequences` | two groups with up to four rows of two items, ten minerules, one and two kills with homonyms kept or overwritten | exactly the frequent sequences that no longer one stands for; leftovers are cleaned up |
| `normalizer` | a table with a compound key and keys in the order of the reference or against it; all pairs of operators about one attribute, a third predicate after one that took the place of another, disjunctions, literals on the left, all pairs of list attributes | the normal form keeps rows and groups |
| `normalizer_true` | a disjunct that every row satisfies | **violation** of `SameSemantics`: the disjunct is dropped as if no row satisfied it |
| `typed_items` | tables of up to three rows, groups and items of each type or pairs, with NULL, numbers too large, long, empty and escaped texts | maps hold each item once, groups ascend, items survive the result tables |

Bounds. In `mining` three groups and three items are enough for a group without heads before, between and
after others, for a body of three items that extends one of two, and for thresholds that are and are not a whole number
of groups (a third, a half, two thirds). In `incremental` a past rule can lose its body, its head or both in each of the
groups, and the combinations of lost and kept items of a body of two are all there. In `sequences`
four rows make four levels: the first two are special, the third is where `k` is off
by one, and the fourth is the first one to drop the table of the level below it; two groups tell a pattern supported everywhere from one in half of them, and
two kills show that a second one does not add up with the first. In `normalizer` the values 2, 3 and 5 lie at the lower end of
the column, on a value of no row, and between two; lists have up to four predicates, so that a pair removed
is followed by others; a third predicate after a pair in case `l`, on the same attribute or on another one, meets the deleted
strings, and without `misread` in `SameRows` TLC finds conditions there that lose or gain rows. In `typed_items` an int has five bits (`Half` = 16): 34 is read as 2. Three rows
are two groups with an item in common, or an item that comes back.

Fairness. In `Catalogue`, `FairSpec` has weak fairness of every `Step(p)`: a program that was
started and not killed is scheduled by the operating system until it exits. Users
need not start anything and kills are never required to happen. No statement waits
for another session (there are no explicit transactions or locks), so a step that is
possible stays possible until it is taken. In `MatchSpec` it is weak fairness of the miner's steps and of those of `mr-match` once it is
started; nobody has to start it. In `PastQueries` and `IncrementalMining` it is
weak fairness of `Next`: each is one sequential call that a running process goes on with, and the genetic search is
bounded by its generations (`MaxEvaluations`) or its time limit (`GiveUp`). In `SequenceMining` it is weak
fairness of `Mine`, which includes that the user starts a failed or killed run again; `Kill` is bounded by the instance and
not required. `Again` is bounded by three failed runs for each kill, one more than `FailsTwice` allows. `QueryNormalizer` and `TypedItems` state safety only and assume no fairness.
Deadlock is checked nowhere: a sequential call ends, and in the catalogue all programs may have
ended and the bound on ids lets no other one start.

## 4. The proofs

TLAPS checks every theorem for any sets of names, texts and processes, any relations
that satisfy `RelationsAssumption`, and no bound on the length of a behaviour.

* `TypeCorrect` - `Spec => []TypeOK`, from the assumptions on the constants alone.
* `Inductive` - `Careful => (Spec => []IInv)`. `Careful` collects what the answers
  depend on: one program at a time, homonyms overwritten, no reuse of past results
  when writes are cached, no kill during a cascade. Section 5 says what happens without
  each of them.
* `AnswersWhole`, `RowsOwned`, `ResultsUntouched`, `SharedRefused` and
  `StoreImplemented` follow: they are `Intact`, `NamesUnique` and `Owned`,
  `ResultsStable`, `RefusesShared`, and the refinement of `AnswerStore`.

`Intact` is not inductive: that a new row is whole depends on what the session did
between `createResultTables` and the INSERT, and that nobody touches the tables of a
row depends on who may own them. `IInv` adds, for each label, what the session knows
there (`Good`): up to the row's INSERT no row has the session's name or its result
(`Dependent(name) = {}`), so its tables are its own to drop, create and fill; which of
them are absent, empty or full (`Holding`); that the past minerule it reads is still
catalogued (`Reading1`); that the result to be registered is whole. `OwnedOrDoomed` ties
the rows together: a result is owned by a row of that name unless a cascade is about to
delete all its rows. From it follows that a name no row has is a result no row has,
which is why `deleteMinerule` may drop its tables. Each action has one lemma
(`...Keeps`); `ReadStep` and `UnseenStep` are what most of them reduce to: a step that
changes nothing in the database, or only tables no row points to.

* `ApartWhole`, `ApartUntouched`, `ApartStore` - `Apart => (Spec => []Intact)`, and the same for `ResultsStable` and
  `ImplementsStore`: any number of programs at the same time, killed anywhere, with or without cascades and cached
  writes. `Apart` says that no two programs use the same name, homonyms are overwritten, no text can reuse a past
  result and none is derived: what is left to share is the catalogue, its counters and the SELECTs of `optimize()`.
  `ApartInv` says of each session (`Undisturbed`) that from its check of the name to its INSERT no row has that name, and how far
  its tables are. `OthersUndisturbed`: what a program does to its names is nothing any other session relies on. A row
  that is deleted by its id is the session's own (`RowDeleted`), because rows have different ids even when two programs were
  given one (`InsertQueryApart`: then the second inserts nothing). `TablesTouched` and `StoreStep` serve careful users as well.

The comparison of predicates:

* `CompareSound` - `Separated => (CompareSpec => []Sound)`: for any attributes, numbers and
  predicates, a comparison is right about every row. `Separated` says that no two literals are
  closer than 1; `past_fractions` shows that it is needed.
* `QueriesSound` and `AnswersPromised` - the same for all comparisons of `optimize()`, and
  `Promised`, for any catalogue and any bound on the search.

The inductive invariant is `CompareInv`. `Encoded`: the encoding so far holds, of the settings that
the enumerator has passed, at least those that some row produces and the predicate is true of, and
only those it is true of. `Filtering`: a row that produces the current setting has its values inside all
intervals, so that an empty interval means that no row produces it. `Merging`: which settings were
seen in one encoding only is what `relationship` and `distance` record. From these, inclusion of
encodings is inclusion of the sets of rows (`EncodingsDecide`). `QueriesInv` adds that `relations`
holds true claims about the conditions already compared, and that what `found` says of `basis` was
derived from three of them.

* `CombinationAnswers` - `Separated => (Spec => []CombinationExact)`. `Combining` keeps what is compared while a
  genome is evaluated; `CombinationMeaning` says that the predicate built of it, a product of disjuncts for each of its
  disjuncts, accepts what its candidates accept together. That failed for a disjunct of candidates without a condition,
  and the code is wrong about it (section 5); `Anchored` in the property is what remained.
* `DistanceCounted` - `Spec => []DistanceExact`, whatever the literals. `CountInv` says that encodings ascend in the order
  of the enumeration, so that a setting the merge has passed in one of them cannot come later in the other
  (`CurrentLater`), and that `distance` counts the settings passed in one only.
* `RelationshipsRecognized` - `Separated /\ Dense => (Spec => []Recognized)`. The converse of soundness needs that every setting in an
  encoding is that of a row. `RowsInv` says that the values in the interval of an attribute are those that meet all the
  simple predicates on it looked at so far (`Narrowed`), and that no interval is empty (`HasValue`); as without cross conditions
  no predicate relates two attributes, one value from each interval make a row that produces the setting (`SettingProduced`,
  `Produced`). `Telling` says of the merge that an inclusion it has given up was given up for a setting that
  only one encoding has: the encodings ascend, so a setting that was passed in one is not to come in the other (`CurrentLacks`).
* `BestChosen` - `Separated /\ Dense => (Spec => []BestFound)`. `Misses` turns the above into what each of the three relationships of a row
  lets through, and `Scanning` says that the choice so far is as good as every row passed (`Considered`): a
  row that could answer is taken or not smaller, and none but an equivalent one ends the loop (`ScanningRelate`).

`Dense` says that different literals are different numbers, and that rows may hold each of these numbers and others below, above and
between any two of them. The code treats every column as if it were so: in an integer column `A > 1 AND A < 2`
is as possible for `impossibleVariableSetting` as in any other one, and a relationship may be missed.

The attribute lists of the catalogue:

* `RowListsStored` - `Spec => []ListsStored`, for any number of programs and whatever they are
  killed in. `StoredInv` adds that a session has stored the lists whose ids it holds: the row is
  inserted after its lists, and no statement takes one list away from a row that stays.
* `RowListsPrivate` - `Serial => (Spec => []ListsPrivate)`. `PrivateInv` compares ids with the counter
  (`Numbered`): nothing in the catalogue is above it, and the id a session has just read is nobody's. It
  needs one program at a time: between the SELECT and the UPDATE of `mr_autoincrement`
  another program may take the same id.

Rule mining:

* `CursorsInStep` - `GroupedTables => (MatchSpec => []Aligned)`, for any tables and minerules. The
  hypothesis is about CARE and the itemset miner, which read without ORDER BY (section 5); for the
  other algorithms the order is proved of `Ordered`. `ReadInv` says where the cursors are between
  two groups: the bodies left are of later groups than those read, and the head cursor is not
  beyond the groups read. So `findGid` skips no head of a group still to come (`GroupRead`), and the ids an
  item gains are the number of the group just read if it is in it (`GroupCounted`). The lemmas of
  `SourceDataProofs` say what `Ordered`, `FindGid` and `LoadEnd` return; `Listed`, by
  which the models sort, is shown to list a finite set in its order, each member once.
* `GivesUpOnNothing` - `MatchSpec => []NothingLost`: an extraction fails with an empty query only if no
  pair of rows makes a rule (`NoRowsNoRule`).
* `ExactRules` - `GroupedTables /\ CareDisjoint => (MatchSpec => []Exact)`, for any tables, minerules and items.
  A call in `work` owes the rules of the minerule that it can still reach, those that extend its body or head by later
  items (`Owes`). `Accounts` says that the rules inserted and those owed are together the rules of the minerule, that
  no rule is inserted twice or inserted and owed, and that no two calls owe the same one (`Separate`). Each step keeps it
  (`CallDone`): what a call owes it inserts or leaves to the calls it makes, one for each
  next item (`BodiesBranch`, `HeadsBranch`, in CARE `DepthBranch`), and no rule is owed by those that it leaves out, because they
  have too little support or are too long. That needs the counts to be right: `Right` says
  that the gids, tables and vectors of a call are those of its body and head. `NarrowBody` and `NarrowHead` are what an
  intersection of gids gives, and `NumbersSize` that gids are counted like groups. `PairInv` does for the pairs
  of the joined rows what `Aligned` does for the maps. When no call is left nothing is owed, so all rules are inserted.
* `MatchedGroups` - `MatchSpec => []Matched`, for any finite number of items, any tables, minerules and miner. What a
  rule may look like is decided by the miner: `MinerInv` says of every call in `work` and every rule
  inserted that it has a body and a head, without a common item where bodies and heads have the same attributes. In
  `BFSWithGidsAndCross` that comes from the joined rows (`ReadAndCrossStep`: no item is a head of
  itself), in CARE from `KeptHeads`. `LoopInv` says of `mr-match` that each rule has the groups passed so far
  whose items fit it, in order (`InOrderAppend`), and that the loop ends behind the last group or at one without heads. A rule
  fits where it holds (`HoldingFits`), and holds where it fits if there is no cross condition (`FittingHolds`).
  `JoinedGroups` says which pairs of rows the joined query returns for a group.

Sequence mining:

* `KilledRunsFailTwice` - `Spec => []FailsTwice`, for any source table and minerules and any number of kills.
  `LeftInv` says that the failures so far and the tables left behind are together at most two for each
  kill: a run that fails drops a table that was left (`FailDrops`), a killed one leaves at most
  two (`KillLeaves`), and no other step leaves one. Two is what a run killed while it numbers the groups does cost.
* `WritesOnce` - `Spec => []NoneTwice`. Within a level, a pattern is determined by its two ids: two candidates that make the same
  sequence have the same front and the same tail, and so are the same pair (`ExtensionsDiffer`; for that
  `LevelOf` says that equal first ids mean equal fronts, and `CandidatesInv` that no candidate is read twice). Across
  levels, what is written is longer than all that earlier ones wrote (`WrittenInv`).
* `PositionsExact` - `Spec => []EndsExact`. `EndsInv` says that each pattern has the ends of its occurrences
  (`Ending`), and that the second id of a pattern names its tail (`Overlaps`). An occurrence of the longer sequence is one of the
  front and one of the tail that share all but their ends (`OccurrenceExtended`, `TailOccurs`); that
  `check_pos_lists` looks at one end of the front only loses none, because of those that are not too far away
  it is the furthest: if it is too near, all are (`CheckedEnds`).
* `WrittenRight` - `OneIsAllowed => (Spec => []Exact)`. `KnownInv` says that the bits, counts and groups a pattern inherits
  from its two parts are those of its sequence (`CandidateKnown`), `LengthInv` that no level exceeds the length asked for. A
  group that `sourceFilter` drops supports no sequence that meets the conditions (`SupportFiltered`), and a sequence without
  groups is never frequent (`NotEmpty`), which is why clearing the groups of a pattern keeps it out of the
  result. `OneIsAllowed` excludes LENGTH 0 .. 0 and MID with 0 .. 0 elements (section 5).
* `WritesAll` - `Spec => []Complete`, with no condition on the minerule. It takes no induction over data: the levels are
  the induction, and `FoundInv` says of each that all sequences of its length that are frequent among the groups that are left
  have been found (`AllFound`). Their front and tail were found on the level below (`OftenParts`), are a
  candidate because the ids of a pattern name its parts (`TailsJoin`), and are kept (`CandidateFound`). `ReadInv` says what
  has become of the candidates read and of the patterns that are no longer closed. `CoverInv`: a sequence that is asked for and shorter
  than the patterns in hand is part of what is written, or of a pattern in hand, with as many groups. That the count of the
  conditions never ends the levels too early is `GoesOnWanted`: each condition that a longer sequence satisfies is met
  by a part of it on this level (`PartMeets`), which has no more elements that meet a MID condition (`WindowPlaces`). `Complete` speaks
  of sequences with groups: of a source table without rows everything is frequent.
* `LeavesNothing` - `Spec => []NothingLeft`, however often runs are killed. The patterns and the tables of a run follow
  from the source rows and the minerule, and so the steps of all runs are on one way (`After`, `Leads`). `MadeInv`: a table that
  was left is made by one of the points on it; `AheadInv`: those that the run in hand has not made itself it has still to
  create, and will then fail on. At the end of the way nothing is ahead (`LeadsNowhere`).

Incremental algorithms, for any source tables, thresholds, past results and number of groups and items:

* `SupportsCounted` - `JobsAnswerable => (Spec => []Counted)`. `CursorInv` says that all queries are level with the groups
  read (`Level`): the rows before a cursor are of these groups, those behind it of others. A query whose groups are
  among those of the bodies stays level (`LevelWith`), and `InStep` makes them so (`QueriesFollow`). `SuppInv` is `Counted` for the
  nodes inserted so far: one group more changes the set of groups that a node counts (`Held`) by that group or not at
  all (`HeldGrows`, `HeldShrinks`), for `DestrTree` because what a group supports now is what it supported without the
  items it lost (`GroupHeld`). It holds of the nodes of past rules only: in a destructive tree, those on the way to them have other numbers.
* `AnswersSound`, `AnswersComplete` - `JobsAnswerable => (Spec => []Sound)`, and the same for `Complete`. When all groups are
  read, `Held` is the set of groups that support the node under the new condition (`HeldAtLast`). With heads from one item on
  each node on the way to a past rule is a past rule itself (`SmallerHead`, `NodesInv`). `FilterInv` and `CombineInv` say which rules the
  filter and the combinator have taken so far; that the combinator compares rules by body and head only
  does no harm, since two past results have one rule with them (`OneRule`). A rule of the new minerule was found by each past one
  that accepts it, which asked for no more support and no narrower cardinalities (`FoundBefore`).

`JobsAnswerable` restates for rows and clauses what the optimizer establishes before one of these algorithms is called. `AsksNoMore`
are its comparisons of thresholds and cardinalities (`OptimizedMinerule.cpp:86`, `:361`). That the past condition
accepts what the new one does, or one conjunction of the pasts and only that, is what `Promised` and `CombinationExact` say of
predicates (`OverItems`, `InContext`; the two follow `newIncrementalAlgorithm`: with conditions over items alone all rows satisfy both
minerules alike, else both take all items). The step from one module to the other is not itself proved.

Normalizer:

* `GroupsKept` - `EquivalentKeys => (Spec => []SameGroups)`. `EquivalentKeys` says that the entries of `mr_eq_keys`
  are true of the source table; nothing in the code checks that.
* `RowsKept` - `EquivalentKeys /\ OrderedKeys => (Spec => []SameRows)`, for any table, keys and conditions, of any length, as long as no
  deleted attribute is taken for another one (`~misread`). `OrderedKeys` says that
  a key the catalogue calls ordered ascends or descends with its reference, as `mr_eq_keys` claims. `TypedInv` has the shape
  of every list in every phase. `KeptInv` says of a careful condition that each list, at each step of the rewriting, accepts the rows of
  the table that the written disjunct accepts, and that it is empty only if all do (`KeptLists`), until a deleted string is
  misread. Up to then a turn with deleted strings leaves the list as it is. A replaced key
  takes the bounds of the values of the reference in the rows that meet the replaced predicates
  (`SubstitutedKept`), which is right because the order of the key follows that of the reference. For each pair of predicates the table
  of relationships is compared with what both accept (`CompareKept`), all entries of its three parts by the solver.
  `RelaxedMeans` moves the strict bounds to the next value in the table, and dropping the emptied lists is right because a
  disjunct that becomes empty accepted no row, or was the only one (`CleanMeans`).
* `EndsNormal` - `ReferencesLast => (Spec => []Normal)`. `NormalInv` says that predicates about a key alone are left only in the lists still in
  `work`, and in the list in hand only on the sides still to be treated. A substitution removes those of one side
  (`AloneReplaced`) and adds predicates about a reference only (`AddedOnReference`). `ReferencesLast` says that no reference has a
  reference of its own: each side of a list is treated once, so that what has been put in is not replaced again.

Items, for every width of an int, any columns, rows, collation and lengths of texts:

* `GroupsOrdered`, `MapExact` - `Spec => []GroupsAscend`, `Spec => []ItemsExact`. `LessItem` is not an order
  of all items: differences are cut to int. `Comparable` collects what makes it one, and `FitsInt` is shown to
  be enough for it (`ElementsComparable`). With a strict total order the search in the map finds an item that is
  there (`ItemFound`) or the place where it keeps the map sorted (`ItemAdded`). `RowsInv` says after each
  row that the map holds the items of the rows read, sorted, with the ids of their groups.
* `ResultsReadBack` - `Spec => []ReadBack`. `Kept` says of the writer and the reader what each has got
  to: rows, lines or items of a prefix of the map. `ItemBack` is the round trip of one item through the
  columns of a result table, for both writers.

Assumed of the constants: that jobs have the fields their modules declare and that their values have the type
of their column (`JobsAssumption`, `SequenceAssumption`, `TypedItemsAssumption`, `SourceAssumption`); for sequences, that there
are finitely many groups and that a length is an int. Of the
hypotheses, `Serial`, `Careful`, `Apart`, `GroupedTables`, `CareDisjoint`, `EquivalentKeys`, `OrderedKeys` and `ReferencesLast` restrict how the program is used or on which
data, `Separated` and `Dense` which literals and values and `OneIsAllowed` which bounds are written, and `JobsAnswerable` what the optimizer hands over. Each of them is false of some use; the runs and section 5 say what happens then.

Only model-checked:

* liveness (`Completes`, every `Ends`, `MatchEnds`), and `ENABLED`: out of the prover's reach.

Nothing is promised of the answers of programs that run at the same time on the same names or that reuse each
other's results: nothing in the code keeps one from dropping or refilling the tables of another.

No module declares a RECURSIVE operator, so proofs about all of them can follow.

## 5. What came up

Shown by a run:

* The cascade check counts dependents that may have changed by the time of the
  deletion (`OptimizerCatalogue.cpp:61`): `race_delete`.
* Literals less than 1 apart are equal to `compareValues` (`Interval.cpp:125`):
  `past_fractions`.
* A disjunct that always holds is rewritten to nothing and then dropped, although normalization
  "maintains the same semantics": `normalizer_true`.

Part of the models' behaviour, without a run of its own.

Catalogue:

* A cascade is not atomic: a program killed after it deleted the owner's row leaves rows without
  tables, or on tables a later minerule of that name creates (`OptimizerCatalogue.cpp:88`).
* The incremental algorithms call neither `init()` nor `finalize()`: with `cacheWrites` their rules
  reach no table (`IDIncrementalAlgorithm.cpp:142`).
* Unless homonyms are overwritten, tables left by a failed run are taken over with their rows
  (`Connection.cpp:78`).
* Two programs may get the same id. The row of a minerule is deleted by id, so that with homonyms kept the
  other minerule loses its row too, and its tables are then taken over by the next one of that name.
* MINE ITEMSET fails an assertion about the empty head list (`PrepareDataUtils.cpp:35`) and reaches
  no rule table.

Past minerules:

* The difference of two numbers 2^31 or more apart does not fit into the int it is cast to (`Interval.cpp:125`). The
  models take literals and values closer than that.
* A past minerule with lower thresholds is called equivalent (`OptimizedMinerule.cpp:361`), and a combination
  ignores the conditions on groups and clusters (`OptimizedMinerule.cpp:79`).
* A dominated minerule need not have a mining condition, and the assertion at
  `IDIncrementalAlgorithm.cpp:157` ends the program (`serial_crash` has such a text).
* `getMineruleText` drops HAVING (`ParsedMinerule.cpp:354`): one stored condition on
  groups makes `optimize()` throw for every later minerule (`UnreadableRow`).
* `Predicate::operator&=` with an empty operand counts down from 0
  (`Predicate.cpp:138`): a combination with an unconditional candidate (`Overruns`).
* An unconditional candidate that comes first in its disjunct leaves the conjunction empty, as if nothing had been
  chosen (`GAQueryCombinator.cpp:55`). The disjunct is not compared but stays in the combination, which then
  accepts all rows. It takes past minerules on other clusters, or an equivalent one would have been
  found: the request about `Here` in `past_queries` has such a combination, and `Anchored` leaves it out.

Miners:

* CARE wants more groups than the integral part of the threshold, the other miners at least the
  threshold: they differ where it is a whole number (`Bitstring.cpp:301`).
* No miner applies the confidence threshold or the condition on groups.
* CARE reads without ORDER BY (`PrepareDataUtils.cpp:151`): with a table that is not stored by group the
  cursors lose step. `mining` gives it tables stored by group.
* CARE never lets a body item be a head, even if bodies and heads have different attributes: `CareDisjoint` leaves out
  such tables, and `mining` gives it none; `BFSWithGidsAndCross` counts for a
  body only the groups with a joined pair; whether bodies and heads have the same attributes depends
  on the order in which they are written.
* `ConstrainedItemsets`, if preferred, is accepted for MINE RULE and yields nothing.
* `BFSWithGidsNoCross` throws a pointer if a query is empty, so that the program reports an unknown exception and
  ends instead of giving an empty result (`NothingLost`: no rule is lost by that).

`mr-match`:

* At a group with bodies and no heads it stops reading ("no more heads to load", `Matcher.cpp:64`); later groups are not
  matched. The mined table may have such groups too. `Matched` asks for all groups if each has heads.
* With a cross condition a rule matches a group in which its items pair up with other items only
  (`RulesMatcher.cpp:19`).
* With `-d` no match is saved: the INSERT is prepared before its table is created (`RuleGidsDBMatcher.cpp:62`), and
  the CREATE fails if the table is there (`SaveMatches`).

Incremental algorithms (`InStep` leaves these tables out):

* `SortBodyHead` (`QueryResult-header.hpp:124`) compares bodies and heads as sequences, the model as sets. That is the same for
  results of miners that insert items in their order. CARE stores bodies by growing support (`Care.cpp:118`): if its results are combined
  with those of another miner, or of another run with other supports, one rule may count as two. Such combinations are not covered.
* `ConstrTree` does not skip head groups without bodies, and counts no bodies after the last head.
* `DestrTree` looks at a null pointer if a group is in one of the two queries only, or reads on forever if
  its tree is empty; a past condition on one side only makes `WHERE  AND NOT(...)`; a new condition on one side makes all rows
  of the other one look lost; an item of a group with two rows, of which one violates the condition,
  is counted as lost.
* `insertItemSetH` gives the support of a rule to each node it creates on the way to its head (`IncrAlgoClasses.cpp:139`), and
  `extractRules` writes these nodes too. `ConstrTree` counts them like all others. In `DestrTree` they keep the number of the longer
  rule, unless they are past rules themselves, and a past minerule whose heads have two items or more has none that
  are shorter (`HeadsFromOne` leaves those out of `Sound`). Neither tree looks at the cardinalities of the new minerule.
* The filter and the combinator ignore support and confidence of the new minerule
  (`IDIncrementalAlgorithm.cpp:129`); `Sound` therefore speaks of the numbers and the condition of a
  rule, not of the thresholds.

Sequences:

* If a single item is frequent, its repetitions are not mined (`Complete` leaves this case out).
* `MID` with 0 occurrences allowed is taken as at least one, and LENGTH 0 .. 0 as 1 .. 0. The grammar accepts 0 as the
  upper bound of both (`MineruleParser.ypp:385`, `:827`); single items are then written although
  neither the length nor the condition allows them (`OneIsAllowed` leaves these minerules out of the proof).
* `TEMP_GRPID` is one name for all sessions, and only the handler of its own creation drops it (`STSMiner.hpp:429`): those of
  `mineRules` do not.
* DISTINCT numbers the runs of rows before WHERE drops some of them.

Normalizer (`Careful` leaves these conditions out, and `misread` what the first one leads to):

* `compactPredicates` uses strings after it has deleted them (`QueryNormalizer.cpp:867`, `:930`): if they happen to keep their
  contents, `A < 5 AND A < 3 AND A < 4` becomes `A < 4`, because 4 is compared with 5. What happens is up to the allocator.

* Of two entries with one reference, the conditions found for the second are lost.
* `<>` on an ordered key is rewritten as a range and lost.
* `A > v` with no row above v becomes `A >= ''`. `Careful` wants a row for each predicate, but a disjunct without rows can get
  there nevertheless: `A >= v` and `A <> v` are merged into `A > v`. Likewise `A < v` with no row below v becomes `A <= ''`, and a
  reference that no row is left for `= ''`, which rows with an empty value satisfy.
* A contradiction in the only disjunct removes the condition, and all rows are accepted.
* A literal on the left of `=`, `<>` or, unqualified, of `>` loses its operator
  (`MineruleParser.ypp:523`, `:559`).

Items (`FitsInt`, `OrderedAlike` and `Writable` leave these out):

* `getInt` cuts a bigint to 32 bits (`ResultSet.cpp:32`), though `SourceRowAttribute.hpp:30` speaks of
  BIGINT; a NULL number throws; the difference of two numbers is cast to int (`SourceRowAttribute.cpp:179`), so that
  numbers far apart have no order, and a map may hold an item twice.
* Types other than integer and bigint are read as text: the program orders them by their characters,
  the database by value. Texts are in the database's collation there and by bytes here; NULLs come
  last there and, as empty texts, first here.
* `setParam` keeps 255 bytes. The cached writer puts `(not set)` for an empty text and does not escape
  tabs and backslashes.

## 6. Not modelled, and why

* Installation: `install()` and `uninstall()` are lists of CREATE and DROP statements run by hand before
  anything else. `Catalogue` starts from a complete installation. An `install()` killed halfway leaves some of the tables;
  it can be run again.
* Options, logging, progress, printing and the rest of the grammar: string handling without state the other parts
  read; option values are constants and fields of jobs.
* SQL texts: a query is what it selects. The database is used through single statements and taken to
  execute each atomically.
* `FSMiner`, `FSTree`, `CCSMiner`, the parts of `Bodymap.cpp` and `Bitstring.cpp` that no miner calls, and the
  serialization of items: nothing instantiates or calls them.
* In `STSMiner`, conditions that depend on the context and distance functions: the first ones have
  an inverted bound in the loop that checks them, the second ones call SQL functions of the user.
* Float, date and char(n) columns: the first two behave as `int2` does in `TypedItems` (read as text,
  ordered by value), the padding of the last one is the database's.
* Tests and vendored files (`catch.hpp`, a fifth of all lines): no part of the system.

## 7. Plan

All components that were to be modelled are, except installation, and every invariant and action property that a passing
run checks is a theorem. What is left to TLC is liveness.
