--------------------------- MODULE CatalogueProofs ---------------------------
(***************************************************************************)
(* What holds of the catalogue and of the tables of the results: types and *)
(* lists for any programs, and for careful users and for programs on names *)
(* of their own what Catalogue says of the answers, with the abstract      *)
(* store.                                                                  *)
(***************************************************************************)
EXTENDS CatalogueInv, TLAPS

-----------------------------------------------------------------------------
(* Type correctness.                                                       *)

LEMMA BlankType == Blank \in Session /\ AnyName \in Names /\ AnyText \in Texts
<1>1. AnyName \in Names /\ AnyText \in Texts
  BY TextsAssumption DEF AnyName, AnyText
<1>2. QED  BY <1>1 DEF Blank, Session, Row, Relationships, Kinds, Lists

LEMMA GotoType ==
  ASSUME TypeOK, NEW p \in Procs, NEW l \in Labels, NEW s \in Session, Goto(p, l, s)
  PROVE  pc' \in [Procs -> Labels] /\ sess' \in [Procs -> Session]
BY DEF TypeOK, Goto

(* A step of a session that changes no table.                              *)
LEMMA ReadType ==
  ASSUME TypeOK, NEW p \in Procs, NEW l \in Labels, NEW s \in Session, Goto(p, l, s),
         UNCHANGED database
  PROVE  TypeOK'
BY GotoType DEF TypeOK, database

LEMMA EndType ==
  ASSUME TypeOK, NEW p \in Procs, End(p)
  PROVE  pc' \in [Procs -> Labels] /\ sess' \in [Procs -> Session]
BY GotoType, BlankType DEF End, Labels

LEMMA StartType ==
  ASSUME TypeOK, NEW p \in Procs, Start(p)
  PROVE  TypeOK'
<1>1. CASE StartQuery(p)
  <2>1. PICK n \in Allowed[p], t \in Texts :
          Goto(p, "exists", [Blank EXCEPT !.op = "query", !.name = n, !.text = t, !.res = n])
    BY <1>1 DEF StartQuery
  <2>2. n \in Names
    BY OptionsAssumption
  <2>3. [Blank EXCEPT !.op = "query", !.name = n, !.text = t, !.res = n] \in Session
    BY <2>2, BlankType DEF Session
  <2>4. QED  BY <1>1, <2>1, <2>3, ReadType DEF StartQuery, Labels
<1>2. CASE StartDelete(p)
  <2>1. PICK n \in Allowed[p] : Goto(p, "lookup", [Blank EXCEPT !.op = "delete", !.name = n])
    BY <1>2 DEF StartDelete
  <2>2. n \in Names
    BY OptionsAssumption
  <2>3. [Blank EXCEPT !.op = "delete", !.name = n] \in Session
    BY <2>2, BlankType DEF Session
  <2>4. QED  BY <1>2, <2>1, <2>3, ReadType DEF StartDelete, Labels
<1>3. CASE StartDerive(p)
  <2>1. PICK r \in mr_query, d \in Allowed[p] :
          /\ tables' = [tables EXCEPT ![d] = [k \in Kinds |-> r.text]]
          /\ Goto(p, "original", [Blank EXCEPT !.op = "derive", !.name = d,
                                               !.res = d, !.orig = r.name])
    BY <1>3 DEF StartDerive
  <2>2. d \in Names /\ r.name \in Names /\ r.text \in Texts
    BY OptionsAssumption DEF TypeOK, Row
  <2>3. [Blank EXCEPT !.op = "derive", !.name = d, !.res = d, !.orig = r.name] \in Session
    BY <2>2, BlankType DEF Session
  <2>4. pc' \in [Procs -> Labels] /\ sess' \in [Procs -> Session]
    BY <2>1, <2>3, GotoType DEF Labels
  <2>5. tables' \in [Names -> [Kinds -> Contents]]
    BY <2>1, <2>2 DEF TypeOK, Contents
  <2>6. QED  BY <1>3, <2>4, <2>5 DEF StartDerive, TypeOK
<1>4. QED  BY <1>1, <1>2, <1>3 DEF Start

(* The session records that the branches of CheckHomonym and DropTable     *)
(* pass on.                                                                *)
LEMMA ToOptimizeType ==
  ASSUME TypeOK, NEW p \in Procs, NEW s \in Session,
         ToOptimize(p, s) \/ ToCreate(p, s) \/ ToRegister(p, s)
  PROVE  pc' \in [Procs -> Labels] /\ sess' \in [Procs -> Session]
<1>1. [s EXCEPT !.kind = "rules"] \in Session /\ [s EXCEPT !.list = "ga"] \in Session
  BY DEF Session, Kinds, Lists
<1>2. CASE ToCreate(p, s)
  <2>1. CASE End(p)
    BY <2>1, BlankType, GotoType DEF End, Labels
  <2>2. QED  BY <1>1, <1>2, <2>1, GotoType DEF ToCreate, Labels
<1>3. CASE ToOptimize(p, s)
  BY <1>2, <1>3, GotoType DEF ToOptimize, Labels
<1>4. CASE ToRegister(p, s)
  BY <1>1, <1>4, GotoType DEF ToRegister, Labels
<1>5. QED  BY <1>2, <1>3, <1>4

(* The steps that delete a minerule.                                       *)
LEMMA DeleteType ==
  ASSUME TypeOK, NEW p \in Procs,
         CheckHomonym(p) \/ LookupDeleted(p) \/ SelectVictims(p) \/ DeleteRow(p) \/ DropTable(p)
  PROVE  TypeOK'
<1> DEFINE s == sess[p]
<1>1. s \in Session
  BY DEF TypeOK
<1>2. CASE CheckHomonym(p)
  <2>1. pc' \in [Procs -> Labels] /\ sess' \in [Procs -> Session]
    BY <1>1, <1>2, ToOptimizeType, GotoType, EndType DEF CheckHomonym, Labels
  <2>2. QED  BY <1>2, <2>1 DEF CheckHomonym, TypeOK, database
<1>3. CASE LookupDeleted(p)
  <2>1. pc' \in [Procs -> Labels] /\ sess' \in [Procs -> Session]
    BY <1>1, <1>3, GotoType, EndType DEF LookupDeleted, Labels
  <2>2. QED  BY <1>3, <2>1 DEF LookupDeleted, TypeOK, database
<1>4. CASE SelectVictims(p)
  <2>1. Dependent(s.name) \subseteq Row
    BY DEF Dependent, TypeOK
  <2>2. [s EXCEPT !.rs = Dependent(s.name)] \in Session
    BY <1>1, <2>1 DEF Session
  <2>3. pc' \in [Procs -> Labels] /\ sess' \in [Procs -> Session]
    BY <1>4, <2>2, GotoType, EndType DEF SelectVictims, Labels
  <2>4. QED  BY <1>4, <2>3 DEF SelectVictims, TypeOK, database
<1>5. CASE DeleteRow(p)
  <2>1. PICK v \in s.rs :
          /\ mr_query' = {r \in mr_query : r.id # v.id}
          /\ \/ Goto(p, "delete", [s EXCEPT !.rs = @ \ {v}])
             \/ Goto(p, "drop", [s EXCEPT !.rs = {}, !.kind = "rules"])
    BY <1>5 DEF DeleteRow
  <2>2. [s EXCEPT !.rs = @ \ {v}] \in Session
    BY <1>1 DEF Session
  <2>3. [s EXCEPT !.rs = {}, !.kind = "rules"] \in Session
    BY <1>1 DEF Session, Kinds
  <2>4. pc' \in [Procs -> Labels] /\ sess' \in [Procs -> Session]
    BY <2>1, <2>2, <2>3, GotoType DEF Labels
  <2>5. QED  BY <1>5, <2>1, <2>4 DEF DeleteRow, TypeOK
<1>6. CASE DropTable(p)
  <2>1. /\ [s EXCEPT !.kind = "rules"] \in Session
        /\ [s EXCEPT !.kind = "heads"] \in Session
        /\ [s EXCEPT !.kind = "bodies"] \in Session
    BY <1>1 DEF Session, Kinds
  <2>2. pc[p] \in Labels
    BY DEF TypeOK
  <2>3. pc' \in [Procs -> Labels] /\ sess' \in [Procs -> Session]
    BY <1>1, <1>6, <2>1, <2>2, GotoType, EndType, ToOptimizeType DEF DropTable, Labels
  <2>4. tables' \in [Names -> [Kinds -> Contents]]
    BY <1>1, <1>6 DEF DropTable, TypeOK, Contents, Session
  <2>5. QED  BY <1>6, <2>3, <2>4 DEF DropTable, TypeOK
<1>7. QED  BY <1>2, <1>3, <1>4, <1>5, <1>6

(* The steps that look for past results.                                   *)
LEMMA SearchType ==
  ASSUME TypeOK, NEW p \in Procs,
         \/ ReadCatalogue(p) \/ CountPast(p) \/ Optimize(p) \/ OptimizeThrows(p)
         \/ ReadBase(p) \/ CountBase(p) \/ OpenCursor(p) \/ LoadElems(p)
  PROVE  TypeOK'
<1> DEFINE s == sess[p]
<1>1. s \in Session /\ s.rs \subseteq Row /\ s.past \subseteq Row /\ s.base \subseteq Row
  BY DEF TypeOK, Session
<1>2. ASSUME End(p), UNCHANGED database  PROVE TypeOK'
  BY <1>2, EndType DEF TypeOK, database
<1>3. CASE ReadCatalogue(p)
  <2>1. [s EXCEPT !.rs = mr_query, !.past = mr_query] \in Session
    BY <1>1 DEF Session, TypeOK
  <2>2. QED  BY <1>3, <2>1, ReadType DEF ReadCatalogue, Labels
<1>4. CASE CountPast(p)
  <2>1. \A r : [s EXCEPT !.rs = @ \ {r}] \in Session
    BY <1>1 DEF Session
  <2>2. QED  BY <1>2, <1>4, <2>1, ReadType DEF CountPast, NextRow, Labels
<1>5. CASE Optimize(p)
  <2>1. \A r \in s.past :
          /\ [s EXCEPT !.rel = "Equivalence", !.base = {r}, !.past = {}] \in Session
          /\ [s EXCEPT !.rel = "Dominance", !.base = {r}, !.past = {}] \in Session
    BY <1>1 DEF Session, Relationships
  <2>2. \A B \in SUBSET s.past :
          [s EXCEPT !.rel = "Combination", !.base = B, !.past = {}] \in Session
    BY <1>1 DEF Session, Relationships
  <2>3. [s EXCEPT !.past = {}] \in Session
    BY <1>1 DEF Session
  <2>4. ASSUME ToCreate(p, [s EXCEPT !.past = {}])
        PROVE  pc' \in [Procs -> Labels] /\ sess' \in [Procs -> Session]
    BY <2>3, <2>4, ToOptimizeType
  <2>5. ASSUME NEW r \in s.past,
               \/ Goto(p, "base", [s EXCEPT !.rel = "Equivalence", !.base = {r}, !.past = {}])
               \/ Goto(p, "base", [s EXCEPT !.rel = "Dominance", !.base = {r}, !.past = {}])
        PROVE  pc' \in [Procs -> Labels] /\ sess' \in [Procs -> Session]
    BY <2>1, <2>5, GotoType DEF Labels
  <2>6. ASSUME NEW B \in SUBSET s.past,
               Goto(p, "base", [s EXCEPT !.rel = "Combination", !.base = B, !.past = {}])
        PROVE  pc' \in [Procs -> Labels] /\ sess' \in [Procs -> Session]
    BY <2>2, <2>6, GotoType DEF Labels
  <2>7. pc' \in [Procs -> Labels] /\ sess' \in [Procs -> Session]
    BY <1>5, <2>4, <2>5, <2>6, EndType
    DEF Optimize, EquivalentPast, DominantPast, CombinedPast
  <2>8. QED  BY <1>5, <2>7 DEF Optimize, TypeOK, database
<1>6. CASE OptimizeThrows(p)
  BY <1>2, <1>6 DEF OptimizeThrows
<1>7. CASE ReadBase(p)
  <2>1. ASSUME NEW b \in s.base, NEW r \in Named(b.name)
        PROVE  [s EXCEPT !.src = r.res, !.base = {b}, !.rs = s.base \ {b}] \in Session
    BY <1>1 DEF Session, Named, TypeOK, Row
  <2>2. QED  BY <1>2, <1>7, <2>1, ReadType DEF ReadBase, Labels
<1>8. CASE CountBase(p)
  <2>1. [s EXCEPT !.res = s.src, !.base = {}] \in Session
    BY <1>1 DEF Session
  <2>2. pc' \in [Procs -> Labels] /\ sess' \in [Procs -> Session]
    BY <1>1, <1>8, <2>1, ToOptimizeType, EndType, GotoType DEF CountBase, Labels
  <2>3. QED  BY <1>8, <2>2 DEF CountBase, TypeOK, database
<1>9. CASE OpenCursor(p)
  <2> DEFINE t == [s EXCEPT !.sound = @ /\ Faithful(s, {"rules"})]
  <2>1. t \in Session
    BY <1>1 DEF Session
  <2>2. pc' \in [Procs -> Labels] /\ sess' \in [Procs -> Session]
    BY <1>9, <2>1, ToOptimizeType, EndType, GotoType DEF OpenCursor, Labels
  <2>3. QED  BY <1>9, <2>2 DEF OpenCursor, TypeOK, database
<1>10. CASE LoadElems(p)
  <2> DEFINE t == [s EXCEPT !.sound = @ /\ Faithful(s, {"bodies", "heads"})]
  <2>1. t \in Session
    BY <1>1 DEF Session
  <2>2. [t EXCEPT !.base = s.rs, !.rs = {}] \in Session /\ [t EXCEPT !.base = {}] \in Session
    BY <1>1, <2>1 DEF Session
  <2>3. pc' \in [Procs -> Labels] /\ sess' \in [Procs -> Session]
    BY <1>10, <2>2, ToOptimizeType, EndType, GotoType DEF LoadElems, Labels
  <2>4. QED  BY <1>10, <2>3 DEF LoadElems, TypeOK, database
<1>11. QED  BY <1>3, <1>4, <1>5, <1>6, <1>7, <1>8, <1>9, <1>10

(* The steps that create and fill result tables.                           *)
LEMMA WriteType ==
  ASSUME TypeOK, NEW p \in Procs,
         \/ ProbeTable(p) \/ CreateTable(p) \/ FirstInserts(p) \/ LastInserts(p)
         \/ CopyTable(p)
  PROVE  TypeOK'
<1> DEFINE s == sess[p]
<1>1. s \in Session /\ s.name \in Names /\ s.kind \in Kinds /\ s.text \in Texts
  BY DEF TypeOK, Session
<1>2. /\ \A k \in Kinds : [s EXCEPT !.kind = k] \in Session
      /\ [s EXCEPT !.kind = "rules", !.list = "ga"] \in Session
  BY <1>1 DEF Session, Kinds, Lists
<1>3. ASSUME NextTable(p)
      PROVE  pc' \in [Procs -> Labels] /\ sess' \in [Procs -> Session]
  <2>1. AfterCreate(s) \in Labels
    BY DEF AfterCreate, Labels
  <2>2. QED  BY <1>2, <1>3, <2>1, GotoType DEF NextTable, Labels, Kinds
<1>4. \A c \in Contents, t \in Texts :
        Begun(c, p) \in Contents /\ Ended(c, p, t) \in Contents /\ Ended(c, p, Junk) \in Contents
  BY DEF Begun, Ended, Contents
<1>5. CASE ProbeTable(p)
  <2>1. pc' \in [Procs -> Labels] /\ sess' \in [Procs -> Session]
    BY <1>1, <1>3, <1>5, GotoType DEF ProbeTable, Labels
  <2>2. QED  BY <1>5, <2>1 DEF ProbeTable, TypeOK, database
<1>6. CASE CreateTable(p)
  <2>1. pc' \in [Procs -> Labels] /\ sess' \in [Procs -> Session]
    BY <1>3, <1>6, EndType DEF CreateTable
  <2>2. tables' \in [Names -> [Kinds -> Contents]]
    BY <1>1, <1>6 DEF CreateTable, TypeOK, Contents
  <2>3. QED  BY <1>6, <2>1, <2>2 DEF CreateTable, TypeOK
<1>7. CASE FirstInserts(p)
  <2>1. pc' \in [Procs -> Labels] /\ sess' \in [Procs -> Session]
    BY <1>1, <1>7, EndType, GotoType DEF FirstInserts, Labels
  <2>2. tables' \in [Names -> [Kinds -> Contents]]
    BY <1>1, <1>4, <1>7 DEF FirstInserts, TypeOK, Kinds
  <2>3. QED  BY <1>7, <2>1, <2>2 DEF FirstInserts, TypeOK
<1>8. CASE LastInserts(p)
  <2> DEFINE answer == IF s.sound /\ (IF ReadsLazily(s) THEN Faithful(s, {"bodies", "heads"}) ELSE TRUE)
                         THEN s.text ELSE Junk
             filled == [k \in Kinds |-> Ended(tables[s.name][k], p, answer)]
  <2>1. pc' \in [Procs -> Labels] /\ sess' \in [Procs -> Session]
    BY <1>1, <1>8, EndType, ToOptimizeType DEF LastInserts
  <2>2. answer = s.text \/ answer = Junk
    OBVIOUS
  <2>3. UNCHANGED tables \/ tables' = [tables EXCEPT ![s.name] = filled]
    BY <1>8 DEF LastInserts
  <2> HIDE DEF answer
  <2>4. filled \in [Kinds -> Contents]
    BY <1>1, <1>4, <2>2 DEF TypeOK
  <2> HIDE DEF filled
  <2>5. tables' \in [Names -> [Kinds -> Contents]]
    BY <1>1, <2>3, <2>4 DEF TypeOK
  <2>6. QED  BY <1>8, <2>1, <2>5 DEF LastInserts, TypeOK
<1>9. CASE CopyTable(p)
  <2>1. pc' \in [Procs -> Labels] /\ sess' \in [Procs -> Session]
    BY <1>1, <1>2, <1>9, EndType, GotoType, ToOptimizeType DEF CopyTable, Labels, Kinds
  <2>2. \A c \in Contents : Ended(Begun(c, p), p, s.text) \in Contents
    BY <1>1, <1>4
  <2>3. tables[s.name][s.kind] \in Contents
    BY <1>1 DEF TypeOK
  <2>4. \/ UNCHANGED tables
        \/ tables' = [tables EXCEPT ![s.name][s.kind] =
                        Ended(Begun(tables[s.name][s.kind], p), p, s.text)]
    BY <1>9 DEF CopyTable
  <2>5. tables' \in [Names -> [Kinds -> Contents]]
    BY <1>1, <2>2, <2>3, <2>4 DEF TypeOK
  <2>6. QED  BY <1>9, <2>1, <2>5 DEF CopyTable, TypeOK
<1>10. QED  BY <1>5, <1>6, <1>7, <1>8, <1>9

(* The steps that register a result.                                       *)
LEMMA RegisterType ==
  ASSUME TypeOK, NEW p \in Procs,
         \/ SelectId(p) \/ UpdateId(p) \/ InsertList(p) \/ InsertQuery(p)
         \/ LookupOriginal(p) \/ LookupDerived(p)
  PROVE  TypeOK'
<1> DEFINE s == sess[p]
<1>1. /\ s \in Session /\ s.name \in Names /\ s.res \in Names /\ s.text \in Texts
      /\ s.id \in Nat /\ s.lists \in [Lists -> Nat] /\ s.list \in Lists \cup {"none"}
  BY DEF TypeOK, Session
<1>2. CounterOf(s) \in Counters
  BY DEF CounterOf, Counters
<1>3. CASE SelectId(p)
  <2>1. NewValue(CounterOf(s)) \in Nat
    BY <1>2 DEF NewValue, TypeOK
  <2>2. [s EXCEPT !.id = NewValue(CounterOf(s))] \in Session
    BY <1>1, <2>1 DEF Session
  <2>3. QED  BY <1>3, <2>2, ReadType DEF SelectId, Labels
<1>4. CASE UpdateId(p)
  <2>1. pc' \in [Procs -> Labels] /\ sess' \in [Procs -> Session]
    BY <1>1, <1>4, GotoType DEF UpdateId, Labels
  <2>2. QED  BY <1>1, <1>2, <1>4, <2>1 DEF UpdateId, TypeOK
<1>5. CASE InsertList(p)
  <2>1. s.list \in Lists
    BY <1>1, <1>5 DEF InsertList
  <2>2. NextList(s) \in Lists \cup {"none"}
    BY DEF NextList, Lists
  <2>3. [s EXCEPT !.lists[s.list] = s.id, !.list = NextList(s)] \in Session
    BY <1>1, <2>1, <2>2 DEF Session
  <2>4. pc' \in [Procs -> Labels] /\ sess' \in [Procs -> Session]
    BY <1>5, <2>3, GotoType DEF InsertList, Labels
  <2>5. QED  BY <1>1, <1>5, <2>1, <2>4 DEF InsertList, TypeOK
<1>6. CASE InsertQuery(p)
  <2>1. [id |-> s.id, name |-> s.name, text |-> s.text, res |-> s.res, lists |-> s.lists] \in Row
    BY <1>1 DEF Row
  <2>2. mr_query' \subseteq Row
    BY <1>6, <2>1 DEF InsertQuery, TypeOK
  <2>3. pc' \in [Procs -> Labels] /\ sess' \in [Procs -> Session]
    BY <1>6, EndType DEF InsertQuery
  <2>4. QED  BY <1>6, <2>2, <2>3 DEF InsertQuery, TypeOK
<1>7. CASE LookupOriginal(p)
  <2>1. ASSUME NEW r \in Named(s.orig)
        PROVE  [s EXCEPT !.text = r.text] \in Session
    BY <1>1 DEF Session, Named, TypeOK, Row
  <2>2. pc' \in [Procs -> Labels] /\ sess' \in [Procs -> Session]
    BY <1>7, <2>1, EndType, GotoType DEF LookupOriginal, Labels
  <2>3. QED  BY <1>7, <2>2 DEF LookupOriginal, TypeOK, database
<1>8. CASE LookupDerived(p)
  <2>1. pc' \in [Procs -> Labels] /\ sess' \in [Procs -> Session]
    BY <1>1, <1>8, EndType, ToOptimizeType DEF LookupDerived
  <2>2. QED  BY <1>8, <2>1 DEF LookupDerived, TypeOK, database
<1>9. QED  BY <1>3, <1>4, <1>5, <1>6, <1>7, <1>8

LEMMA TypeInit == Init => TypeOK
BY BlankType DEF Init, TypeOK, Contents, Counters, Labels

LEMMA TypeStep == TypeOK /\ [Next]_vars => TypeOK'
<1>1. ASSUME TypeOK, NEW p \in Procs, Start(p) \/ Step(p) \/ Crash(p)
      PROVE  TypeOK'
  <2>1. CASE Crash(p)
    BY <1>1, <2>1, EndType DEF Crash, TypeOK, database
  <2>2. CASE Step(p)
    BY <1>1, <2>2, DeleteType, SearchType, WriteType, RegisterType DEF Step
  <2>3. QED  BY <1>1, <2>1, <2>2, StartType
<1>2. ASSUME TypeOK, UNCHANGED vars  PROVE TypeOK'
  BY <1>2 DEF TypeOK, vars
<1>3. QED  BY <1>1, <1>2 DEF Next

(* Every table, row and session keeps its type, whatever the programs do   *)
(* at the same time and wherever they are killed.                          *)
THEOREM TypeCorrect == Spec => []TypeOK
BY TypeInit, TypeStep, PTL DEF Spec

-----------------------------------------------------------------------------
(* The ids of the attribute lists: every list of a row is stored, however  *)
(* the programs interleave, and no two rows share one when the programs    *)
(* run one at a time, however they are killed.                             *)

(* Session p ends, or goes on with the lists it has, or with none.         *)
Carries(p, s) == s.lists = Blank.lists \/ s.lists = sess[p].lists

GoesOn(p) ==
  \/ End(p)
  \/ \E l, s : Goto(p, l, s) /\ l \notin {"idle", "update", "store"} /\ Carries(p, s)

(* A step that stores no list and no row and takes no id.                  *)
Unregistered(p) ==
  /\ mr_att_lists' = mr_att_lists /\ mr_autoincrement' = mr_autoincrement
  /\ mr_query' \subseteq mr_query
  /\ GoesOn(p)

LEMMA Goes ==
  ASSUME NEW p, NEW l, NEW s, Goto(p, l, s), l \notin {"idle", "update", "store"},
         Carries(p, s)
  PROVE  GoesOn(p)
BY Zenon DEF GoesOn

LEMMA EndGoesOn ==
  ASSUME NEW p, End(p)  PROVE GoesOn(p)
BY DEF GoesOn

LEMMA ToGoesOn ==
  ASSUME TypeOK, NEW p \in Procs, NEW s \in Session, Carries(p, s),
         ToOptimize(p, s) \/ ToCreate(p, s) \/ ToRegister(p, s)
  PROVE  GoesOn(p)
<1>1. /\ Carries(p, [s EXCEPT !.kind = "rules"])
      /\ Carries(p, [s EXCEPT !.list = "ga"])
  BY DEF Session, Carries
<1>2. CASE ToCreate(p, s)
  BY <1>1, <1>2, EndGoesOn, Goes DEF ToCreate
<1>3. CASE ToOptimize(p, s)
  BY <1>2, <1>3, Goes DEF ToOptimize
<1>4. CASE ToRegister(p, s)
  BY <1>1, <1>4, Goes DEF ToRegister
<1>5. QED  BY <1>2, <1>3, <1>4

LEMMA StartUnregistered ==
  ASSUME TypeOK, NEW p \in Procs, Start(p)  PROVE Unregistered(p)
<1>1. CASE StartQuery(p)
  <2>1. PICK n \in Allowed[p], t \in Texts :
          Goto(p, "exists", [Blank EXCEPT !.op = "query", !.name = n, !.text = t, !.res = n])
    BY <1>1 DEF StartQuery
  <2>2. Carries(p, [Blank EXCEPT !.op = "query", !.name = n, !.text = t, !.res = n])
    BY BlankType DEF Session, Carries
  <2>3. GoesOn(p)
    BY <2>1, <2>2, Goes
  <2>4. QED  BY <1>1, <2>3 DEF StartQuery, Unregistered, database
<1>2. CASE StartDelete(p)
  <2>1. PICK n \in Allowed[p] : Goto(p, "lookup", [Blank EXCEPT !.op = "delete", !.name = n])
    BY <1>2 DEF StartDelete
  <2>2. Carries(p, [Blank EXCEPT !.op = "delete", !.name = n])
    BY BlankType DEF Session, Carries
  <2>3. GoesOn(p)
    BY <2>1, <2>2, Goes
  <2>4. QED  BY <1>2, <2>3 DEF StartDelete, Unregistered, database
<1>3. CASE StartDerive(p)
  <2>1. PICK r \in mr_query, d \in Allowed[p] :
          Goto(p, "original", [Blank EXCEPT !.op = "derive", !.name = d,
                                            !.res = d, !.orig = r.name])
    BY <1>3 DEF StartDerive
  <2>2. Carries(p, [Blank EXCEPT !.op = "derive", !.name = d, !.res = d, !.orig = r.name])
    BY BlankType DEF Session, Carries
  <2>3. GoesOn(p)
    BY <2>1, <2>2, Goes
  <2>4. QED  BY <1>3, <2>3 DEF StartDerive, Unregistered
<1>4. QED  BY <1>1, <1>2, <1>3 DEF Start

LEMMA DeleteUnregistered ==
  ASSUME TypeOK, NEW p \in Procs,
         CheckHomonym(p) \/ LookupDeleted(p) \/ SelectVictims(p) \/ DeleteRow(p) \/ DropTable(p)
  PROVE  Unregistered(p)
<1> DEFINE s == sess[p]
<1>1. s \in Session /\ Carries(p, s)
  BY DEF TypeOK, Carries
<1>2. CASE CheckHomonym(p)
  BY <1>1, <1>2, ToGoesOn, EndGoesOn, Goes DEF CheckHomonym, Unregistered, database
<1>3. CASE LookupDeleted(p)
  BY <1>1, <1>3, EndGoesOn, Goes DEF LookupDeleted, Unregistered, database
<1>4. CASE SelectVictims(p)
  <2>1. \A V : Carries(p, [s EXCEPT !.rs = V])
    BY <1>1 DEF Session, Carries
  <2>2. QED  BY <1>4, <2>1, EndGoesOn, Goes DEF SelectVictims, Unregistered, database
<1>5. CASE DeleteRow(p)
  <2>1. PICK v \in s.rs :
          \/ Goto(p, "delete", [s EXCEPT !.rs = @ \ {v}])
          \/ Goto(p, "drop", [s EXCEPT !.rs = {}, !.kind = "rules"])
    BY <1>5 DEF DeleteRow
  <2>2. /\ Carries(p, [s EXCEPT !.rs = @ \ {v}])
        /\ Carries(p, [s EXCEPT !.rs = {}, !.kind = "rules"])
    BY <1>1 DEF Session, Carries
  <2>3. GoesOn(p)
    BY <2>1, <2>2 DEF GoesOn
  <2>4. QED  BY <1>5, <2>3 DEF DeleteRow, Unregistered
<1>6. CASE DropTable(p)
  <2>1. \A k : Carries(p, [s EXCEPT !.kind = k])
    BY <1>1 DEF Session, Carries
  <2>2. GoesOn(p)
    BY <1>1, <1>6, <2>1, ToGoesOn, EndGoesOn, Goes DEF DropTable
  <2>3. QED  BY <1>6, <2>2 DEF DropTable, Unregistered
<1>7. QED  BY <1>2, <1>3, <1>4, <1>5, <1>6

LEMMA SearchUnregistered ==
  ASSUME TypeOK, NEW p \in Procs,
         \/ ReadCatalogue(p) \/ CountPast(p) \/ Optimize(p) \/ OptimizeThrows(p)
         \/ ReadBase(p) \/ CountBase(p) \/ OpenCursor(p) \/ LoadElems(p)
  PROVE  Unregistered(p)
<1> DEFINE s == sess[p]
<1>1. s \in Session /\ Carries(p, s)
  BY DEF TypeOK, Carries
<1>2. UNCHANGED database
  BY DEF ReadCatalogue, CountPast, Optimize, OptimizeThrows, ReadBase, CountBase, OpenCursor,
         LoadElems
<1>3. CASE ReadCatalogue(p)
  <2>1. Carries(p, [s EXCEPT !.rs = mr_query, !.past = mr_query])
    BY <1>1 DEF Session, Carries
  <2>2. GoesOn(p)
    BY <1>3, <2>1, Goes DEF ReadCatalogue
  <2>3. QED  BY <1>2, <2>2 DEF Unregistered, database
<1>4. CASE CountPast(p)
  <2>1. \A r : Carries(p, NextRow(s, r))
    BY <1>1 DEF Session, NextRow, Carries
  <2>2. QED  BY <1>2, <1>4, <2>1, EndGoesOn, Goes DEF CountPast, Unregistered, database
<1>5. CASE Optimize(p)
  <2>1. \A rel, B : Carries(p, [s EXCEPT !.rel = rel, !.base = B, !.past = {}])
    BY <1>1 DEF Session, Carries
  <2>2. [s EXCEPT !.past = {}] \in Session /\ Carries(p, [s EXCEPT !.past = {}])
    BY <1>1 DEF Session, Carries
  <2>3. ToCreate(p, [s EXCEPT !.past = {}]) => GoesOn(p)
    BY <2>2, ToGoesOn
  <2>4. GoesOn(p)
    BY <1>5, <2>1, <2>3, EndGoesOn, Goes DEF Optimize
  <2>5. QED  BY <1>2, <2>4 DEF Unregistered, database
<1>6. CASE OptimizeThrows(p)
  BY <1>2, <1>6, EndGoesOn, Goes DEF OptimizeThrows, Unregistered, database
<1>7. CASE ReadBase(p)
  <2>1. ASSUME NEW b \in s.base, NEW r \in Named(b.name)
        PROVE  Carries(p, [s EXCEPT !.src = r.res, !.base = {b}, !.rs = s.base \ {b}])
    BY <1>1 DEF Session, Carries
  <2>2. (IF ReadsLazily(s) THEN "cursor" ELSE "count") \notin {"idle", "update", "store"}
    OBVIOUS
  <2>3. ASSUME NEW b \in s.base, NEW r \in Named(b.name),
               Goto(p, IF ReadsLazily(s) THEN "cursor" ELSE "count",
                    [s EXCEPT !.src = r.res, !.base = {b}, !.rs = s.base \ {b}])
        PROVE  GoesOn(p)
    BY <2>1, <2>2, <2>3, Goes
  <2>4. End(p) => GoesOn(p)
    BY EndGoesOn
  <2>5. GoesOn(p)
    BY <1>7, <2>3, <2>4 DEF ReadBase
  <2>6. QED  BY <1>2, <2>5 DEF Unregistered, database
<1>8. CASE CountBase(p)
  <2>1. [s EXCEPT !.res = s.src, !.base = {}] \in Session
        /\ Carries(p, [s EXCEPT !.res = s.src, !.base = {}])
    BY <1>1 DEF Session, Carries
  <2>2. GoesOn(p)
    BY <1>1, <1>8, <2>1, ToGoesOn, EndGoesOn, Goes DEF CountBase
  <2>3. QED  BY <1>2, <2>2 DEF Unregistered, database
<1>9. CASE OpenCursor(p)
  <2> DEFINE t == [s EXCEPT !.sound = @ /\ Faithful(s, {"rules"})]
  <2>1. t \in Session /\ Carries(p, t)
    BY <1>1 DEF Session, Carries
  <2>2. GoesOn(p)
    BY <1>9, <2>1, ToGoesOn, EndGoesOn, Goes DEF OpenCursor
  <2>3. QED  BY <1>2, <2>2 DEF Unregistered, database
<1>10. CASE LoadElems(p)
  <2> DEFINE t == [s EXCEPT !.sound = @ /\ Faithful(s, {"bodies", "heads"})]
  <2>1. t \in Session /\ Carries(p, t)
    BY <1>1 DEF Session, Carries
  <2>2. /\ Carries(p, [t EXCEPT !.base = s.rs, !.rs = {}])
        /\ [t EXCEPT !.base = {}] \in Session /\ Carries(p, [t EXCEPT !.base = {}])
    BY <1>1, <2>1 DEF Session, Carries
  <2>3. GoesOn(p)
    BY <1>10, <2>2, ToGoesOn, EndGoesOn, Goes DEF LoadElems
  <2>4. QED  BY <1>2, <2>3 DEF Unregistered, database
<1>11. QED  BY <1>3, <1>4, <1>5, <1>6, <1>7, <1>8, <1>9, <1>10

LEMMA WriteUnregistered ==
  ASSUME TypeOK, NEW p \in Procs,
         \/ ProbeTable(p) \/ CreateTable(p) \/ FirstInserts(p) \/ LastInserts(p)
         \/ CopyTable(p) \/ LookupOriginal(p) \/ LookupDerived(p) \/ Crash(p)
  PROVE  Unregistered(p)
<1> DEFINE s == sess[p]
<1>1. s \in Session /\ Carries(p, s)
  BY DEF TypeOK, Carries
<1>2. UNCHANGED <<mr_query, mr_att_lists, mr_autoincrement>>
  BY DEF ProbeTable, CreateTable, FirstInserts, LastInserts, CopyTable, LookupOriginal,
         LookupDerived, Crash, database
<1>3. /\ \A k : Carries(p, [s EXCEPT !.kind = k])
      /\ Carries(p, [s EXCEPT !.kind = "rules", !.list = "ga"])
      /\ \A t : Carries(p, [s EXCEPT !.text = t])
  BY <1>1 DEF Session, Carries
<1>4. AfterCreate(s) \notin {"idle", "update", "store"}
  BY DEF AfterCreate
<1>5. NextTable(p) => GoesOn(p)
  BY <1>3, <1>4, Goes DEF NextTable
<1>6. CASE ProbeTable(p) \/ CreateTable(p) \/ FirstInserts(p)
  <2>1. GoesOn(p)
    BY <1>1, <1>5, <1>6, EndGoesOn, Goes DEF ProbeTable, CreateTable, FirstInserts
  <2>2. QED  BY <1>2, <2>1 DEF Unregistered
<1>7. CASE LastInserts(p) \/ CopyTable(p)
  <2>1. GoesOn(p)
    BY <1>1, <1>3, <1>7, EndGoesOn, ToGoesOn, Goes DEF LastInserts, CopyTable
  <2>2. QED  BY <1>2, <2>1 DEF Unregistered
<1>8. CASE LookupOriginal(p) \/ LookupDerived(p) \/ Crash(p)
  <2>1. ASSUME NEW r \in Named(s.orig), Goto(p, "derived", [s EXCEPT !.text = r.text])
        PROVE  GoesOn(p)
    BY <1>3, <2>1, Goes
  <2>2. GoesOn(p)
    BY <1>1, <1>8, <2>1, EndGoesOn, ToGoesOn DEF LookupOriginal, LookupDerived, Crash
  <2>3. QED  BY <1>2, <2>2 DEF Unregistered
<1>9. QED  BY <1>6, <1>7, <1>8

(* Every step but the four that register a result is one of these.         *)
LEMMA Registers ==
  ASSUME TypeOK, NEW p \in Procs, Start(p) \/ Step(p) \/ Crash(p)
  PROVE  \/ Unregistered(p)
         \/ SelectId(p) \/ UpdateId(p) \/ InsertList(p) \/ InsertQuery(p)
BY StartUnregistered, DeleteUnregistered, SearchUnregistered, WriteUnregistered DEF Step

-----------------------------------------------------------------------------
(* Every list of a row is stored.                                          *)

LEMMA StoredStep == StoredInv /\ [Next]_vars => StoredInv'
<1> SUFFICES ASSUME StoredInv, [Next]_vars PROVE StoredInv'
  OBVIOUS
<1>1. TypeOK /\ TypeOK'
  BY TypeStep DEF StoredInv
<1>2. CASE UNCHANGED vars
  BY <1>1, <1>2 DEF vars, StoredInv, ListsStored, SessionListsStored
<1>3. ASSUME NEW p \in Procs, Unregistered(p) \/ SelectId(p) \/ UpdateId(p)  PROVE StoredInv'
  <2>1. \A l \in Lists : Blank.lists[l] = 0
    BY DEF Blank
  <2>2. sess' = [sess EXCEPT ![p] = sess'[p]] /\ Carries(p, sess'[p])
    BY <1>1, <1>3, BlankType
    DEF Unregistered, GoesOn, End, Goto, Carries, SelectId, UpdateId, TypeOK, Session
  <2>3. mr_query' \subseteq mr_query /\ mr_att_lists' = mr_att_lists
    BY <1>3 DEF Unregistered, SelectId, UpdateId, database
  <2>4. SessionListsStored'
    BY <1>1, <2>1, <2>2, <2>3 DEF StoredInv, SessionListsStored, Carries, TypeOK
  <2>5. QED  BY <1>1, <2>3, <2>4 DEF StoredInv, ListsStored
<1>4. ASSUME NEW p \in Procs, InsertList(p)  PROVE StoredInv'
  <2> DEFINE s == sess[p]
             t == [s EXCEPT !.lists[s.list] = s.id, !.list = NextList(s)]
  <2>1. s \in Session /\ s.list \in Lists
    BY <1>1, <1>4 DEF InsertList, TypeOK, Session
  <2>2. t.lists = [s.lists EXCEPT ![s.list] = s.id]
    BY <2>1 DEF Session
  <2>3. sess' = [sess EXCEPT ![p] = t]
    BY <1>4 DEF InsertList, Goto
  <2>4. mr_query' = mr_query /\ mr_att_lists' = mr_att_lists \cup {[id |-> s.id, list |-> s.list]}
    BY <1>4 DEF InsertList
  <2> HIDE DEF t
  <2>5. SessionListsStored'
    BY <1>1, <2>1, <2>2, <2>3, <2>4 DEF StoredInv, SessionListsStored, TypeOK, Session
  <2>6. QED  BY <1>1, <2>4, <2>5 DEF StoredInv, ListsStored
<1>5. ASSUME NEW p \in Procs, InsertQuery(p)  PROVE StoredInv'
  <2>1. mr_att_lists' = mr_att_lists /\ sess' = [sess EXCEPT ![p] = Blank]
    BY <1>5 DEF InsertQuery, End, Goto
  <2>2. ListsStored'
    BY <1>5, <2>1 DEF InsertQuery, StoredInv, SessionListsStored, ListsStored
  <2>3. SessionListsStored'
    BY <1>1, <2>1 DEF StoredInv, SessionListsStored, TypeOK, Blank
  <2>4. QED  BY <1>1, <2>2, <2>3 DEF StoredInv
<1>6. QED  BY <1>1, <1>2, <1>3, <1>4, <1>5, Registers DEF Next

(* However the programs interleave and wherever they fail, a row of        *)
(* mr_query only names attribute lists that are in mr_att_lists.           *)
THEOREM RowListsStored == Spec => []ListsStored
<1>1. Init => StoredInv
  BY TypeInit DEF Init, StoredInv, ListsStored, SessionListsStored, Blank
<1>2. StoredInv => ListsStored
  BY DEF StoredInv
<1>3. QED  BY <1>1, <1>2, StoredStep, PTL DEF Spec

-----------------------------------------------------------------------------
(* No two lists share an id.                                               *)

(* With one program at a time a step of p finds the others idle and leaves *)
(* them so.                                                                *)
LEMMA OthersIdle ==
  ASSUME Serial, TypeOK, Alone, NEW p \in Procs, Start(p) \/ Step(p) \/ Crash(p)
  PROVE  /\ Alone'
         /\ \A q \in Procs \ {p} : pc'[q] = "idle" /\ pc[q] = "idle" /\ sess'[q] = sess[q]
<1>1. pc[p] # "idle" \/ \A q \in Procs : pc[q] = "idle"
  BY DEF Start, StartQuery, StartDelete, StartDerive, MayStart, Crash, Step, CheckHomonym,
         LookupDeleted, SelectVictims, DeleteRow, DropTable, ReadCatalogue, CountPast, Optimize,
         OptimizeThrows, ReadBase, CountBase, OpenCursor, LoadElems, ProbeTable, CreateTable,
         FirstInserts, LastInserts, CopyTable, SelectId, UpdateId, InsertList, InsertQuery,
         LookupOriginal, LookupDerived
<1>2. \A q \in Procs \ {p} : pc[q] = "idle"
  BY <1>1 DEF Alone
<1>3. PICK l, s : Goto(p, l, s)
  BY Registers DEF Unregistered, GoesOn, End, SelectId, UpdateId, InsertList, InsertQuery
<1>4. QED  BY <1>2, <1>3 DEF Goto, Alone, TypeOK

(* It is enough to look at the rows and at session p.                      *)
LEMMA OthersNumbered ==
  ASSUME Serial, PrivateInv, NEW p \in Procs, Start(p) \/ Step(p) \/ Crash(p),
         TypeOK', ListsPrivate', LastList \in Nat, LastList' \in Nat,
         (\A r \in mr_query : \A l \in Lists : r.lists[l] <= LastList)',
         NEW l, NEW t, pc'[p] = l, sess'[p] = t, Numbered(l, t)'
  PROVE  PrivateInv'
<1>1. Alone' /\ \A q \in Procs \ {p} : pc'[q] = "idle" /\ pc[q] = "idle" /\ sess'[q] = sess[q]
  BY OthersIdle DEF PrivateInv
<1>2. ASSUME NEW q \in Procs \ {p}  PROVE (Numbered(pc[q], sess[q]))'
  <2>1. \A k \in Lists : sess'[q].lists[k] = 0
    BY <1>1 DEF PrivateInv, Numbered
  <2>2. pc'[q] = "idle"
    BY <1>1
  <2>3. QED  BY <2>1, <2>2 DEF Numbered
<1>3. (Numbered(pc[p], sess[p]))'
  BY DEF Numbered
<1>4. (\A q \in Procs : Numbered(pc[q], sess[q]))'
  BY <1>2, <1>3
<1>5. QED  BY <1>1, <1>4 DEF PrivateInv

LEMMA PrivateStep == Serial /\ PrivateInv /\ [Next]_vars => PrivateInv'
<1> SUFFICES ASSUME Serial, PrivateInv, [Next]_vars PROVE PrivateInv'
  OBVIOUS
<1>1. TypeOK /\ TypeOK'
  BY TypeStep DEF PrivateInv
<1>2. LastList \in Nat /\ LastList' \in Nat
  BY <1>1 DEF TypeOK, LastList, Counters
<1>3. CASE UNCHANGED vars
  BY <1>3 DEF vars, PrivateInv, TypeOK, Alone, ListsPrivate, Numbered, LastList
<1>4. ASSUME NEW p \in Procs, Start(p) \/ Step(p) \/ Crash(p)  PROVE PrivateInv'
  <2> DEFINE s == sess[p]
  <2>1. /\ s \in Session /\ s.id \in Nat /\ s.lists \in [Lists -> Nat] /\ Numbered(pc[p], s)
        /\ \A r \in mr_query : r.lists \in [Lists -> Nat]
    BY <1>1 DEF PrivateInv, TypeOK, Session, Row
  <2>2. CASE Unregistered(p)
    <3>1. mr_query' \subseteq mr_query /\ LastList' = LastList
      BY <2>2 DEF Unregistered, LastList
    <3>2. ListsPrivate' /\ (\A r \in mr_query : \A l \in Lists : r.lists[l] <= LastList)'
      BY <3>1 DEF PrivateInv, ListsPrivate
    <3>3. CASE End(p)
      <4>1. pc'[p] = "idle" /\ sess'[p] = Blank
        BY <1>1, <3>3 DEF End, Goto, TypeOK
      <4>2. \A k \in Lists : Blank.lists[k] = 0
        BY DEF Blank
      <4>3. Numbered("idle", Blank)'
        BY <1>2, <4>2 DEF Numbered
      <4>4. QED  BY <1>1, <1>2, <1>4, <3>2, <4>1, <4>3, OthersNumbered
    <3>4. ASSUME NEW l, NEW t, Goto(p, l, t), l \notin {"idle", "update", "store"}, Carries(p, t)
          PROVE  PrivateInv'
      <4>1. pc'[p] = l /\ sess'[p] = t
        BY <1>1, <3>4 DEF Goto, TypeOK
      <4>2. t.lists = s.lists \/ \A k \in Lists : t.lists[k] = 0
        BY <3>4 DEF Carries, Blank
      <4>3. Numbered(l, t)'
        BY <1>2, <2>1, <3>1, <3>4, <4>2 DEF Numbered
      <4>4. QED  BY <1>1, <1>2, <1>4, <3>2, <4>1, <4>3, OthersNumbered
    <3>5. QED  BY <2>2, <3>3, <3>4 DEF Unregistered, GoesOn
  <2>3. CASE SelectId(p)
    <3>0. PICK t : t = [s EXCEPT !.id = NewValue(CounterOf(s))]
      OBVIOUS
    <3>1. mr_query' = mr_query /\ LastList' = LastList
      BY <2>3 DEF SelectId, LastList, database
    <3>2. pc'[p] = "update" /\ sess'[p] = t
      BY <1>1, <2>3, <3>0 DEF SelectId, Goto, TypeOK
    <3>3. /\ t.lists = s.lists /\ t.list = s.list
          /\ t.list # "none" => t.id = LastList + 1
      BY <2>1, <3>0 DEF Session, NewValue, CounterOf, LastList
    <3>4. Numbered("update", t)'
      BY <2>1, <3>1, <3>3 DEF Numbered
    <3>5. ListsPrivate' /\ (\A r \in mr_query : \A l \in Lists : r.lists[l] <= LastList)'
      BY <3>1 DEF PrivateInv, ListsPrivate
    <3>6. QED  BY <1>1, <1>2, <1>4, <3>2, <3>4, <3>5, OthersNumbered
  <2>4. CASE UpdateId(p)
    <3>1. mr_query' = mr_query /\ pc[p] = "update" /\ pc'[p] = "store" /\ sess'[p] = s
      BY <1>1, <2>4 DEF UpdateId, Goto, TypeOK
    <3>2. LastList' = IF s.list = "none" THEN LastList ELSE LastList + 1
      BY <1>1, <2>1, <2>4 DEF UpdateId, CounterOf, LastList, TypeOK, Counters, Numbered
    <3>3. /\ \A r \in mr_query' : \A l \in Lists : r.lists[l] <= LastList
          /\ \A l \in Lists : s.lists[l] <= LastList
      BY <2>1, <3>1 DEF PrivateInv, Numbered
    <3>4. Numbered("store", s)'
      BY <1>2, <2>1, <3>1, <3>2, <3>3 DEF Numbered
    <3>5. ListsPrivate' /\ (\A r \in mr_query : \A l \in Lists : r.lists[l] <= LastList)'
      BY <1>2, <2>1, <3>1, <3>2, <3>3 DEF PrivateInv, ListsPrivate
    <3>6. QED  BY <1>1, <1>2, <1>4, <3>1, <3>4, <3>5, OthersNumbered
  <2>5. CASE InsertList(p)
    <3>0. PICK t : t = [s EXCEPT !.lists[s.list] = s.id, !.list = NextList(s)]
      OBVIOUS
    <3>1. mr_query' = mr_query /\ LastList' = LastList /\ pc[p] = "store" /\ s.list # "none"
      BY <2>5 DEF InsertList, LastList
    <3>2. pc'[p] = "select" /\ sess'[p] = t
      BY <1>1, <2>5, <3>0 DEF InsertList, Goto, TypeOK
    <3>3. t.lists = [s.lists EXCEPT ![s.list] = s.id]
      BY <2>1, <3>0 DEF Session
    <3>4. Numbered("select", t)'
      BY <1>2, <2>1, <3>1, <3>3 DEF Numbered
    <3>5. ListsPrivate' /\ (\A r \in mr_query : \A l \in Lists : r.lists[l] <= LastList)'
      BY <3>1 DEF PrivateInv, ListsPrivate
    <3>6. QED  BY <1>1, <1>2, <1>4, <3>2, <3>4, <3>5, OthersNumbered
  <2>6. CASE InsertQuery(p)
    <3> DEFINE row == [id |-> s.id, name |-> s.name, text |-> s.text, res |-> s.res,
                       lists |-> s.lists]
    <3>1. /\ LastList' = LastList /\ pc'[p] = "idle" /\ sess'[p] = Blank
          /\ mr_query' \subseteq mr_query \cup {row}
      BY <1>1, <2>6 DEF InsertQuery, LastList, End, Goto, TypeOK
    <3>2. row.lists = s.lists
      OBVIOUS
    <3> HIDE DEF row
    <3>3. ListsPrivate'
      BY <2>1, <3>1, <3>2 DEF PrivateInv, ListsPrivate, Numbered
    <3>4. (\A r \in mr_query : \A l \in Lists : r.lists[l] <= LastList)'
      BY <2>1, <3>1, <3>2 DEF PrivateInv, Numbered
    <3>5. \A k \in Lists : Blank.lists[k] = 0
      BY DEF Blank
    <3>6. Numbered("idle", Blank)'
      BY <1>2, <3>5 DEF Numbered
    <3>7. QED  BY <1>1, <1>2, <1>4, <3>1, <3>3, <3>4, <3>6, OthersNumbered
  <2>7. QED  BY <1>1, <1>4, <2>2, <2>3, <2>4, <2>5, <2>6, Registers
<1>5. QED  BY <1>3, <1>4 DEF Next

(* With one program at a time no two attribute lists of mr_query share an  *)
(* id, wherever the programs are killed: not two lists of a row, nor those *)
(* of two rows.                                                            *)
THEOREM RowListsPrivate == Serial => (Spec => []ListsPrivate)
<1> SUFFICES ASSUME Serial PROVE Spec => []ListsPrivate
  OBVIOUS
<1>1. Init => PrivateInv
  BY TypeInit DEF Init, PrivateInv, Alone, ListsPrivate, Numbered, LastList, Blank, Counters
<1>2. PrivateInv => ListsPrivate
  BY DEF PrivateInv
<1>3. PrivateInv /\ [Next]_vars => PrivateInv'
  BY PrivateStep
<1>4. QED  BY <1>1, <1>2, <1>3, PTL DEF Spec

-----------------------------------------------------------------------------
(* The answers stay whole for careful users: IInv is inductive.            *)

(* The labels and sessions of everybody after p goes to label l.           *)
LEMMA AloneKept ==
  ASSUME IInv, NEW p \in Procs, NEW l, NEW s, Goto(p, l, s),
         pc[p] # "idle" \/ \A q \in Procs : pc[q] = "idle"
  PROVE  /\ Alone'
         /\ pc'[p] = l /\ sess'[p] = s
         /\ \A q \in Procs \ {p} : pc[q] = "idle" /\ pc'[q] = "idle" /\ sess'[q] = sess[q]
<1>1. pc \in [Procs -> Labels] /\ sess \in [Procs -> Session]
  BY DEF IInv, TypeOK
<1>2. \A q \in Procs \ {p} : pc[q] = "idle"
  BY DEF IInv, Alone
<1>3. QED  BY <1>1, <1>2 DEF Goto, Alone

LEMMA IdleIsGood == \A s : Good("idle", s)
BY DEF Good, Early, Searching, Writing, Registering, Clear

LEMMA IdleIsGoodNext == \A s : Good("idle", s)'
BY DEF Good, Early, Searching, Writing, Registering, Clear

LEMMA GoodKept ==
  ASSUME IInv, NEW p \in Procs, NEW l, NEW s, Goto(p, l, s),
         pc[p] # "idle" \/ \A q \in Procs : pc[q] = "idle",
         Good(l, s)'
  PROVE  (\A q \in Procs : Good(pc[q], sess[q]))'
<1>1. ASSUME NEW q \in Procs  PROVE Good(pc[q], sess[q])'
  <2>1. CASE q = p
    BY <2>1, AloneKept DEF Good
  <2>2. CASE q # p
    BY <2>2, AloneKept, IdleIsGoodNext DEF Good, Early, Searching, Writing, Registering, Clear
  <2>3. QED  BY <2>1, <2>2
<1>2. QED  BY <1>1

(* A step that changes no row and only tables no row points to.            *)
LEMMA UnseenStep ==
  ASSUME IInv, NEW p \in Procs, NEW l, NEW s, NEW n, Goto(p, l, s), TypeOK',
         pc[p] # "idle" \/ \A q \in Procs : pc[q] = "idle",
         pc[p] # "delete",
         mr_query' = mr_query,
         Dependent(n) = {},
         \A m \in Names \ {n} : tables'[m] = tables[m],
         Good(l, s)', Filling'
  PROVE  IInv'
<1>1. Alone' /\ (\A q \in Procs : Good(pc[q], sess[q]))'
  BY AloneKept, GoodKept
<1>2. IdsUnique' /\ NamesUnique'
  BY DEF IInv, IdsUnique, NamesUnique
<1>3. \A r \in mr_query : r.res # n /\ r.res \in Names
  BY DEF Dependent, IInv, TypeOK, Row
<1>4. Intact'
  BY <1>3 DEF IInv, Intact, Whole
<1>5. \A r \in mr_query : HasOwner(r)
  BY AloneKept DEF IInv, OwnedOrDoomed
<1>6. OwnedOrDoomed'
  BY <1>5 DEF OwnedOrDoomed, HasOwner
<1>7. QED  BY <1>1, <1>2, <1>4, <1>6 DEF IInv

(* A step that changes nothing in the database.                            *)
LEMMA ReadStep ==
  ASSUME IInv, NEW p \in Procs, NEW l, NEW s, Goto(p, l, s), TypeOK',
         pc[p] # "idle" \/ \A q \in Procs : pc[q] = "idle",
         pc[p] # "delete", l # "fill",
         UNCHANGED <<mr_query, tables>>,
         Good(l, s)
  PROVE  IInv'
<1>1. Good(l, s)'
  BY DEF Good, Dependent, Named, Whole, Holding, Reusable, Reading1
<1>2. Filling'
  BY AloneKept DEF Filling
<1>3. Alone' /\ (\A q \in Procs : Good(pc[q], sess[q]))'
  BY <1>1, AloneKept, GoodKept
<1>4. IdsUnique' /\ NamesUnique' /\ Intact'
  BY DEF IInv, IdsUnique, NamesUnique, Intact, Whole
<1>5. \A r \in mr_query : HasOwner(r)
  BY AloneKept DEF IInv, OwnedOrDoomed
<1>6. OwnedOrDoomed'
  BY <1>5 DEF OwnedOrDoomed, HasOwner
<1>7. QED  BY <1>2, <1>3, <1>4, <1>6 DEF IInv

(* A session that ends, by returning, throwing, failing an assertion or    *)
(* being killed, leaves nothing behind but orphan tables.                  *)
LEMMA EndStep ==
  ASSUME IInv, NEW p \in Procs, End(p), TypeOK', pc[p] # "idle", pc[p] # "delete",
         UNCHANGED <<mr_query, tables>>
  PROVE  IInv'
BY ReadStep, IdleIsGood DEF End

-----------------------------------------------------------------------------
(* The steps of a session.                                                 *)

LEMMA StartKeeps ==
  ASSUME IInv, Careful, NEW p \in Procs, Start(p), TypeOK'
  PROVE  IInv'
<1>1. pc[p] = "idle" /\ \A q \in Procs : pc[q] = "idle"
  BY DEF Start, StartQuery, StartDelete, StartDerive, MayStart, Careful
<1>2. CASE StartQuery(p)
  <2>1. PICK n \in Allowed[p], t \in Texts :
          Goto(p, "exists", [Blank EXCEPT !.op = "query", !.name = n, !.text = t, !.res = n])
    BY <1>2 DEF StartQuery
  <2>2. Good("exists", [Blank EXCEPT !.op = "query", !.name = n, !.text = t, !.res = n])
    BY DEF Good, Early, Searching, Writing, Registering, Clear, Blank
  <2>3. QED  BY <1>1, <1>2, <2>1, <2>2, ReadStep DEF StartQuery, database
<1>3. CASE StartDelete(p)
  <2>1. PICK n \in Allowed[p] : Goto(p, "lookup", [Blank EXCEPT !.op = "delete", !.name = n])
    BY <1>3 DEF StartDelete
  <2>2. Good("lookup", [Blank EXCEPT !.op = "delete", !.name = n])
    BY DEF Good, Early, Searching, Writing, Registering, Clear, Blank
  <2>3. QED  BY <1>1, <1>3, <2>1, <2>2, ReadStep DEF StartDelete, database
<1>4. CASE StartDerive(p)
  <2>1. PICK r \in mr_query, d \in Allowed[p] :
          /\ Dependent(d) = {}
          /\ tables' = [tables EXCEPT ![d] = [k \in Kinds |-> r.text]]
          /\ Goto(p, "original", [Blank EXCEPT !.op = "derive", !.name = d,
                                               !.res = d, !.orig = r.name])
    BY <1>4 DEF StartDerive
  <2> DEFINE s == [Blank EXCEPT !.op = "derive", !.name = d, !.res = d, !.orig = r.name]
  <2>2. d \in Names /\ tables \in [Names -> [Kinds -> Contents]] /\ mr_query' = mr_query
    BY <1>4, OptionsAssumption DEF IInv, TypeOK, StartDerive
  <2>3. Whole(d, r.text)'
    BY <2>1, <2>2 DEF Whole, Answers, Kinds
  <2>4. Named(r.name)' = {r}
    BY <2>1, <2>2 DEF Named, IInv, NamesUnique
  <2>5. Dependent(d)' = {}
    BY <2>1, <2>2 DEF Dependent
  <2>6. s.sound /\ s.op = "derive" /\ s.name = d /\ s.res = d /\ s.orig = r.name
    BY DEF Blank
  <2> HIDE DEF s
  <2>7. Good("original", s)'
    BY <2>3, <2>4, <2>5, <2>6 DEF Good, Early, Searching, Writing, Registering, Clear
  <2>8. \A m \in Names \ {d} : tables'[m] = tables[m]
    BY <2>1, <2>2
  <2>9. Filling'
    BY <2>1, <1>1, AloneKept DEF Filling
  <2>10. QED  BY <1>1, <2>1, <2>2, <2>7, <2>8, <2>9, UnseenStep DEF s
<1>5. QED  BY <1>2, <1>3, <1>4 DEF Start

(* Where the branches of several steps go on, with the tables of the       *)
(* session's own name changed or not.                                      *)
LEMMA ToCreateKeeps ==
  ASSUME IInv, Careful, NEW p \in Procs, NEW s \in Session, ToCreate(p, s), TypeOK',
         pc[p] # "idle", pc[p] # "delete", mr_query' = mr_query,
         \A m \in Names \ {s.name} : tables'[m] = tables[m],
         s.sound, s.op = "query", s.res = s.name, Dependent(s.name) = {},
         ReadsLazily(s) => Reading1(s), s.rel # "None" => ~CacheWrites
  PROVE  IInv'
<1> DEFINE t == [s EXCEPT !.kind = "rules"]
<1>1. Goto(p, "redrop", t) \/ End(p)
  BY DEF ToCreate, Careful
<1>2. /\ t.sound /\ t.op = "query" /\ t.res = t.name /\ t.name = s.name /\ t.kind = "rules"
      /\ t.rel = s.rel /\ t.text = s.text /\ t.base = s.base /\ t.src = s.src
  BY DEF Session
<1> HIDE DEF t
<1>3. (ReadsLazily(t) => Reading1(t)) /\ Dependent(t.name) = {}
  BY <1>2 DEF ReadsLazily, Reading1, Reusable
<1>4. (ReadsLazily(t) => Reading1(t)') /\ Dependent(t.name)' = {}
  BY <1>3 DEF Reading1, Reusable, Dependent
<1>5. Kinds \ Ahead(t.kind) = {}
  BY <1>2 DEF Ahead
<1>6. Good("redrop", t)'
  BY <1>2, <1>4, <1>5 DEF Good, Early, Searching, Writing, Registering, Clear, ReadsLazily
<1>7. Filling'
  BY <1>1, AloneKept DEF Filling, End
<1>8. CASE End(p)
  BY <1>7, <1>8, UnseenStep, IdleIsGoodNext DEF End
<1>9. QED  BY <1>1, <1>6, <1>7, <1>8, UnseenStep

LEMMA ToOptimizeKeeps ==
  ASSUME IInv, Careful, NEW p \in Procs, NEW s \in Session, ToOptimize(p, s), TypeOK',
         pc[p] # "idle", pc[p] # "delete", mr_query' = mr_query,
         \A m \in Names \ {s.name} : tables'[m] = tables[m],
         s.sound, s.op = "query", s.res = s.name, Dependent(s.name) = {}, s.rel = "None"
  PROVE  IInv'
<1>1. CASE TryOptimizations /\ s.text \notin Itemsets
  <2>1. Dependent(s.name)' = {}
    BY DEF Dependent
  <2>2. Good("catalogue", s)'
    BY <1>1, <2>1 DEF Good, Early, Searching, Writing, Registering, Clear, Careful
  <2>3. Goto(p, "catalogue", s)
    BY <1>1 DEF ToOptimize
  <2>4. Filling'
    BY <2>3, AloneKept DEF Filling
  <2>5. QED  BY <2>2, <2>3, <2>4, UnseenStep
<1>2. CASE ~(TryOptimizations /\ s.text \notin Itemsets)
  BY <1>2, ToCreateKeeps DEF ToOptimize, ReadsLazily
<1>3. QED  BY <1>1, <1>2

LEMMA ToRegisterKeeps ==
  ASSUME IInv, NEW p \in Procs, NEW s \in Session, ToRegister(p, s), TypeOK',
         pc[p] # "idle", pc[p] # "delete", mr_query' = mr_query,
         \A m \in Names \ {s.name} : tables'[m] = tables[m],
         s.sound, Dependent(s.name) = {}, Whole(s.res, s.text)',
         s.res = s.name \/ \E o \in mr_query : o.name = s.res /\ o.res = s.res
  PROVE  IInv'
<1> DEFINE t == [s EXCEPT !.list = "ga"]
<1>1. /\ t.sound /\ t.res = s.res /\ t.name = s.name /\ t.text = s.text
  BY DEF Session
<1>2. Goto(p, "select", t)
  BY DEF ToRegister
<1> HIDE DEF t
<1>3. Dependent(t.name)' = {} /\ Whole(t.res, t.text)'
  BY <1>1 DEF Dependent
<1>4. Good("select", t)'
  BY <1>1, <1>3 DEF Good, Early, Searching, Writing, Registering, Clear
<1>5. Filling'
  BY <1>2, AloneKept DEF Filling
<1>6. QED  BY <1>1, <1>2, <1>4, <1>5, UnseenStep

(* Nobody but the owner of a name has its result: a name that no row has   *)
(* is a result that no row has.                                            *)
LEMMA UnnamedIsUnused ==
  ASSUME IInv, NEW n \in Names, Named(n) = {}, \A p \in Procs : pc[p] # "delete"
  PROVE  Dependent(n) = {}
BY DEF Named, Dependent, IInv, OwnedOrDoomed, HasOwner

LEMMA CheckHomonymKeeps ==
  ASSUME IInv, Careful, NEW p \in Procs, CheckHomonym(p), TypeOK'
  PROVE  IInv'
<1> DEFINE s == sess[p]
<1>1. /\ s \in Session /\ s.name \in Names /\ pc[p] = "exists" /\ UNCHANGED <<mr_query, tables>>
      /\ \A q \in Procs : pc[q] # "delete"
  BY DEF CheckHomonym, database, IInv, TypeOK, Session, Alone
<1>2. s.sound /\ s.op = "query" /\ s.res = s.name /\ s.rel = "None"
  BY <1>1 DEF IInv, Good, Early, Registering
<1>3. CASE Named(s.name) = {} /\ ToOptimize(p, s)
  BY <1>1, <1>2, <1>3, UnnamedIsUnused, ToOptimizeKeeps
<1>4. CASE Goto(p, "victims", s)
  <2>1. Good("victims", s)
    BY <1>2 DEF Good, Early, Searching, Writing, Registering, Clear
  <2>2. QED  BY <1>1, <1>4, <2>1, ReadStep
<1>5. CASE End(p)
  BY <1>1, <1>5, EndStep
<1>6. QED  BY <1>3, <1>4, <1>5 DEF CheckHomonym

LEMMA LookupDeletedKeeps ==
  ASSUME IInv, NEW p \in Procs, LookupDeleted(p), TypeOK'
  PROVE  IInv'
<1> DEFINE s == sess[p]
<1>1. pc[p] = "lookup" /\ UNCHANGED <<mr_query, tables>>
  BY DEF LookupDeleted, database
<1>2. s.sound /\ (s.op # "delete" => s.res = s.name) /\ s.rel = "None"
  BY <1>1 DEF IInv, Good, Early, Registering
<1>3. Good("victims", s)
  BY <1>2 DEF Good, Early, Searching, Writing, Registering, Clear
<1>4. QED  BY <1>1, <1>3, ReadStep, EndStep DEF LookupDeleted

LEMMA SelectVictimsKeeps ==
  ASSUME IInv, NEW p \in Procs, SelectVictims(p), TypeOK'
  PROVE  IInv'
<1> DEFINE s == sess[p]
           t == [s EXCEPT !.rs = Dependent(s.name)]
<1>1. s \in Session /\ pc[p] = "victims" /\ UNCHANGED <<mr_query, tables>>
  BY DEF SelectVictims, database, IInv, TypeOK
<1>2. s.sound /\ (s.op # "delete" => s.res = s.name) /\ s.rel = "None"
  BY <1>1 DEF IInv, Good, Early, Registering
<1>3. /\ t.sound /\ (t.op # "delete" => t.res = t.name) /\ t.rel = "None"
      /\ t.name = s.name /\ t.rs = Dependent(t.name)
  BY <1>1, <1>2 DEF Session
<1>4. \/ End(p)
      \/ Goto(p, "delete", t) /\ (Cascade \/ \A r, q \in Dependent(s.name) : r = q)
  BY DEF SelectVictims
<1>5. CASE End(p)
  BY <1>1, <1>5, EndStep
<1>6. CASE Goto(p, "delete", t) /\ (Cascade \/ \A r, q \in Dependent(s.name) : r = q)
  <2> HIDE DEF t
  <2>1. Good("delete", t)
    BY <1>3, <1>6 DEF Good, Early, Searching, Writing, Registering, Clear
  <2>2. QED  BY <1>1, <1>6, <2>1, ReadStep
<1>7. QED  BY <1>4, <1>5, <1>6

(* What the invariant says of the session that takes the next step.        *)
LEMMA Here ==
  ASSUME IInv, NEW p \in Procs
  PROVE  /\ sess[p] \in Session /\ sess[p].name \in Names /\ sess[p].text \in Texts
         /\ Good(pc[p], sess[p])
BY DEF IInv, TypeOK, Session

(* One row of the victims goes; those that are left still have an owner or *)
(* are victims themselves.                                                 *)
LEMMA DeleteRowKeeps ==
  ASSUME IInv, NEW p \in Procs, DeleteRow(p), TypeOK'
  PROVE  IInv'
<1>s. PICK s \in Session : s = sess[p]
  BY Here
<1> USE <1>s
<1>1. PICK v \in s.rs :
        /\ mr_query' = {r \in mr_query : r.id # v.id}
        /\ \/ /\ s.rs # {v}
              /\ Goto(p, "delete", [s EXCEPT !.rs = @ \ {v}])
           \/ /\ s.rs = {v}
              /\ Goto(p, "drop", [s EXCEPT !.rs = {}, !.kind = "rules"])
  BY DEF DeleteRow
<1>2. pc[p] = "delete" /\ UNCHANGED tables
  BY DEF DeleteRow
<1>3. /\ s \in Session /\ s.sound /\ s.rel = "None" /\ (s.op # "delete" => s.res = s.name)
      /\ s.rs = Dependent(s.name) /\ (Cascade \/ \A r, q \in s.rs : r = q)
  BY <1>2, Here DEF Good, Early, Registering
<1>4. v \in mr_query /\ mr_query' = mr_query \ {v}
  BY <1>1, <1>3 DEF Dependent, IInv, IdsUnique
<1>5. Dependent(s.name)' = s.rs \ {v}
  BY <1>3, <1>4 DEF Dependent
<1>6. \A r \in mr_query' : HasOwner(r) \/ (Cascade /\ r \in s.rs \ {v})
  BY <1>2, <1>4 DEF IInv, OwnedOrDoomed, Alone
<1>7. \A r \in mr_query' : HasOwner(r)' \/ (Cascade /\ r \in s.rs \ {v})
  <2> SUFFICES ASSUME NEW r \in mr_query', HasOwner(r), ~ HasOwner(r)'
               PROVE  Cascade /\ r \in s.rs \ {v}
    BY <1>6
  <2>1. v.name = r.res /\ v.res = r.res
    BY <1>4 DEF HasOwner
  <2>2. r \in Dependent(s.name) /\ r # v
    BY <1>3, <1>4, <2>1 DEF Dependent
  <2>3. QED  BY <1>1, <1>3, <2>2
<1>8. IdsUnique' /\ NamesUnique' /\ Intact'
  BY <1>2, <1>4 DEF IInv, IdsUnique, NamesUnique, Intact, Whole
<1>9. CASE s.rs # {v} /\ Goto(p, "delete", [s EXCEPT !.rs = @ \ {v}])
  <2> DEFINE t == [s EXCEPT !.rs = @ \ {v}]
  <2>1. /\ t.sound /\ (t.op # "delete" => t.res = t.name) /\ t.rel = "None"
        /\ t.name = s.name /\ t.rs = s.rs \ {v}
    BY <1>3 DEF Session
  <2> HIDE DEF t
  <2>2. Good("delete", t)'
    BY <1>3, <1>5, <2>1 DEF Good, Early, Searching, Writing, Registering, Clear
  <2>3. Alone' /\ pc'[p] = "delete" /\ sess'[p] = t /\ Filling'
    BY <1>2, <1>9, AloneKept DEF Filling, t
  <2>4. (\A q \in Procs : Good(pc[q], sess[q]))'
    BY <1>2, <1>9, <2>2, GoodKept DEF t
  <2>5. OwnedOrDoomed'
    BY <1>7, <2>1, <2>3 DEF OwnedOrDoomed
  <2>6. QED  BY <1>8, <2>3, <2>4, <2>5 DEF IInv
<1>10. CASE s.rs = {v} /\ Goto(p, "drop", [s EXCEPT !.rs = {}, !.kind = "rules"])
  <2> DEFINE t == [s EXCEPT !.rs = {}, !.kind = "rules"]
  <2>1. /\ t.sound /\ (t.op # "delete" => t.res = t.name) /\ t.rel = "None"
        /\ t.name = s.name
    BY <1>3 DEF Session
  <2> HIDE DEF t
  <2>2. Good("drop", t)'
    BY <1>5, <1>10, <2>1 DEF Good, Early, Searching, Writing, Registering, Clear
  <2>3. Alone' /\ pc'[p] = "drop" /\ sess'[p] = t /\ Filling'
    BY <1>2, <1>10, AloneKept DEF Filling, t
  <2>4. (\A q \in Procs : Good(pc[q], sess[q]))'
    BY <1>2, <1>10, <2>2, GoodKept DEF t
  <2>5. OwnedOrDoomed'
    BY <1>7, <1>10 DEF OwnedOrDoomed
  <2>6. QED  BY <1>8, <2>3, <2>4, <2>5 DEF IInv
<1>11. QED  BY <1>1, <1>9, <1>10

(* The session's own tables, which no row points to, are dropped.          *)
LEMMA DropTableKeeps ==
  ASSUME IInv, Careful, NEW p \in Procs, DropTable(p), TypeOK'
  PROVE  IInv'
<1>s. PICK s \in Session : s = sess[p]
  BY Here
<1> USE <1>s
<1>l. PICK l \in {"drop", "redrop"} : l = pc[p]
  BY DEF DropTable
<1> USE <1>l
<1>1. /\ pc[p] \in {"drop", "redrop"} /\ mr_query' = mr_query
      /\ tables' = [tables EXCEPT ![s.name][s.kind] = Absent]
  BY DEF DropTable
<1>2. /\ s \in Session /\ s.name \in Names /\ s.sound /\ Dependent(s.name) = {}
      /\ (s.op # "delete" => s.res = s.name) /\ (pc[p] = "drop" => s.rel = "None")
      /\ (pc[p] = "redrop" => /\ s.op = "query"
                              /\ ReadsLazily(s) => Reading1(s)
                              /\ s.rel # "None" => ~CacheWrites
                              /\ \A k \in Kinds \ Ahead(s.kind) : tables[s.name][k] = Absent)
  BY <1>1, Here DEF Good, Early, Writing, Registering, Clear
<1>3. /\ \A m \in Names \ {s.name} : tables'[m] = tables[m]
      /\ \A k \in Kinds : tables'[s.name][k] = IF k = s.kind THEN Absent ELSE tables[s.name][k]
  BY <1>1, <1>2 DEF IInv, TypeOK
<1>4. Dependent(s.name)' = {} /\ (Reading1(s) => Reading1(s)')
  BY <1>1, <1>2 DEF Dependent, Reading1, Reusable
<1>5. ASSUME NEW k \in {"heads", "bodies"}, Goto(p, pc[p], [s EXCEPT !.kind = k]),
             s.kind \notin Ahead(k), Kinds \ Ahead(k) = (Kinds \ Ahead(s.kind)) \cup {s.kind}
      PROVE  IInv'
  <2> DEFINE t == [s EXCEPT !.kind = k]
  <2>1. /\ t.sound /\ t.op = s.op /\ t.res = s.res /\ t.name = s.name /\ t.kind = k
        /\ t.rel = s.rel /\ t.text = s.text /\ t.base = s.base /\ t.src = s.src
    BY <1>2 DEF Session
  <2> HIDE DEF t
  <2>2. (ReadsLazily(s) => Reading1(s)) => (ReadsLazily(t) => Reading1(t)')
    BY <1>4, <2>1 DEF ReadsLazily, Reading1, Reusable
  <2>3. l = "redrop" => \A j \in Kinds \ Ahead(k) : tables'[t.name][j] = Absent
    BY <1>2, <1>3, <1>5, <2>1
  <2>4. Good(l, t)'
    BY <1>1, <1>2, <1>4, <2>1, <2>2, <2>3
    DEF Good, Early, Searching, Writing, Registering, Clear, ReadsLazily
  <2>5. Filling'
    BY <1>1, <1>5, AloneKept DEF Filling, t
  <2>6. QED  BY <1>1, <1>2, <1>3, <1>5, <2>4, <2>5, UnseenStep DEF t
<1>6. CASE s.kind = "rules" /\ Goto(p, pc[p], [s EXCEPT !.kind = "heads"])
  <2>1. s.kind \notin Ahead("heads") /\ Kinds \ Ahead("heads") = (Kinds \ Ahead(s.kind)) \cup {s.kind}
    BY <1>6 DEF Ahead, Kinds
  <2>2. QED  BY <1>5, <1>6, <2>1
<1>7. CASE s.kind = "heads" /\ Goto(p, pc[p], [s EXCEPT !.kind = "bodies"])
  <2>1. s.kind \notin Ahead("bodies") /\ Kinds \ Ahead("bodies") = (Kinds \ Ahead(s.kind)) \cup {s.kind}
    BY <1>7 DEF Ahead, Kinds
  <2>2. QED  BY <1>5, <1>7, <2>1
<1>8. CASE s.kind = "bodies" /\ pc[p] = "drop" /\ s.op = "delete" /\ End(p)
  <2>1. Filling'
    BY <1>1, <1>8, AloneKept DEF Filling, End
  <2>2. QED  BY <1>1, <1>2, <1>3, <1>8, <2>1, UnseenStep, IdleIsGoodNext DEF End
<1>9. CASE s.kind = "bodies" /\ pc[p] = "drop" /\ s.op = "query" /\ ToOptimize(p, s)
  BY <1>1, <1>2, <1>3, <1>9, ToOptimizeKeeps
<1>10. CASE s.kind = "bodies" /\ pc[p] = "redrop" /\ End(p)
  <2>1. Filling'
    BY <1>1, <1>10, AloneKept DEF Filling, End
  <2>2. QED  BY <1>1, <1>2, <1>3, <1>10, <2>1, UnseenStep, IdleIsGoodNext DEF End
<1>11. CASE s.kind = "bodies" /\ pc[p] = "redrop" /\ Goto(p, "probe", [s EXCEPT !.kind = "rules"])
  <2> DEFINE t == [s EXCEPT !.kind = "rules"]
  <2>1. /\ t.sound /\ t.op = s.op /\ t.res = s.res /\ t.name = s.name /\ t.kind = "rules"
        /\ t.rel = s.rel /\ t.text = s.text /\ t.base = s.base /\ t.src = s.src
    BY <1>2 DEF Session
  <2> HIDE DEF t
  <2>2. (ReadsLazily(s) => Reading1(s)) => (ReadsLazily(t) => Reading1(t)')
    BY <1>4, <2>1 DEF ReadsLazily, Reading1, Reusable
  <2>3. \A k \in Kinds : tables'[s.name][k] = Absent
    BY <1>2, <1>3, <1>11 DEF Ahead
  <2>4. Holding(t.name, Uncreated(t.kind), Absent, Empty)'
    BY <2>1, <2>3 DEF Kinds, Holding, Uncreated
  <2>5. Good("probe", t)'
    BY <1>1, <1>2, <1>4, <1>11, <2>1, <2>2, <2>4
    DEF Good, Early, Searching, Writing, Registering, Clear, ReadsLazily
  <2>6. Filling'
    BY <1>1, <1>11, AloneKept DEF Filling, t
  <2>7. QED  BY <1>1, <1>2, <1>3, <1>11, <2>5, <2>6, UnseenStep DEF t
<1>12. QED  BY <1>6, <1>7, <1>8, <1>9, <1>10, <1>11 DEF DropTable

LEMMA ReadCatalogueKeeps ==
  ASSUME IInv, NEW p \in Procs, ReadCatalogue(p), TypeOK'
  PROVE  IInv'
<1>s. PICK s \in Session : s = sess[p]
  BY Here
<1> USE <1>s
<1> DEFINE t == [s EXCEPT !.rs = mr_query, !.past = mr_query]
<1>1. pc[p] = "catalogue" /\ UNCHANGED <<mr_query, tables>> /\ Goto(p, "sizes", t)
  BY DEF ReadCatalogue, database
<1>2. /\ t.sound = s.sound /\ t.op = s.op /\ t.res = s.res /\ t.name = s.name
      /\ t.rel = s.rel /\ t.text = s.text /\ t.past = mr_query
  BY DEF Session
<1> HIDE DEF t
<1>3. Good("sizes", t)
  BY <1>1, <1>2, Here DEF Good, Early, Searching, Writing, Registering, Clear
<1>4. QED  BY <1>1, <1>3, ReadStep

LEMMA CountPastKeeps ==
  ASSUME IInv, NEW p \in Procs, CountPast(p), TypeOK'
  PROVE  IInv'
<1>s. PICK s \in Session : s = sess[p]
  BY Here
<1> USE <1>s
<1>1. pc[p] = "sizes" /\ UNCHANGED <<mr_query, tables>>
  BY DEF CountPast, database
<1>2. PICK r \in s.rs : End(p) \/ Goto(p, "sizes", NextRow(s, r))
  BY DEF CountPast
<1> DEFINE t == NextRow(s, r)
<1>3. /\ t.sound = s.sound /\ t.op = s.op /\ t.res = s.res /\ t.name = s.name
      /\ t.rel = s.rel /\ t.text = s.text /\ t.past = s.past
  BY DEF Session, NextRow
<1> HIDE DEF t
<1>4. Good("sizes", t)
  BY <1>1, <1>3, Here DEF Good, Early, Searching, Writing, Registering, Clear
<1>5. CASE End(p)
  BY <1>1, <1>5, EndStep
<1>6. CASE Goto(p, "sizes", t)
  BY <1>1, <1>4, <1>6, ReadStep
<1>7. QED  BY <1>2, <1>5, <1>6 DEF t

(* The session has found past minerules it can reuse.                      *)
LEMMA FoundKeeps ==
  ASSUME IInv, NEW p \in Procs, NEW s \in Session, s = sess[p],
         pc[p] = "sizes", s.rs = {}, UNCHANGED <<mr_query, tables>>, TypeOK',
         NEW t, Goto(p, "base", t),
         t.sound = s.sound, t.op = s.op, t.res = s.res, t.name = s.name, t.text = s.text,
         t.rs = {},
         \A b \in t.base : /\ b \in mr_query
                           /\ t.rel = "Equivalence" => <<b.text, t.text>> \in Equivalents
  PROVE  IInv'
<1>1. \A b \in t.base : Reusable(t, b)
  BY DEF Reusable
<1>2. Good("base", t)
  BY <1>1, Here DEF Good, Early, Searching, Writing, Registering, Clear
<1>3. QED  BY <1>2, ReadStep

LEMMA OptimizeKeeps ==
  ASSUME IInv, Careful, NEW p \in Procs, Optimize(p), TypeOK'
  PROVE  IInv'
<1>s. PICK s \in Session : s = sess[p]
  BY Here
<1> USE <1>s
<1>1. pc[p] = "sizes" /\ s.rs = {} /\ UNCHANGED <<mr_query, tables>>
  BY DEF Optimize, database
<1>2. /\ s.sound /\ s.op = "query" /\ s.res = s.name /\ Dependent(s.name) = {} /\ s.rel = "None"
      /\ s.text \in Texts /\ s.past \subseteq mr_query
  BY <1>1, Here DEF Good, Early, Searching, Registering, Clear
<1>3. \A r \in s.past : r \in mr_query /\ r.text \in Texts
  BY <1>2 DEF IInv, TypeOK, Row
<1>4. \A r \in EquivalentPast(s) \cup DominantPast(s) : r \in mr_query
  BY <1>2, <1>3, RelationsAssumption DEF EquivalentPast, DominantPast
<1>5. ASSUME NEW B \in CombinedPast(s), NEW b \in B
      PROVE  b \in mr_query
  <2>1. b \in s.past /\ <<{r.text : r \in B}, s.text>> \in Combines
    BY <1>5 DEF CombinedPast
  <2>2. b.text \in {r.text : r \in B} /\ {r.text : r \in B} \in SUBSET Texts
    BY <1>3, <1>5 DEF CombinedPast
  <2>3. QED  BY <1>2, <1>3, <2>1, <2>2, RelationsAssumption
<1>6. CASE \E r \in EquivalentPast(s) :
             Goto(p, "base", [s EXCEPT !.rel = "Equivalence", !.base = {r}, !.past = {}])
  <2>1. PICK r \in EquivalentPast(s) :
          Goto(p, "base", [s EXCEPT !.rel = "Equivalence", !.base = {r}, !.past = {}])
    BY <1>6
  <2> DEFINE t == [s EXCEPT !.rel = "Equivalence", !.base = {r}, !.past = {}]
  <2>2. /\ t.sound = s.sound /\ t.op = s.op /\ t.res = s.res /\ t.name = s.name
        /\ t.text = s.text /\ t.rs = {} /\ t.rel = "Equivalence" /\ t.base = {r}
    BY <1>1 DEF Session
  <2> HIDE DEF t
  <2>3. \A b \in t.base : /\ b \in mr_query
                          /\ t.rel = "Equivalence" => <<b.text, t.text>> \in Equivalents
    BY <1>4, <2>2 DEF EquivalentPast
  <2>4. QED  BY <1>1, <2>1, <2>2, <2>3, FoundKeeps DEF t
<1>7. CASE \E r \in DominantPast(s) :
             Goto(p, "base", [s EXCEPT !.rel = "Dominance", !.base = {r}, !.past = {}])
  <2>1. PICK r \in DominantPast(s) :
          Goto(p, "base", [s EXCEPT !.rel = "Dominance", !.base = {r}, !.past = {}])
    BY <1>7
  <2> DEFINE t == [s EXCEPT !.rel = "Dominance", !.base = {r}, !.past = {}]
  <2>2. /\ t.sound = s.sound /\ t.op = s.op /\ t.res = s.res /\ t.name = s.name
        /\ t.text = s.text /\ t.rs = {} /\ t.rel = "Dominance" /\ t.base = {r}
    BY <1>1 DEF Session
  <2> HIDE DEF t
  <2>3. \A b \in t.base : /\ b \in mr_query
                          /\ t.rel = "Equivalence" => <<b.text, t.text>> \in Equivalents
    BY <1>4, <2>2 DEF EquivalentPast
  <2>4. QED  BY <1>1, <2>1, <2>2, <2>3, FoundKeeps DEF t
<1>8. CASE \E B \in CombinedPast(s) :
             Goto(p, "base", [s EXCEPT !.rel = "Combination", !.base = B, !.past = {}])
  <2>1. PICK B \in CombinedPast(s) :
          Goto(p, "base", [s EXCEPT !.rel = "Combination", !.base = B, !.past = {}])
    BY <1>8
  <2> DEFINE t == [s EXCEPT !.rel = "Combination", !.base = B, !.past = {}]
  <2>2. /\ t.sound = s.sound /\ t.op = s.op /\ t.res = s.res /\ t.name = s.name
        /\ t.text = s.text /\ t.rs = {} /\ t.rel = "Combination" /\ t.base = B
    BY <1>1 DEF Session
  <2> HIDE DEF t
  <2>3. \A b \in t.base : /\ b \in mr_query
                          /\ t.rel = "Equivalence" => <<b.text, t.text>> \in Equivalents
    BY <1>5, <2>2 DEF EquivalentPast
  <2>4. QED  BY <1>1, <2>1, <2>2, <2>3, FoundKeeps DEF t
<1>9. CASE ToCreate(p, [s EXCEPT !.past = {}])
  <2> DEFINE t == [s EXCEPT !.past = {}]
  <2>1. /\ t.sound /\ t.op = "query" /\ t.res = t.name /\ t.name = s.name /\ t.rel = "None"
        /\ t \in Session
    BY <1>2 DEF Session
  <2> HIDE DEF t
  <2>2. ToCreate(p, t) /\ Dependent(t.name) = {} /\ ~ ReadsLazily(t)
    BY <1>2, <1>9, <2>1 DEF t, ReadsLazily
  <2>3. QED  BY <1>1, <2>1, <2>2, ToCreateKeeps
<1>10. CASE End(p)
  BY <1>1, <1>10, EndStep
<1>11. QED  BY <1>6, <1>7, <1>8, <1>9, <1>10 DEF Optimize

LEMMA OptimizeThrowsKeeps ==
  ASSUME IInv, NEW p \in Procs, OptimizeThrows(p), TypeOK'
  PROVE  IInv'
BY EndStep DEF OptimizeThrows, database

(* The name of a past minerule is looked up again: it finds the same row.  *)
LEMMA ReadBaseKeeps ==
  ASSUME IInv, NEW p \in Procs, ReadBase(p), TypeOK'
  PROVE  IInv'
<1>s. PICK s \in Session : s = sess[p]
  BY Here
<1> USE <1>s
<1>1. pc[p] = "base" /\ UNCHANGED <<mr_query, tables>>
  BY DEF ReadBase, database
<1>2. CASE End(p)
  BY <1>1, <1>2, EndStep
<1>3. ASSUME NEW b \in s.base, NEW r \in Named(b.name), NEW l \in {"count", "cursor"},
             Goto(p, l, [s EXCEPT !.src = r.res, !.base = {b}, !.rs = s.base \ {b}])
      PROVE  IInv'
  <2> DEFINE t == [s EXCEPT !.src = r.res, !.base = {b}, !.rs = s.base \ {b}]
  <2>1. /\ t.sound = s.sound /\ t.op = s.op /\ t.res = s.res /\ t.name = s.name
        /\ t.text = s.text /\ t.rel = s.rel
        /\ t.src = r.res /\ t.base = {b} /\ t.rs = s.base \ {b}
    BY DEF Session
  <2> HIDE DEF t
  <2>2. \A c \in s.base : Reusable(t, c)
    BY <1>1, <2>1, Here DEF Good, Reusable
  <2>3. r = b
    BY <2>2 DEF Named, Reusable, IInv, NamesUnique
  <2>4. Reading1(t) /\ \A c \in t.rs : Reusable(t, c)
    BY <2>1, <2>2, <2>3 DEF Reading1, Reusable
  <2>5. Good(l, t)
    BY <1>1, <2>1, <2>4, Here DEF Good, Early, Searching, Writing, Registering, Clear
  <2>6. QED  BY <1>1, <1>3, <2>5, ReadStep DEF t
<1>4. QED  BY <1>2, <1>3 DEF ReadBase

(* The tables of the past minerule a session reads hold its answer.        *)
LEMMA ReadingWhole ==
  ASSUME IInv, NEW s \in Session, Reading1(s)
  PROVE  /\ Faithful(s, Kinds)
         /\ \A K \in SUBSET Kinds : Faithful(s, K)
         /\ s.rel = "Equivalence" /\ s.text \in Texts => Whole(s.src, s.text)
         /\ \/ \E o \in mr_query : o.name = s.src /\ o.res = s.src
            \/ \E p \in Procs : pc[p] = "delete"
<1>1. PICK b \in mr_query : s.base = {b} /\ s.src = b.res /\ Reusable(s, b)
  BY DEF Reading1
<1>2. \A k \in Kinds : Answers(tables[b.res][k], b.text)
  BY <1>1 DEF IInv, Intact, Whole, Reusable
<1>3. b.text \in Texts
  BY DEF IInv, TypeOK, Row
<1>4. s.rel = "Equivalence" /\ s.text \in Texts => Whole(s.src, s.text)
  <2> SUFFICES ASSUME s.rel = "Equivalence", s.text \in Texts, NEW k \in Kinds
               PROVE  Answers(tables[b.res][k], s.text)
    BY <1>1 DEF Whole
  <2>1. <<b.text, s.text>> \in Equivalents
    BY <1>1 DEF Reusable
  <2>2. CASE tables[b.res][k] = b.text
    BY <2>1, <2>2 DEF Answers
  <2>3. CASE <<tables[b.res][k], b.text>> \in Equivalents
    BY <1>3, <2>1, <2>3, RelationsAssumption DEF Answers
  <2>4. QED  BY <1>2, <2>2, <2>3 DEF Answers
<1>5. \/ \E o \in mr_query : o.name = s.src /\ o.res = s.src
      \/ \E p \in Procs : pc[p] = "delete"
  BY <1>1 DEF IInv, OwnedOrDoomed, HasOwner
<1>6. QED  BY <1>1, <1>2, <1>4, <1>5 DEF Faithful

LEMMA CountBaseKeeps ==
  ASSUME IInv, NEW p \in Procs, CountBase(p), TypeOK'
  PROVE  IInv'
<1>s. PICK s \in Session : s = sess[p]
  BY Here
<1> USE <1>s
<1>1. pc[p] = "count" /\ UNCHANGED <<mr_query, tables>>
  BY DEF CountBase, database
<1>2. /\ s.sound /\ Dependent(s.name) = {} /\ Reading1(s) /\ s.text \in Texts
      /\ \A b \in s.rs : Reusable(s, b)
  BY <1>1, Here DEF Good, Searching, Clear
<1>3. CASE End(p)
  BY <1>1, <1>3, EndStep
<1>4. CASE s.rel = "Equivalence" /\ ToRegister(p, [s EXCEPT !.res = s.src, !.base = {}])
  <2> DEFINE t == [s EXCEPT !.res = s.src, !.base = {}]
  <2>1. /\ t \in Session /\ t.sound /\ t.name = s.name /\ t.text = s.text /\ t.res = s.src
    BY <1>2 DEF Session
  <2> HIDE DEF t
  <2>2. Whole(s.src, s.text) /\ \E o \in mr_query : o.name = s.src /\ o.res = s.src
    BY <1>1, <1>2, <1>4, ReadingWhole, AloneKept DEF IInv, Alone
  <2>3. Whole(t.res, t.text)'
    BY <1>1, <2>1, <2>2 DEF Whole
  <2>4. QED  BY <1>1, <1>2, <1>4, <2>1, <2>2, <2>3, ToRegisterKeeps DEF t
<1>5. CASE s.rel # "Equivalence" /\ Goto(p, "cursor", s)
  <2>1. Good("cursor", s)
    BY <1>1, <1>2, Here DEF Good, Early, Searching, Writing, Registering, Clear
  <2>2. QED  BY <1>1, <1>5, <2>1, ReadStep
<1>6. QED  BY <1>3, <1>4, <1>5 DEF CountBase

LEMMA OpenCursorKeeps ==
  ASSUME IInv, Careful, NEW p \in Procs, OpenCursor(p), TypeOK'
  PROVE  IInv'
<1>s. PICK s \in Session : s = sess[p]
  BY Here
<1> USE <1>s
<1> DEFINE t == [s EXCEPT !.sound = @ /\ Faithful(s, {"rules"})]
<1>1. pc[p] = "cursor" /\ UNCHANGED <<mr_query, tables>>
  BY DEF OpenCursor, database
<1>2. /\ s.sound /\ Dependent(s.name) = {} /\ Reading1(s)
      /\ s.op = "query" /\ s.res = s.name /\ ~ CacheWrites
      /\ \A b \in s.rs : Reusable(s, b)
  BY <1>1, Here DEF Good, Searching, Registering, Clear
<1>3. Faithful(s, {"rules"})
  BY <1>2, ReadingWhole DEF Kinds
<1>4. \/ End(p)
      \/ ReadsLazily(s) /\ ToCreate(p, t)
      \/ ~ ReadsLazily(s) /\ Goto(p, "elems", t)
  BY DEF OpenCursor
<1>5. /\ t \in Session /\ t.sound /\ t.op = s.op /\ t.res = s.res /\ t.name = s.name
      /\ t.text = s.text /\ t.rel = s.rel /\ t.base = s.base /\ t.src = s.src /\ t.rs = s.rs
  BY <1>2, <1>3 DEF Session
<1> HIDE DEF t
<1>6. /\ Reading1(t) /\ (\A b \in t.rs : Reusable(t, b))
      /\ (ReadsLazily(t) <=> ReadsLazily(s)) /\ Dependent(t.name) = {}
  BY <1>2, <1>5 DEF Reading1, Reusable, ReadsLazily
<1>7. CASE End(p)
  BY <1>1, <1>7, EndStep
<1>8. CASE ReadsLazily(s) /\ ToCreate(p, t)
  BY <1>1, <1>2, <1>5, <1>6, <1>8, ToCreateKeeps
<1>9. CASE ~ ReadsLazily(s) /\ Goto(p, "elems", t)
  <2>1. Good("elems", t)
    BY <1>2, <1>5, <1>6, <1>9 DEF Good, Early, Searching, Writing, Registering, Clear
  <2>2. QED  BY <1>1, <1>9, <2>1, ReadStep
<1>10. QED  BY <1>4, <1>7, <1>8, <1>9

LEMMA LoadElemsKeeps ==
  ASSUME IInv, Careful, NEW p \in Procs, LoadElems(p), TypeOK'
  PROVE  IInv'
<1>s. PICK s \in Session : s = sess[p]
  BY Here
<1> USE <1>s
<1> DEFINE t == [s EXCEPT !.sound = @ /\ Faithful(s, {"bodies", "heads"})]
           more == [t EXCEPT !.base = s.rs, !.rs = {}]
           done == [t EXCEPT !.base = {}]
<1>1. pc[p] = "elems" /\ UNCHANGED <<mr_query, tables>>
  BY DEF LoadElems, database
<1>2. /\ s.sound /\ Dependent(s.name) = {} /\ Reading1(s) /\ ~ ReadsLazily(s)
      /\ s.op = "query" /\ s.res = s.name /\ ~ CacheWrites
      /\ \A b \in s.rs : Reusable(s, b)
  BY <1>1, Here DEF Good, Searching, Registering, Clear
<1>3. Faithful(s, {"bodies", "heads"})
  BY <1>2, ReadingWhole DEF Kinds
<1>4. End(p) \/ Goto(p, "base", more) \/ ToCreate(p, done)
  BY DEF LoadElems
<1>5. /\ more.sound /\ more.op = s.op /\ more.res = s.res /\ more.name = s.name
      /\ more.text = s.text /\ more.rel = s.rel /\ more.base = s.rs /\ more.rs = {}
  BY <1>2, <1>3 DEF Session
<1>6. /\ done \in Session /\ done.sound /\ done.op = s.op /\ done.res = s.res
      /\ done.name = s.name /\ done.text = s.text /\ done.rel = s.rel
  BY <1>2, <1>3 DEF Session
<1> HIDE DEF t, more, done
<1>7. CASE End(p)
  BY <1>1, <1>7, EndStep
<1>8. CASE Goto(p, "base", more)
  <2>1. \A b \in more.base : Reusable(more, b)
    BY <1>2, <1>5 DEF Reusable
  <2>2. Good("base", more)
    BY <1>2, <1>5, <2>1 DEF Good, Early, Searching, Writing, Registering, Clear
  <2>3. QED  BY <1>1, <1>8, <2>2, ReadStep
<1>9. CASE ToCreate(p, done)
  <2>1. ~ ReadsLazily(done) /\ Dependent(done.name) = {}
    BY <1>2, <1>6 DEF ReadsLazily
  <2>2. QED  BY <1>1, <1>2, <1>6, <1>9, <2>1, ToCreateKeeps
<1>10. QED  BY <1>4, <1>7, <1>8, <1>9

-----------------------------------------------------------------------------
(* Creating and filling the tables: t does the work of s, a statement      *)
(* later.                                                                  *)
SameWork(s, t) ==
  /\ t.sound = s.sound /\ t.op = s.op /\ t.res = s.res /\ t.name = s.name
  /\ t.text = s.text /\ t.rel = s.rel /\ t.base = s.base /\ t.src = s.src

LEMMA WritingKept ==
  ASSUME IInv, NEW p \in Procs, NEW s \in Session, s = sess[p], pc[p] \in Writing,
         mr_query' = mr_query, NEW t, SameWork(s, t)
  PROVE  /\ t.sound /\ t.op = "query" /\ t.res = t.name /\ Dependent(t.name)' = {}
         /\ (ReadsLazily(t) => Reading1(t)') /\ (t.rel # "None" => ~ CacheWrites)
<1>1. /\ s.sound /\ s.op = "query" /\ s.res = s.name /\ Dependent(s.name) = {}
      /\ (ReadsLazily(s) => Reading1(s)) /\ (s.rel # "None" => ~ CacheWrites)
  BY Here DEF Good, Writing, Registering, Clear
<1>2. ReadsLazily(t) => Reading1(t)'
  BY <1>1 DEF SameWork, ReadsLazily, Reading1, Reusable
<1>3. QED  BY <1>1, <1>2 DEF SameWork, Dependent

LEMMA WritingStep ==
  ASSUME IInv, NEW p \in Procs, NEW s \in Session, s = sess[p], pc[p] \in Writing,
         mr_query' = mr_query, NEW t, SameWork(s, t), NEW l, Goto(p, l, t), TypeOK',
         \A m \in Names \ {s.name} : tables'[m] = tables[m],
         Good(l, t)', Filling'
  PROVE  IInv'
BY Here, UnseenStep DEF Good, Writing, Registering, Clear

(* The tables still to be created are not there.                           *)
LEMMA ProbeTableKeeps ==
  ASSUME IInv, NEW p \in Procs, ProbeTable(p), TypeOK'
  PROVE  IInv'
<1>s. PICK s \in Session : s = sess[p]
  BY Here
<1> USE <1>s
<1>1. pc[p] = "probe" /\ UNCHANGED <<mr_query, tables>>
  BY DEF ProbeTable, database
<1>2. Holding(s.name, Uncreated(s.kind), Absent, Empty)
  BY <1>1, Here DEF Good
<1>3. s.kind \in Uncreated(s.kind) /\ s.kind \in Kinds
  BY DEF Session, Kinds, Uncreated
<1>4. Goto(p, "create", s)
  BY <1>2, <1>3 DEF Holding, ProbeTable
<1>5. Good("create", s)
  BY <1>1, Here DEF Good, Early, Searching, Writing, Registering, Clear
<1>6. QED  BY <1>1, <1>4, <1>5, ReadStep

LEMMA CreateTableKeeps ==
  ASSUME IInv, NEW p \in Procs, CreateTable(p), TypeOK'
  PROVE  IInv'
<1>s. PICK s \in Session : s = sess[p]
  BY Here
<1> USE <1>s
<1>1. pc[p] = "create" /\ mr_query' = mr_query /\ pc[p] \in Writing
  BY DEF CreateTable, Writing
<1>2. Holding(s.name, Uncreated(s.kind), Absent, Empty)
  BY <1>1, Here DEF Good
<1>3. s.kind \in Uncreated(s.kind) /\ s.kind \in Kinds /\ s.name \in Names
  BY DEF Session, Kinds, Uncreated
<1>4. tables' = [tables EXCEPT ![s.name][s.kind] = Empty] /\ NextTable(p)
  BY <1>2, <1>3 DEF Holding, CreateTable
<1>5. /\ \A m \in Names \ {s.name} : tables'[m] = tables[m]
      /\ \A k \in Kinds : tables'[s.name][k] = IF k = s.kind THEN Empty ELSE tables[s.name][k]
  BY <1>3, <1>4 DEF IInv, TypeOK
<1>6. ASSUME NEW k \in Kinds, Goto(p, "probe", [s EXCEPT !.kind = k]),
             Uncreated(s.kind) = Uncreated(k) \cup {s.kind}, s.kind \notin Uncreated(k)
      PROVE  IInv'
  <2> DEFINE t == [s EXCEPT !.kind = k]
  <2>1. SameWork(s, t) /\ t.kind = k /\ t.name = s.name /\ t.text = s.text
    BY DEF SameWork, Session
  <2> HIDE DEF t
  <2>2. Holding(t.name, Uncreated(t.kind), Absent, Empty)'
    BY <1>2, <1>5, <1>6, <2>1 DEF Holding
  <2>3. Good("probe", t)'
    BY <1>1, <1>6, <2>1, <2>2, WritingKept DEF Good, Early, Searching, Writing, Registering, Clear
  <2>4. Filling'
    BY <1>1, <1>6, AloneKept DEF Filling, t
  <2>5. QED  BY <1>1, <1>5, <1>6, <2>1, <2>3, <2>4, WritingStep DEF t
<1>7. ASSUME Goto(p, AfterCreate(s), [s EXCEPT !.kind = "rules", !.list = "ga"]),
             Uncreated(s.kind) \cap Kinds = {s.kind}
      PROVE  IInv'
  <2> DEFINE t == [s EXCEPT !.kind = "rules", !.list = "ga"]
  <2>1. SameWork(s, t) /\ t.kind = "rules" /\ t.name = s.name /\ t.text = s.text
    BY DEF SameWork, Session
  <2> HIDE DEF t
  <2>2. Holding(t.name, Kinds, Empty, Empty)'
    BY <1>2, <1>5, <1>7, <2>1 DEF Holding
  <2>3. Holding(t.name, Ahead(t.kind), Empty, t.text)'
    BY <2>1, <2>2 DEF Holding, Ahead
  <2>4. AfterCreate(s) \in {"insert", "copy"}
    BY <1>1, Here DEF Good, Writing, AfterCreate
  <2>5. PICK l \in {"insert", "copy"} : l = AfterCreate(s)
    BY <2>4
  <2>6. Good(l, t)'
    BY <1>1, <2>1, <2>2, <2>3, WritingKept DEF Good, Early, Searching, Writing, Registering, Clear
  <2>7. Filling'
    BY <1>1, <1>7, <2>5, AloneKept DEF Filling, t
  <2>8. QED  BY <1>1, <1>5, <1>7, <2>1, <2>5, <2>6, <2>7, WritingStep DEF t
<1>8. \/ \E k \in Kinds :
           /\ Goto(p, "probe", [s EXCEPT !.kind = k])
           /\ Uncreated(s.kind) = Uncreated(k) \cup {s.kind} /\ s.kind \notin Uncreated(k)
      \/ /\ Goto(p, AfterCreate(s), [s EXCEPT !.kind = "rules", !.list = "ga"])
         /\ Uncreated(s.kind) \cap Kinds = {s.kind}
  BY <1>2, <1>4 DEF NextTable, Kinds, Uncreated
<1>9. QED  BY <1>6, <1>7, <1>8

(* The first rows go into empty tables.                                    *)
LEMMA FirstInsertsKeeps ==
  ASSUME IInv, NEW p \in Procs, FirstInserts(p), TypeOK'
  PROVE  IInv'
<1>s. PICK s \in Session : s = sess[p]
  BY Here
<1> USE <1>s
<1>1. pc[p] = "insert" /\ mr_query' = mr_query /\ pc[p] \in Writing
  BY DEF FirstInserts, Writing
<1>2. Holding(s.name, Kinds, Empty, Empty)
  BY <1>1, Here DEF Good
<1>3. s.name \in Names /\ SameWork(s, s) /\ Dependent(s.name) = {}
  BY <1>1, Here DEF Session, SameWork, Good, Clear, Writing
<1>4. CASE End(p) /\ \A m \in Names \ {s.name} : tables'[m] = tables[m]
  <2>1. Filling'
    BY <1>1, <1>4, AloneKept DEF Filling, End
  <2>2. QED  BY <1>1, <1>3, <1>4, <2>1, UnseenStep, IdleIsGoodNext DEF End
<1>5. CASE /\ Goto(p, "fill", s)
           /\ tables' = [tables EXCEPT ![s.name] = [k \in Kinds |-> Begun(@[k], p)]]
  <2>1. \A k \in Kinds : tables'[s.name][k] = p
    BY <1>2, <1>3, <1>5 DEF Holding, Begun, IInv, TypeOK
  <2>2. Filling'
    BY <1>1, <1>5, <2>1, AloneKept DEF Filling
  <2>3. Good("fill", s)'
    BY <1>1, <1>3, WritingKept DEF Good, Early, Searching, Writing, Registering, Clear
  <2>4. \A m \in Names \ {s.name} : tables'[m] = tables[m]
    BY <1>3, <1>5 DEF IInv, TypeOK
  <2>5. QED  BY <1>1, <1>3, <1>5, <2>2, <2>3, <2>4, WritingStep
<1>6. QED  BY <1>4, <1>5 DEF FirstInserts

(* The last rows make the tables the whole answer of the session's text.   *)
LEMMA LastInsertsKeeps ==
  ASSUME IInv, NEW p \in Procs, LastInserts(p), TypeOK'
  PROVE  IInv'
<1>s. PICK s \in Session : s = sess[p]
  BY Here
<1> USE <1>s
<1>1. pc[p] = "fill" /\ mr_query' = mr_query
  BY DEF LastInserts
<1>2. \A k \in Kinds : tables[s.name][k] = p
  BY <1>1 DEF IInv, Filling
<1>3. /\ s.name \in Names /\ Dependent(s.name) = {} /\ s.sound /\ s.res = s.name
      /\ (ReadsLazily(s) => Reading1(s))
  BY <1>1, Here DEF Good, Clear, Writing, Registering
<1>4. ReadsLazily(s) => Faithful(s, {"bodies", "heads"})
  BY <1>3, ReadingWhole DEF Kinds
<1>5. CASE End(p) /\ UNCHANGED tables
  BY <1>1, <1>5, EndStep
<1>6. CASE /\ tables' = [tables EXCEPT ![s.name] = [k \in Kinds |-> Ended(@[k], p, s.text)]]
           /\ ToRegister(p, s)
  <2>1. \A m \in Names \ {s.name} : tables'[m] = tables[m]
    BY <1>3, <1>6 DEF IInv, TypeOK
  <2>2. \A k \in Kinds : tables'[s.name][k] = s.text
    BY <1>2, <1>3, <1>6 DEF Ended, IInv, TypeOK
  <2>3. Whole(s.res, s.text)'
    BY <1>3, <2>2 DEF Whole, Answers, Kinds
  <2>4. QED  BY <1>1, <1>3, <1>6, <2>1, <2>3, ToRegisterKeeps
<1>7. QED  BY <1>3, <1>4, <1>5, <1>6 DEF LastInserts

(* Each COPY fills one empty table.                                        *)
LEMMA CopyTableKeeps ==
  ASSUME IInv, NEW p \in Procs, CopyTable(p), TypeOK'
  PROVE  IInv'
<1>s. PICK s \in Session : s = sess[p]
  BY Here
<1> USE <1>s
<1>1. pc[p] = "copy" /\ mr_query' = mr_query /\ pc[p] \in Writing
  BY DEF CopyTable, Writing
<1>2. Holding(s.name, Ahead(s.kind), Empty, s.text)
  BY <1>1, Here DEF Good
<1>3. /\ s.name \in Names /\ s.text \in Texts /\ s.kind \in Kinds /\ s.kind \in Ahead(s.kind)
      /\ SameWork(s, s) /\ Dependent(s.name) = {} /\ s.sound /\ s.res = s.name
  BY <1>1, Here DEF Session, SameWork, Ahead, Kinds, Good, Clear, Writing, Registering
<1>4. CASE tables[s.name][s.kind] = Absent /\ End(p) /\ UNCHANGED tables
  BY <1>1, <1>4, EndStep
<1>5. CASE /\ tables[s.name][s.kind] # Absent
           /\ tables' = [tables EXCEPT ![s.name][s.kind] = Ended(Begun(@, p), p, s.text)]
  <2>1. tables[s.name][s.kind] = Empty
    BY <1>2, <1>3, <1>5 DEF Holding
  <2>2. /\ \A m \in Names \ {s.name} : tables'[m] = tables[m]
        /\ \A k \in Kinds : tables'[s.name][k] = IF k = s.kind THEN s.text ELSE tables[s.name][k]
    BY <1>3, <1>5, <2>1 DEF IInv, TypeOK, Ended, Begun
  <2>3. ASSUME NEW k \in Kinds, Goto(p, "copy", [s EXCEPT !.kind = k]),
               Ahead(k) = Ahead(s.kind) \ {s.kind}
        PROVE  IInv'
    <3> DEFINE t == [s EXCEPT !.kind = k]
    <3>1. SameWork(s, t) /\ t.kind = k /\ t.name = s.name /\ t.text = s.text
      BY DEF SameWork, Session
    <3> HIDE DEF t
    <3>2. Holding(t.name, Ahead(t.kind), Empty, t.text)'
      BY <1>2, <2>1, <2>2, <2>3, <3>1 DEF Holding
    <3>3. Good("copy", t)'
      BY <1>1, <3>1, <3>2, WritingKept DEF Good, Early, Searching, Writing, Registering, Clear
    <3>4. Filling'
      BY <1>1, <2>3, AloneKept DEF Filling, t
    <3>5. QED  BY <1>1, <2>2, <2>3, <3>1, <3>3, <3>4, WritingStep DEF t
  <2>4. CASE s.kind = "bodies" /\ ToRegister(p, s)
    <3>1. \A k \in Kinds : tables'[s.name][k] = s.text
      BY <1>2, <2>2, <2>4 DEF Holding, Ahead, Kinds
    <3>2. Whole(s.res, s.text)'
      BY <1>3, <3>1 DEF Whole, Answers
    <3>3. QED  BY <1>1, <1>3, <2>2, <2>4, <3>2, ToRegisterKeeps
  <2>5. \/ \E k \in Kinds : /\ Goto(p, "copy", [s EXCEPT !.kind = k])
                            /\ Ahead(k) = Ahead(s.kind) \ {s.kind}
        \/ s.kind = "bodies" /\ ToRegister(p, s)
    BY <1>5 DEF CopyTable, Kinds, Ahead
  <2>6. QED  BY <2>3, <2>4, <2>5
<1>6. QED  BY <1>4, <1>5 DEF CopyTable

-----------------------------------------------------------------------------
(* Registering.                                                            *)
LEMMA IdKeeps ==
  ASSUME IInv, NEW p \in Procs, SelectId(p) \/ UpdateId(p) \/ InsertList(p), TypeOK'
  PROVE  IInv'
<1>s. PICK s \in Session : s = sess[p]
  BY Here
<1> USE <1>s
<1>1. pc[p] \in Registering /\ UNCHANGED <<mr_query, tables>>
  BY DEF SelectId, UpdateId, InsertList, database, Registering
<1>2. ASSUME NEW l \in Registering, NEW t, Goto(p, l, t),
             t.sound = s.sound, t.name = s.name, t.text = s.text, t.res = s.res
      PROVE  IInv'
  <2>1. /\ s.sound /\ Dependent(s.name) = {} /\ Whole(s.res, s.text)
        /\ s.res = s.name \/ \E o \in mr_query : o.name = s.res /\ o.res = s.res
    BY <1>1, Here DEF Good, Clear, Registering
  <2>2. Good(l, t)
    BY <1>2, <2>1 DEF Good, Early, Searching, Writing, Registering, Clear
  <2>3. QED  BY <1>1, <1>2, <2>2, ReadStep DEF Registering
<1>3. CASE SelectId(p)
  <2> DEFINE t == [s EXCEPT !.id = NewValue(CounterOf(s))]
  <2>1. t.sound = s.sound /\ t.name = s.name /\ t.text = s.text /\ t.res = s.res
    BY DEF Session
  <2>2. Goto(p, "update", t)
    BY <1>3 DEF SelectId
  <2> HIDE DEF t
  <2>3. QED  BY <1>2, <2>1, <2>2 DEF Registering
<1>4. CASE UpdateId(p)
  BY <1>2, <1>4 DEF UpdateId, Registering
<1>5. CASE InsertList(p)
  <2> DEFINE t == [s EXCEPT !.lists[s.list] = s.id, !.list = NextList(s)]
  <2>1. t.sound = s.sound /\ t.name = s.name /\ t.text = s.text /\ t.res = s.res
    BY DEF Session
  <2>2. Goto(p, "select", t)
    BY <1>5 DEF InsertList
  <2> HIDE DEF t
  <2>3. QED  BY <1>2, <2>1, <2>2 DEF Registering
<1>6. QED  BY <1>3, <1>4, <1>5

(* The new row has a fresh id and a fresh name, and a result that is whole *)
(* and its own or that of an owner.                                        *)
LEMMA InsertQueryKeeps ==
  ASSUME IInv, NEW p \in Procs, InsertQuery(p), TypeOK'
  PROVE  IInv'
<1>s. PICK s \in Session : s = sess[p]
  BY Here
<1> USE <1>s
<1>1. pc[p] = "store" /\ UNCHANGED tables /\ End(p)
  BY DEF InsertQuery
<1>2. /\ Dependent(s.name) = {} /\ Whole(s.res, s.text)
      /\ s.res = s.name \/ \E o \in mr_query : o.name = s.res /\ o.res = s.res
  BY <1>1, Here DEF Good, Clear, Registering
<1>3. CASE UNCHANGED mr_query
  BY <1>1, <1>3, EndStep
<1>4. CASE /\ \A r \in mr_query : r.id # s.id
           /\ mr_query' = mr_query \cup {[id |-> s.id, name |-> s.name, text |-> s.text,
                                          res |-> s.res, lists |-> s.lists]}
  <2>1. PICK v : /\ v.id = s.id /\ v.name = s.name /\ v.text = s.text /\ v.res = s.res
                 /\ mr_query' = mr_query \cup {v}
    BY <1>4
  <2>2. IdsUnique'
    BY <1>4, <2>1 DEF IInv, IdsUnique
  <2>3. NamesUnique'
    BY <1>2, <2>1 DEF IInv, NamesUnique, Dependent
  <2>4. Intact'
    BY <1>1, <1>2, <2>1 DEF IInv, Intact, Whole
  <2>5. \A r \in mr_query : HasOwner(r)
    BY <1>1, AloneKept DEF IInv, OwnedOrDoomed, End
  <2>6. \A r \in mr_query' : HasOwner(r)'
    BY <1>2, <2>1, <2>5 DEF HasOwner
  <2>7. Alone' /\ Filling'
    BY <1>1, AloneKept DEF Filling, End
  <2>8. (\A q \in Procs : Good(pc[q], sess[q]))'
    BY <1>1, GoodKept, IdleIsGoodNext DEF End
  <2>9. QED  BY <2>2, <2>3, <2>4, <2>6, <2>7, <2>8 DEF IInv, OwnedOrDoomed
<1>5. QED  BY <1>3, <1>4 DEF InsertQuery

LEMMA LookupOriginalKeeps ==
  ASSUME IInv, NEW p \in Procs, LookupOriginal(p), TypeOK'
  PROVE  IInv'
<1>s. PICK s \in Session : s = sess[p]
  BY Here
<1> USE <1>s
<1>1. pc[p] = "original" /\ UNCHANGED <<mr_query, tables>>
  BY DEF LookupOriginal, database
<1>2. CASE End(p)
  BY <1>1, <1>2, EndStep
<1>3. ASSUME NEW r \in Named(s.orig), Goto(p, "derived", [s EXCEPT !.text = r.text])
      PROVE  IInv'
  <2> DEFINE t == [s EXCEPT !.text = r.text]
  <2>1. /\ t.sound = s.sound /\ t.op = s.op /\ t.res = s.res /\ t.name = s.name
        /\ t.text = r.text
    BY DEF Session
  <2> HIDE DEF t
  <2>2. Whole(s.name, r.text)
    BY <1>1, Here DEF Good
  <2>3. Good("derived", t)
    BY <1>1, <2>1, <2>2, Here DEF Good, Early, Searching, Writing, Registering, Clear
  <2>4. QED  BY <1>1, <1>3, <2>3, ReadStep DEF t
<1>4. QED  BY <1>2, <1>3 DEF LookupOriginal

LEMMA LookupDerivedKeeps ==
  ASSUME IInv, NEW p \in Procs, LookupDerived(p), TypeOK'
  PROVE  IInv'
<1>s. PICK s \in Session : s = sess[p]
  BY Here
<1> USE <1>s
<1>1. pc[p] = "derived" /\ UNCHANGED <<mr_query, tables>>
  BY DEF LookupDerived, database
<1>2. /\ s.sound /\ Dependent(s.name) = {} /\ s.res = s.name /\ Whole(s.name, s.text)
  BY <1>1, Here DEF Good, Clear, Registering
<1>3. Whole(s.res, s.text)'
  BY <1>1, <1>2 DEF Whole
<1>4. QED  BY <1>1, <1>2, <1>3, EndStep, ToRegisterKeeps DEF LookupDerived

(* A program that is killed: never while it deletes several rows.          *)
LEMMA CrashKeeps ==
  ASSUME IInv, Careful, NEW p \in Procs, Crash(p), TypeOK'
  PROVE  IInv'
<1>1. End(p) /\ pc[p] # "idle" /\ UNCHANGED <<mr_query, tables>> /\ ~ Cascade
  BY DEF Crash, Careful, database
<1>2. CASE pc[p] # "delete"
  BY <1>1, <1>2, EndStep
<1>3. CASE pc[p] = "delete"
  <2>1. \A r \in mr_query : HasOwner(r)
    BY <1>1 DEF IInv, OwnedOrDoomed
  <2>2. OwnedOrDoomed'
    BY <1>1, <2>1 DEF OwnedOrDoomed, HasOwner
  <2>3. IdsUnique' /\ NamesUnique' /\ Intact'
    BY <1>1 DEF IInv, IdsUnique, NamesUnique, Intact, Whole
  <2>4. Alone' /\ Filling'
    BY <1>1, AloneKept DEF Filling, End
  <2>5. (\A q \in Procs : Good(pc[q], sess[q]))'
    BY <1>1, GoodKept, IdleIsGoodNext DEF End
  <2>6. QED  BY <2>2, <2>3, <2>4, <2>5 DEF IInv
<1>4. QED  BY <1>2, <1>3

-----------------------------------------------------------------------------
(* The invariant and what follows from it.                                 *)
LEMMA InitIInv == Init => IInv
<1> SUFFICES ASSUME Init PROVE IInv
  OBVIOUS
<1>1. TypeOK
  BY TypeInit
<1>2. Alone /\ Filling /\ \A p \in Procs : Good(pc[p], sess[p])
  BY IdleIsGood DEF Init, Alone, Filling
<1>3. IdsUnique /\ NamesUnique /\ OwnedOrDoomed /\ Intact
  BY DEF Init, IdsUnique, NamesUnique, OwnedOrDoomed, Intact
<1>4. QED  BY <1>1, <1>2, <1>3 DEF IInv

LEMMA StepIInv == Careful /\ IInv /\ [Next]_vars => IInv'
<1> SUFFICES ASSUME Careful, IInv, [Next]_vars PROVE IInv'
  OBVIOUS
<1>1. TypeOK'
  BY TypeStep DEF IInv
<1>2. CASE UNCHANGED vars
  BY <1>1, <1>2
  DEF vars, IInv, Alone, IdsUnique, NamesUnique, OwnedOrDoomed, HasOwner, Intact, Whole,
      Filling, Good, Dependent, Named, Holding, Reusable, Reading1
<1>3. ASSUME NEW p \in Procs, Start(p) \/ Step(p) \/ Crash(p)  PROVE IInv'
  BY <1>1, <1>3, StartKeeps, CheckHomonymKeeps, LookupDeletedKeeps, SelectVictimsKeeps,
     DeleteRowKeeps, DropTableKeeps, ReadCatalogueKeeps, CountPastKeeps, OptimizeKeeps,
     OptimizeThrowsKeeps, ReadBaseKeeps, CountBaseKeeps, OpenCursorKeeps, LoadElemsKeeps,
     ProbeTableKeeps, CreateTableKeeps, FirstInsertsKeeps, LastInsertsKeeps, CopyTableKeeps,
     IdKeeps, InsertQueryKeeps, LookupOriginalKeeps, LookupDerivedKeeps, CrashKeeps
  DEF Step
<1>4. QED  BY <1>2, <1>3 DEF Next

(* Careful users keep the inductive invariant.                             *)
THEOREM Inductive == Careful => (Spec => []IInv)
<1> SUFFICES ASSUME Careful PROVE Spec => []IInv
  OBVIOUS
<1>1. Init => IInv
  BY InitIInv
<1>2. IInv /\ [Next]_vars => IInv'
  BY StepIInv
<1>3. QED  BY <1>1, <1>2, PTL DEF Spec

(* With one program at a time, homonyms overwritten, past results not      *)
(* reused when writes are cached and no program killed while it deletes a  *)
(* cascade, every row of mr_query always has its result tables, and they   *)
(* hold the answer of its text and nothing else.                           *)
THEOREM AnswersWhole == Careful => (Spec => []Intact)
<1> SUFFICES ASSUME Careful PROVE Spec => []Intact
  OBVIOUS
<1>1. IInv => Intact
  BY DEF IInv
<1>2. Spec => []IInv
  BY Inductive
<1>3. QED  BY <1>1, <1>2, PTL

(* For careful users no two rows have the same name, and the result of a   *)
(* row is that of a row catalogued under the name of the result, except    *)
(* while a session is deleting all the rows that share it.                 *)
THEOREM RowsOwned == Careful => (Spec => [](NamesUnique /\ Owned))
<1> SUFFICES ASSUME Careful PROVE Spec => [](NamesUnique /\ Owned)
  OBVIOUS
<1>1. IInv => NamesUnique /\ Owned
  BY DEF IInv, OwnedOrDoomed, Owned, HasOwner
<1>2. Spec => []IInv
  BY Inductive
<1>3. QED  BY <1>1, <1>2, PTL

-----------------------------------------------------------------------------
(* What the inductive invariant means for those who read results: which    *)
(* rows and tables a step may change, and that the catalogue with its      *)
(* tables implements the dictionary of AnswerStore.                        *)

(* Only two statements change the rows.                                    *)
LEMMA RowsTouched ==
  ASSUME [Next]_vars
  PROVE  mr_query' = mr_query \/ \E p \in Procs : DeleteRow(p) \/ InsertQuery(p)
<1>1. CASE UNCHANGED vars
  BY <1>1 DEF vars
<1>2. ASSUME NEW p \in Procs, Start(p) \/ Step(p) \/ Crash(p), ~ DeleteRow(p), ~ InsertQuery(p)
      PROVE  mr_query' = mr_query
  BY <1>2
  DEF Start, StartQuery, StartDelete, StartDerive, Step, Crash, database, CheckHomonym,
      LookupDeleted, SelectVictims, DropTable, ReadCatalogue, CountPast, Optimize,
      OptimizeThrows, ReadBase, CountBase, OpenCursor, LoadElems, ProbeTable, CreateTable,
      FirstInserts, LastInserts, CopyTable, SelectId, UpdateId, InsertList, LookupOriginal,
      LookupDerived
<1>3. QED  BY <1>1, <1>2 DEF Next

(* The tables that change are those of the session, or of a result that a  *)
(* user is about to register as a derived one.                             *)
LEMMA TablesTouched ==
  ASSUME TypeOK, [Next]_vars
  PROVE  \/ tables' = tables
         \/ \E d \in Names : /\ "derive" \in Commands /\ Dependent(d) = {}
                           /\ \A m \in Names \ {d} : tables'[m] = tables[m]
         \/ \E p \in Procs : /\ pc[p] \in Clear
                           /\ \A m \in Names \ {sess[p].name} : tables'[m] = tables[m]
<1>1. CASE UNCHANGED vars
  BY <1>1 DEF vars
<1>2. ASSUME NEW p \in Procs, Start(p)
      PROVE  \/ tables' = tables
             \/ \E d \in Names : /\ "derive" \in Commands /\ Dependent(d) = {}
                               /\ \A m \in Names \ {d} : tables'[m] = tables[m]
  BY <1>2, OptionsAssumption
  DEF Start, StartQuery, StartDelete, StartDerive, MayStart, database, TypeOK
<1>3. ASSUME NEW p \in Procs,
             \/ DropTable(p) \/ CreateTable(p) \/ FirstInserts(p)
             \/ LastInserts(p) \/ CopyTable(p)
      PROVE  pc[p] \in Clear /\ \A m \in Names \ {sess[p].name} : tables'[m] = tables[m]
  <2>1. pc[p] \in Clear
    BY <1>3 DEF DropTable, CreateTable, FirstInserts, LastInserts, CopyTable, Writing, Clear
  <2>2. sess[p].name \in Names
    BY DEF TypeOK, Session
  <2>3. \A m \in Names \ {sess[p].name} : tables'[m] = tables[m]
    BY <1>3, <2>2
    DEF DropTable, CreateTable, FirstInserts, LastInserts, CopyTable, TypeOK
  <2>4. QED  BY <2>1, <2>3
<1>4. ASSUME NEW p \in Procs, Step(p) \/ Crash(p),
             ~ DropTable(p), ~ CreateTable(p), ~ FirstInserts(p), ~ LastInserts(p),
             ~ CopyTable(p)
      PROVE  tables' = tables
  BY <1>4
  DEF Step, Crash, database, CheckHomonym, LookupDeleted, SelectVictims, DeleteRow,
      ReadCatalogue, CountPast, Optimize, OptimizeThrows, ReadBase, CountBase, OpenCursor,
      LoadElems, ProbeTable, SelectId, UpdateId, InsertList, InsertQuery, LookupOriginal,
      LookupDerived
<1>5. QED  BY <1>1, <1>2, <1>3, <1>4 DEF Next

LEMMA RowInserted ==
  ASSUME NEW p \in Procs, sess[p] \in Session, Named(sess[p].name) = {}, InsertQuery(p)
  PROVE  \/ mr_query' = mr_query
         \/ \E v \in Row : /\ Named(v.name) = {} /\ v.name = sess[p].name
                          /\ mr_query' = mr_query \cup {v}
<1>s. PICK s \in Session : s = sess[p]
  OBVIOUS
<1> DEFINE v == [id |-> s.id, name |-> s.name, text |-> s.text, res |-> s.res, lists |-> s.lists]
<1>1. v \in Row /\ v.name = s.name
  BY DEF Row, Session
<1>2. mr_query' = mr_query \/ mr_query' = mr_query \cup {v}
  BY <1>s DEF InsertQuery
<1>3. QED  BY <1>s, <1>1, <1>2

(* The rows a step removes or adds: one row at most.                       *)
LEMMA RowsChange ==
  ASSUME IInv, [Next]_vars
  PROVE  \/ mr_query' = mr_query
         \/ \E p \in Procs : \E v \in sess[p].rs :
              /\ pc[p] = "delete"
              /\ v \in mr_query /\ mr_query' = mr_query \ {v}
         \/ \E v \in Row : Named(v.name) = {} /\ mr_query' = mr_query \cup {v}
<1>1. ASSUME NEW p \in Procs, DeleteRow(p)
      PROVE  /\ pc[p] = "delete"
             /\ \E v \in sess[p].rs : v \in mr_query /\ mr_query' = mr_query \ {v}
  <2>1. pc[p] = "delete" /\ sess[p].rs = Dependent(sess[p].name)
    BY <1>1, Here DEF Good, DeleteRow
  <2>2. PICK v \in sess[p].rs : mr_query' = {r \in mr_query : r.id # v.id}
    BY <1>1 DEF DeleteRow
  <2>3. v \in mr_query /\ mr_query' = mr_query \ {v}
    BY <2>1, <2>2 DEF Dependent, IInv, IdsUnique
  <2>4. QED  BY <2>1, <2>3
<1>2. ASSUME NEW p \in Procs, InsertQuery(p)
      PROVE  \/ mr_query' = mr_query
             \/ \E v \in Row : Named(v.name) = {} /\ mr_query' = mr_query \cup {v}
  <2>1. sess[p] \in Session /\ Named(sess[p].name) = {}
    BY <1>2, Here DEF Good, Clear, Registering, InsertQuery, Dependent, Named
  <2>2. QED  BY <1>2, <2>1, RowInserted
<1>3. QED  BY <1>1, <1>2, RowsTouched

(* The tables a step changes: those of one name that no row points to.     *)
LEMMA TablesChange ==
  ASSUME IInv, [Next]_vars
  PROVE  \E n \in Names :
           \/ tables' = tables
           \/ Dependent(n) = {} /\ \A m \in Names \ {n} : tables'[m] = tables[m]
<1>1. TypeOK
  BY DEF IInv
<1>2. \A p \in Procs : pc[p] \in Clear => Dependent(sess[p].name) = {} /\ sess[p].name \in Names
  BY Here DEF Good
<1>3. QED  BY <1>1, <1>2, TablesTouched, TextsAssumption

(* Careful users never see the tables of a catalogued result change.       *)
THEOREM ResultsUntouched == Careful => (Spec => ResultsStable)
<1> SUFFICES ASSUME Careful PROVE Spec => ResultsStable
  OBVIOUS
<1>1. IInv /\ [Next]_vars => \A r \in mr_query \cap mr_query' : tables'[r.res] = tables[r.res]
  <2> SUFFICES ASSUME IInv, [Next]_vars, NEW r \in mr_query
               PROVE  tables'[r.res] = tables[r.res]
    OBVIOUS
  <2>1. r.res \in Names
    BY DEF IInv, TypeOK, Row
  <2>2. \A n \in Names : Dependent(n) = {} => r.res # n
    BY DEF Dependent
  <2>3. QED  BY <2>1, <2>2, TablesChange
<1>2. Spec => []IInv
  BY Inductive
<1>3. QED  BY <1>1, <1>2, PTL DEF Spec, ResultsStable

(* For careful users who do not allow cascades, no minerule goes whose     *)
(* result another minerule uses.                                           *)
THEOREM SharedRefused == Careful => (Spec => RefusesShared)
<1> SUFFICES ASSUME Careful PROVE Spec => RefusesShared
  OBVIOUS
<1>1. IInv /\ [Next]_vars =>
        (~ Cascade => \A r \in mr_query \ mr_query' :
                        \A o \in mr_query : o.res = r.name => o.name = r.name)
  <2> SUFFICES ASSUME IInv, [Next]_vars, ~ Cascade, NEW r \in mr_query, r \notin mr_query',
                      NEW o \in mr_query, o.res = r.name
               PROVE  o.name = r.name
    OBVIOUS
  <2>1. PICK p \in Procs : pc[p] = "delete" /\ r \in sess[p].rs
    BY RowsChange
  <2>2. /\ sess[p].rs = Dependent(sess[p].name)
        /\ \A v, w \in sess[p].rs : v = w
    BY <2>1, Here DEF Good
  <2>3. HasOwner(r)
    BY DEF IInv, OwnedOrDoomed
  <2>4. r.name = sess[p].name
    BY <2>1, <2>2, <2>3 DEF HasOwner, Dependent
  <2>5. o \in sess[p].rs
    BY <2>2, <2>4 DEF Dependent
  <2>6. QED  BY <2>1, <2>2, <2>5
<1>2. Spec => []IInv
  BY Inductive
<1>3. QED  BY <1>1, <1>2, PTL DEF Spec, RefusesShared

-----------------------------------------------------------------------------
(* The refinement.                                                         *)

(* Reading a name yields the text of its only row.                         *)
LEMMA ReadingRow ==
  ASSUME NamesUnique, Intact, NEW r \in mr_query
  PROVE  Reading(r.name) = r.text
<1>1. Named(r.name) = {r}
  BY DEF Named, NamesUnique
<1>2. Whole(r.res, r.text)
  BY DEF Intact
<1>3. QED  BY <1>1, <1>2 DEF Reading

LEMMA ReadingNothing ==
  ASSUME NEW n, \A r \in mr_query : r.name # n
  PROVE  Reading(n) = Absent
BY DEF Reading, Named

LEMMA ReadingKept ==
  ASSUME NamesUnique, Intact, NamesUnique', Intact', NEW n,
         \A r \in mr_query \cup mr_query' : r.name = n => r \in mr_query \cap mr_query'
  PROVE  Reading(n)' = Reading(n)
<1>1. CASE \E r \in mr_query : r.name = n
  <2>1. PICK r \in mr_query : r.name = n /\ r \in mr_query'
    BY <1>1
  <2>2. Reading(r.name) = r.text
    BY ReadingRow
  <2>3. Reading(n)' = r.text
    <3>1. Named(n)' = {r}
      BY <2>1 DEF Named, NamesUnique
    <3>2. Whole(r.res, r.text)'
      BY <2>1 DEF Intact
    <3>3. QED  BY <3>1, <3>2 DEF Reading
  <2>4. QED  BY <2>1, <2>2, <2>3
<1>2. CASE ~ \E r \in mr_query : r.name = n
  <2>1. Reading(n) = Absent
    BY <1>2, ReadingNothing
  <2>2. Reading(n)' = Absent
    BY <1>2 DEF Reading, Named
  <2>3. QED  BY <2>1, <2>2
<1>3. QED  BY <1>1, <1>2

(* Where rows have names of their own and whole results, one row more is   *)
(* an answer published, one less an answer withdrawn.                      *)
LEMMA StoreStep ==
  ASSUME TypeOK, NamesUnique, Intact, NamesUnique', Intact',
         \/ mr_query' = mr_query
         \/ \E v \in mr_query : mr_query' = mr_query \ {v}
         \/ \E v \in Row : Named(v.name) = {} /\ mr_query' = mr_query \cup {v}
  PROVE  [Store!Next]_[n \in Names |-> Reading(n)]
<1>1. CASE mr_query' = mr_query
  <2>1. \A n \in Names : Reading(n)' = Reading(n)
    BY <1>1, ReadingKept
  <2>2. QED  BY <2>1
<1>2. CASE \E v \in mr_query : mr_query' = mr_query \ {v}
  <2>1. PICK v \in mr_query : mr_query' = mr_query \ {v}
    BY <1>2
  <2>2. v.name \in Names /\ v.text \in Texts /\ Absent \notin Texts
    BY ContentsAssumption DEF TypeOK, Row
  <2>3. Reading(v.name) = v.text
    BY ReadingRow
  <2>4. Reading(v.name)' = Absent
    <3>1. Named(v.name)' = {}
      BY <2>1 DEF Named, NamesUnique
    <3>2. QED  BY <3>1 DEF Reading
  <2>5. \A n \in Names \ {v.name} : Reading(n)' = Reading(n)
    BY <2>1, ReadingKept
  <2>6. Store!Withdraw(v.name)
    BY <2>2, <2>3, <2>4, <2>5 DEF Store!Withdraw
  <2>7. QED  BY <2>2, <2>6 DEF Store!Next
<1>3. CASE \E v \in Row : Named(v.name) = {} /\ mr_query' = mr_query \cup {v}
  <2>1. PICK v \in Row : Named(v.name) = {} /\ mr_query' = mr_query \cup {v}
    BY <1>3
  <2>2. v.name \in Names /\ v.text \in Texts
    BY DEF Row
  <2>3. Reading(v.name) = Absent
    BY <2>1 DEF Reading
  <2>4. Reading(v.name)' = v.text
    <3>1. Named(v.name)' = {v}
      BY <2>1 DEF Named
    <3>2. Whole(v.res, v.text)'
      BY <2>1 DEF Intact
    <3>3. QED  BY <3>1, <3>2 DEF Reading
  <2>5. \A n \in Names \ {v.name} : Reading(n)' = Reading(n)
    BY <2>1, ReadingKept
  <2>6. Store!Publish(v.name, v.text)
    BY <2>2, <2>3, <2>4, <2>5 DEF Store!Publish
  <2>7. QED  BY <2>2, <2>6 DEF Store!Next
<1>4. QED  BY <1>1, <1>2, <1>3

LEMMA StoreInit == Init => Store!Init
BY DEF Init, Store!Init, Reading, Named

(* The catalogue of careful users is a dictionary of answers: every        *)
(* statement publishes one whole answer under a free name, withdraws one,  *)
(* or changes nothing a reader can see.                                    *)
THEOREM StoreImplemented == Careful => (Spec => ImplementsStore)
<1> SUFFICES ASSUME Careful PROVE Spec => ImplementsStore
  OBVIOUS
<1>1. IInv /\ IInv' /\ [Next]_vars => [Store!Next]_[n \in Names |-> Reading(n)]
  <2> SUFFICES ASSUME IInv, IInv', [Next]_vars
               PROVE  [Store!Next]_[n \in Names |-> Reading(n)]
    OBVIOUS
  <2>1. TypeOK /\ NamesUnique /\ Intact /\ NamesUnique' /\ Intact'
    BY DEF IInv
  <2>2. QED  BY <2>1, RowsChange, StoreStep
<1>2. Spec => []IInv
  BY Inductive
<1>3. QED  BY <1>1, <1>2, StoreInit, PTL DEF Spec, ImplementsStore, Store!Spec

-----------------------------------------------------------------------------
(* Programs that run at the same time, on names of their own.              *)

LEMMA ApartHere ==
  ASSUME ApartInv, NEW p \in Procs
  PROVE  /\ sess[p] \in Session /\ sess[p].name \in Names /\ sess[p].text \in Texts
         /\ Undisturbed(p, pc[p], sess[p])
         /\ pc \in [Procs -> Labels] /\ sess \in [Procs -> Session]
         /\ Allowed[p] \subseteq Names
BY OptionsAssumption DEF ApartInv, TypeOK, Session

LEMMA IdleUndisturbed ==
  ASSUME NEW p  PROVE Undisturbed(p, "idle", Blank)'
BY DEF Undisturbed, Searching, Writing, Registering, Clear

(* What p does to its own names concerns no other program.                 *)
LEMMA OthersUndisturbed ==
  ASSUME Apart, ApartInv, NEW p \in Procs, NEW l, NEW s, Goto(p, l, s),
         \A m \in Names \ Allowed[p] : Named(m)' = Named(m) /\ tables'[m] = tables[m],
         Undisturbed(p, l, s)'
  PROVE  (\A q \in Procs : Undisturbed(q, pc[q], sess[q]))'
<1>1. ASSUME NEW q \in Procs  PROVE Undisturbed(q, pc[q], sess[q])'
  <2>1. CASE q = p
    <3>1. pc'[q] = l /\ sess'[q] = s
      BY <2>1, ApartHere DEF Goto
    <3>2. QED  BY <2>1, <3>1 DEF Undisturbed
  <2>2. CASE q # p
    <3>1. pc'[q] = pc[q] /\ sess'[q] = sess[q]
      BY <2>2, ApartHere DEF Goto
    <3>2. PICK k \in Labels, t \in Session : k = pc[q] /\ t = sess[q]
      BY ApartHere
    <3>3. Undisturbed(q, k, t) /\ t.name \in Names
      BY <3>2, ApartHere
    <3>4. CASE k = "idle"
      BY <3>1, <3>2, <3>4 DEF Undisturbed, Searching, Writing, Registering, Clear
    <3>5. CASE k # "idle"
      <4>1. t.name \in Names \ Allowed[p]
        BY <2>2, <3>3, <3>5 DEF Undisturbed, Apart
      <4>2. Named(t.name)' = Named(t.name) /\ tables'[t.name] = tables[t.name]
        BY <4>1
      <4>3. Undisturbed(q, k, t)'
        BY <3>3, <4>2 DEF Undisturbed, Holding, Whole
      <4>4. QED  BY <3>1, <3>2, <4>3 DEF Undisturbed
    <3>6. QED  BY <3>4, <3>5
  <2>3. QED  BY <2>1, <2>2
<1>2. QED  BY <1>1

(* A step that changes no row, and of the tables only those of names of p  *)
(* that no row has.                                                        *)
LEMMA ApartStep ==
  ASSUME Apart, ApartInv, TypeOK', NEW p \in Procs, NEW l, NEW s, Goto(p, l, s),
         mr_query' = mr_query,
         \A m \in Names : m \notin Allowed[p] \/ Named(m) # {} => tables'[m] = tables[m],
         Undisturbed(p, l, s)'
  PROVE  ApartInv'
<1>1. (\A q \in Procs : Undisturbed(q, pc[q], sess[q]))'
  <2>1. \A m \in Names \ Allowed[p] : Named(m)' = Named(m) /\ tables'[m] = tables[m]
    BY DEF Named
  <2>2. QED  BY <2>1, OthersUndisturbed
<1>2. \A r \in mr_query : tables'[r.res] = tables[r.res]
  BY DEF Named, ApartInv, TypeOK, Row
<1>3. Intact'
  BY <1>2 DEF ApartInv, Intact, Whole
<1>4. QED  BY <1>1, <1>3 DEF ApartInv, IdsUnique, NamesUnique

LEMMA ApartRead ==
  ASSUME Apart, ApartInv, TypeOK', NEW p \in Procs, NEW l, NEW s, Goto(p, l, s),
         UNCHANGED <<mr_query, tables>>, Undisturbed(p, l, s)
  PROVE  ApartInv'
<1>1. Undisturbed(p, l, s)'
  BY DEF Undisturbed, Named, Holding, Whole
<1>2. QED  BY <1>1, ApartStep

LEMMA ApartEnd ==
  ASSUME Apart, ApartInv, TypeOK', NEW p \in Procs, End(p), mr_query' = mr_query,
         \A m \in Names : m \notin Allowed[p] \/ Named(m) # {} => tables'[m] = tables[m]
  PROVE  ApartInv'
BY IdleUndisturbed, ApartStep DEF End

(* A session that mines anew, on a name that no row has.                   *)
Alike(s, t) ==
  /\ t.name = s.name /\ t.sound = s.sound /\ t.rel = s.rel /\ t.op = s.op /\ t.res = s.res
  /\ t.text = s.text
MinesAnew(p, s) ==
  /\ s \in Session /\ s.name \in Allowed[p] /\ s.sound /\ s.rel = "None"
  /\ s.op = "query" /\ s.res = s.name
  /\ Named(s.name) = {}

(* Such a session may change the tables of its name.                       *)
OnlyOwn(s) == mr_query' = mr_query /\ \A m \in Names \ {s.name} : tables'[m] = tables[m]

LEMMA AnewStep ==
  ASSUME Apart, ApartInv, TypeOK', NEW p \in Procs, NEW s, MinesAnew(p, s), OnlyOwn(s),
         NEW l, NEW t, Alike(s, t), Goto(p, l, t),
         l \in {"catalogue", "sizes"} \cup Writing \cup Registering,
         l \in {"catalogue", "sizes"} => TryOptimizations /\ t.text \notin Itemsets,
         l = "redrop" => \A k \in Kinds \ Ahead(t.kind) : tables'[t.name][k] = Absent,
         l \in {"probe", "create"} => Holding(t.name, Uncreated(t.kind), Absent, Empty)',
         l = "insert" => Holding(t.name, Kinds, Empty, Empty)',
         l = "fill" => Holding(t.name, Kinds, p, p)',
         l = "copy" => Holding(t.name, Ahead(t.kind), Empty, t.text)',
         l \in Registering => Whole(t.name, t.text)'
  PROVE  ApartInv'
<1>1. Named(t.name)' = {}
  BY DEF Alike, MinesAnew, OnlyOwn, Named
<1>2. l \notin {"idle", "exists", "lookup", "victims", "delete", "drop", "base", "count", "cursor",
                "elems", "original", "derived"}
  BY DEF Writing, Registering
<1>3. Undisturbed(p, l, t)'
  BY <1>1, <1>2 DEF Undisturbed, Alike, MinesAnew
<1>4. QED  BY <1>3, ApartStep DEF OnlyOwn, MinesAnew

LEMMA AnewEnd ==
  ASSUME Apart, ApartInv, TypeOK', NEW p \in Procs, NEW s, MinesAnew(p, s), OnlyOwn(s), End(p)
  PROVE  ApartInv'
BY ApartEnd DEF OnlyOwn, MinesAnew

LEMMA AnewCreates ==
  ASSUME Apart, ApartInv, TypeOK', NEW p \in Procs, NEW s, MinesAnew(p, s), OnlyOwn(s),
         ToCreate(p, s)
  PROVE  ApartInv'
<1> DEFINE t == [s EXCEPT !.kind = "rules"]
<1>1. Goto(p, "redrop", t) \/ End(p)
  BY DEF ToCreate, Apart
<1>2. Alike(s, t) /\ t.kind = "rules"
  BY DEF MinesAnew, Session, Alike
<1> HIDE DEF t
<1>3. Kinds \ Ahead(t.kind) = {}
  BY <1>2 DEF Ahead
<1>4. CASE Goto(p, "redrop", t)
  BY <1>2, <1>3, <1>4, AnewStep DEF Writing, Registering
<1>5. QED  BY <1>1, <1>4, AnewEnd

LEMMA AnewOptimizes ==
  ASSUME Apart, ApartInv, TypeOK', NEW p \in Procs, NEW s, MinesAnew(p, s), OnlyOwn(s),
         ToOptimize(p, s)
  PROVE  ApartInv'
<1>1. CASE TryOptimizations /\ s.text \notin Itemsets /\ Goto(p, "catalogue", s)
  BY <1>1, AnewStep DEF Writing, Registering, Alike
<1>2. QED  BY <1>1, AnewCreates DEF ToOptimize

LEMMA AnewRegisters ==
  ASSUME Apart, ApartInv, TypeOK', NEW p \in Procs, NEW s, MinesAnew(p, s), OnlyOwn(s),
         ToRegister(p, s), Whole(s.name, s.text)'
  PROVE  ApartInv'
<1> DEFINE t == [s EXCEPT !.list = "ga"]
<1>1. Goto(p, "select", t)
  BY DEF ToRegister
<1>2. Alike(s, t)
  BY DEF MinesAnew, Session, Alike
<1> HIDE DEF t
<1>3. Whole(t.name, t.text)'
  BY <1>2 DEF Alike
<1>4. QED  BY <1>1, <1>2, <1>3, AnewStep DEF Writing, Registering

(* At these labels a session mines anew.                                   *)
LEMMA AnewHere ==
  ASSUME ApartInv, NEW p \in Procs, pc[p] \in {"catalogue", "sizes"} \cup Writing \cup Registering
  PROVE  MinesAnew(p, sess[p])
<1>1. pc[p] \in Clear
  BY DEF Clear, Searching, Writing, Registering
<1>2. pc[p] \notin {"idle", "lookup", "victims", "delete", "drop"}
  BY DEF Writing, Registering
<1>3. QED  BY <1>1, <1>2, ApartHere DEF Undisturbed, MinesAnew

-----------------------------------------------------------------------------
LEMMA StartApart ==
  ASSUME Apart, ApartInv, TypeOK', NEW p \in Procs, Start(p)
  PROVE  ApartInv'
<1>1. CASE StartQuery(p)
  <2>1. PICK n \in Allowed[p], t \in Texts :
          Goto(p, "exists", [Blank EXCEPT !.op = "query", !.name = n, !.text = t, !.res = n])
    BY <1>1 DEF StartQuery
  <2>2. Undisturbed(p, "exists", [Blank EXCEPT !.op = "query", !.name = n, !.text = t, !.res = n])
    BY DEF Undisturbed, Searching, Writing, Registering, Clear, Blank
  <2>3. QED  BY <1>1, <2>1, <2>2, ApartRead DEF StartQuery, database
<1>2. CASE StartDelete(p)
  <2>1. PICK n \in Allowed[p] : Goto(p, "lookup", [Blank EXCEPT !.op = "delete", !.name = n])
    BY <1>2 DEF StartDelete
  <2>2. Undisturbed(p, "lookup", [Blank EXCEPT !.op = "delete", !.name = n])
    BY DEF Undisturbed, Searching, Writing, Registering, Clear, Blank
  <2>3. QED  BY <1>2, <2>1, <2>2, ApartRead DEF StartDelete, database
<1>3. ~ StartDerive(p)
  BY DEF StartDerive, MayStart, Apart
<1>4. QED  BY <1>1, <1>2, <1>3 DEF Start

LEMMA LookupApart ==
  ASSUME Apart, ApartInv, TypeOK', NEW p \in Procs,
         CheckHomonym(p) \/ LookupDeleted(p) \/ SelectVictims(p)
  PROVE  ApartInv'
<1>s. PICK s \in Session : s = sess[p]
  BY ApartHere
<1> USE <1>s
<1>1. /\ pc[p] \in {"exists", "lookup", "victims"} /\ UNCHANGED <<mr_query, tables>>
      /\ s.name \in Allowed[p] /\ s.sound /\ s.rel = "None"
      /\ (s.op = "query" => s.res = s.name) /\ (pc[p] = "exists" => s.op = "query")
  BY ApartHere DEF CheckHomonym, LookupDeleted, SelectVictims, database, Undisturbed
<1>2. End(p) => ApartInv'
  BY <1>1, ApartEnd
<1>3. ASSUME Goto(p, "victims", s)  PROVE ApartInv'
  <2>1. Undisturbed(p, "victims", s)
    BY <1>1 DEF Undisturbed, Searching, Writing, Registering, Clear
  <2>2. QED  BY <1>1, <1>3, <2>1, ApartRead
<1>4. CASE CheckHomonym(p)
  <2>1. ASSUME Named(s.name) = {}, ToOptimize(p, s)  PROVE ApartInv'
    <3>1. MinesAnew(p, s) /\ OnlyOwn(s)
      BY <1>1, <1>4, <2>1 DEF MinesAnew, OnlyOwn, CheckHomonym
    <3>2. QED  BY <2>1, <3>1, AnewOptimizes
  <2>2. QED  BY <1>2, <1>3, <1>4, <2>1 DEF CheckHomonym
<1>5. CASE SelectVictims(p)
  <2> DEFINE t == [s EXCEPT !.rs = Dependent(s.name)]
  <2>1. Dependent(s.name) = Named(s.name)
    BY DEF Dependent, Named, ApartInv
  <2>2. t.rs = Named(t.name) /\ Alike(s, t)
    BY <2>1 DEF Session, Alike
  <2>3. End(p) \/ Goto(p, "delete", t)
    BY <1>5 DEF SelectVictims
  <2> HIDE DEF t
  <2>4. Undisturbed(p, "delete", t)
    BY <1>1, <2>2 DEF Undisturbed, Alike, Searching, Writing, Registering, Clear
  <2>5. QED  BY <1>1, <1>2, <2>3, <2>4, ApartRead
<1>6. QED  BY <1>2, <1>3, <1>4, <1>5 DEF LookupDeleted

(* The row that is deleted is one of the session's, whatever ids others    *)
(* were given.                                                             *)
LEMMA RowDeleted ==
  ASSUME ApartInv, NEW p \in Procs, DeleteRow(p)
  PROVE  /\ pc[p] = "delete" /\ sess[p].rs = Named(sess[p].name)
         /\ \E v \in sess[p].rs : v \in mr_query /\ mr_query' = mr_query \ {v}
<1>1. pc[p] = "delete" /\ sess[p].rs = Named(sess[p].name)
  BY ApartHere DEF DeleteRow, Undisturbed
<1>2. PICK v \in sess[p].rs : mr_query' = {r \in mr_query : r.id # v.id}
  BY DEF DeleteRow
<1>3. v \in mr_query /\ mr_query' = mr_query \ {v}
  BY <1>1, <1>2 DEF Named, ApartInv, IdsUnique
<1>4. QED  BY <1>1, <1>3

LEMMA DeleteRowApart ==
  ASSUME Apart, ApartInv, TypeOK', NEW p \in Procs, DeleteRow(p)
  PROVE  ApartInv'
<1>s. PICK s \in Session : s = sess[p]
  BY ApartHere
<1> USE <1>s
<1>1. PICK v \in s.rs :
        /\ mr_query' = {r \in mr_query : r.id # v.id}
        /\ \/ /\ s.rs # {v}
              /\ Goto(p, "delete", [s EXCEPT !.rs = @ \ {v}])
           \/ /\ s.rs = {v}
              /\ Goto(p, "drop", [s EXCEPT !.rs = {}, !.kind = "rules"])
  BY DEF DeleteRow
<1>2. /\ pc[p] = "delete" /\ UNCHANGED tables /\ s.rs = Named(s.name)
      /\ s.name \in Allowed[p] /\ s.sound /\ s.rel = "None" /\ (s.op = "query" => s.res = s.name)
  BY ApartHere DEF DeleteRow, Undisturbed
<1>3. v \in mr_query /\ v.name = s.name /\ mr_query' = mr_query \ {v}
  BY <1>1, <1>2 DEF Named, ApartInv, IdsUnique
<1>4. Named(s.name)' = s.rs \ {v}
  BY <1>2, <1>3 DEF Named
<1>5. \A m \in Names \ Allowed[p] : Named(m)' = Named(m) /\ tables'[m] = tables[m]
  BY <1>2, <1>3 DEF Named
<1>6. ASSUME NEW l, NEW t, Goto(p, l, t), Undisturbed(p, l, t)'  PROVE ApartInv'
  <2>1. (\A q \in Procs : Undisturbed(q, pc[q], sess[q]))'
    BY <1>5, <1>6, OthersUndisturbed
  <2>2. IdsUnique' /\ NamesUnique' /\ Intact' /\ \A r \in mr_query' : r.res = r.name
    BY <1>2, <1>3 DEF ApartInv, IdsUnique, NamesUnique, Intact, Whole
  <2>3. QED  BY <2>1, <2>2 DEF ApartInv
<1>7. CASE Goto(p, "delete", [s EXCEPT !.rs = @ \ {v}])
  <2> DEFINE t == [s EXCEPT !.rs = @ \ {v}]
  <2>1. Alike(s, t) /\ t.rs = s.rs \ {v}
    BY DEF Session, Alike
  <2> HIDE DEF t
  <2>2. Undisturbed(p, "delete", t)'
    BY <1>2, <1>4, <2>1 DEF Undisturbed, Alike, Searching, Writing, Registering, Clear
  <2>3. QED  BY <1>6, <1>7, <2>2 DEF t
<1>8. CASE s.rs = {v} /\ Goto(p, "drop", [s EXCEPT !.rs = {}, !.kind = "rules"])
  <2> DEFINE t == [s EXCEPT !.rs = {}, !.kind = "rules"]
  <2>1. Alike(s, t)
    BY DEF Session, Alike
  <2> HIDE DEF t
  <2>2. Undisturbed(p, "drop", t)'
    BY <1>2, <1>4, <1>8, <2>1 DEF Undisturbed, Alike, Searching, Writing, Registering, Clear
  <2>3. QED  BY <1>6, <1>8, <2>2 DEF t
<1>9. QED  BY <1>1, <1>7, <1>8

LEMMA DropTableApart ==
  ASSUME Apart, ApartInv, TypeOK', NEW p \in Procs, DropTable(p)
  PROVE  ApartInv'
<1>s. PICK s \in Session : s = sess[p]
  BY ApartHere
<1> USE <1>s
<1>1. /\ pc[p] \in {"drop", "redrop"} /\ mr_query' = mr_query
      /\ tables' = [tables EXCEPT ![s.name][s.kind] = Absent]
  BY DEF DropTable
<1>2. /\ s.name \in Allowed[p] /\ s.name \in Names /\ s.sound /\ s.rel = "None"
      /\ Named(s.name) = {} /\ (s.op = "query" => s.res = s.name)
      /\ (pc[p] = "redrop" => s.op = "query")
      /\ (pc[p] = "redrop" => \A k \in Kinds \ Ahead(s.kind) : tables[s.name][k] = Absent)
  BY <1>1, ApartHere DEF Undisturbed, Writing, Clear
<1>3. /\ \A m \in Names \ {s.name} : tables'[m] = tables[m]
      /\ \A k \in Kinds : tables'[s.name][k] = IF k = s.kind THEN Absent ELSE tables[s.name][k]
  BY <1>1, <1>2 DEF ApartInv, TypeOK
<1>4. OnlyOwn(s) /\ (s.op = "query" => MinesAnew(p, s))
  BY <1>1, <1>2, <1>3 DEF OnlyOwn, MinesAnew
<1>5. End(p) => ApartInv'
  BY <1>1, <1>2, <1>3, ApartEnd
<1>6. ASSUME NEW k \in {"heads", "bodies"}, Goto(p, pc[p], [s EXCEPT !.kind = k]),
             Kinds \ Ahead(k) = (Kinds \ Ahead(s.kind)) \cup {s.kind}
      PROVE  ApartInv'
  <2> DEFINE t == [s EXCEPT !.kind = k]
  <2>1. Alike(s, t) /\ t.kind = k
    BY DEF Session, Alike
  <2>2. Goto(p, pc[p], t)
    BY <1>6
  <2> HIDE DEF t
  <2>3. CASE pc[p] = "redrop"
    <3>1. \A j \in Kinds \ Ahead(t.kind) : tables'[t.name][j] = Absent
      BY <1>2, <1>3, <1>6, <2>1, <2>3 DEF Alike
    <3>2. MinesAnew(p, s) /\ Goto(p, "redrop", t)
      BY <1>2, <1>4, <2>2, <2>3
    <3>3. QED  BY <1>4, <2>1, <3>1, <3>2, AnewStep DEF Writing, Registering
  <2>4. CASE pc[p] = "drop"
    <3>1. Named(t.name)' = {}
      BY <1>1, <1>2, <2>1 DEF Named, Alike
    <3>2. Undisturbed(p, "drop", t)'
      BY <1>2, <2>1, <3>1 DEF Undisturbed, Alike, Searching, Writing, Registering, Clear
    <3>3. Goto(p, "drop", t)
      BY <2>2, <2>4
    <3>4. QED  BY <1>1, <1>2, <1>3, <3>2, <3>3, ApartStep
  <2>5. QED  BY <1>1, <2>3, <2>4
<1>7. CASE s.kind = "rules" /\ Goto(p, pc[p], [s EXCEPT !.kind = "heads"])
  <2>1. Kinds \ Ahead("heads") = (Kinds \ Ahead(s.kind)) \cup {s.kind}
    BY <1>7 DEF Ahead, Kinds
  <2>2. QED  BY <1>6, <1>7, <2>1
<1>8. CASE s.kind = "heads" /\ Goto(p, pc[p], [s EXCEPT !.kind = "bodies"])
  <2>1. Kinds \ Ahead("bodies") = (Kinds \ Ahead(s.kind)) \cup {s.kind}
    BY <1>8 DEF Ahead, Kinds
  <2>2. QED  BY <1>6, <1>8, <2>1
<1>9. CASE s.op = "query" /\ ToOptimize(p, s)
  BY <1>4, <1>9, AnewOptimizes
<1>10. CASE s.kind = "bodies" /\ pc[p] = "redrop" /\ Goto(p, "probe", [s EXCEPT !.kind = "rules"])
  <2> DEFINE t == [s EXCEPT !.kind = "rules"]
  <2>1. Alike(s, t) /\ t.kind = "rules"
    BY DEF Session, Alike
  <2> HIDE DEF t
  <2>2. \A k \in Kinds : tables'[s.name][k] = Absent
    BY <1>2, <1>3, <1>10 DEF Ahead
  <2>3. Holding(t.name, Uncreated(t.kind), Absent, Empty)'
    BY <2>1, <2>2 DEF Kinds, Holding, Uncreated, Alike
  <2>4. MinesAnew(p, s) /\ Goto(p, "probe", t)
    BY <1>2, <1>4, <1>10 DEF t
  <2>5. QED  BY <1>4, <2>1, <2>3, <2>4, AnewStep DEF Writing, Registering
<1>11. QED  BY <1>5, <1>7, <1>8, <1>9, <1>10 DEF DropTable

(* Past minerules are looked at, and none of them is reused.               *)
LEMMA SearchApart ==
  ASSUME Apart, ApartInv, TypeOK', NEW p \in Procs,
         ReadCatalogue(p) \/ CountPast(p) \/ Optimize(p) \/ OptimizeThrows(p)
  PROVE  ApartInv'
<1>s. PICK s \in Session : s = sess[p]
  BY ApartHere
<1> USE <1>s
<1>1. /\ pc[p] \in {"catalogue", "sizes"} /\ UNCHANGED <<mr_query, tables>>
      /\ TryOptimizations /\ s.text \notin Itemsets
  BY ApartHere DEF ReadCatalogue, CountPast, Optimize, OptimizeThrows, database, Undisturbed
<1>2. MinesAnew(p, s) /\ OnlyOwn(s)
  BY <1>1, AnewHere DEF OnlyOwn
<1>3. End(p) => ApartInv'
  BY <1>2, AnewEnd
<1>4. ASSUME NEW t, Alike(s, t), Goto(p, "sizes", t)  PROVE ApartInv'
  BY <1>1, <1>2, <1>4, AnewStep DEF Writing, Registering, Alike
<1>5. CASE ReadCatalogue(p)
  <2>1. Alike(s, [s EXCEPT !.rs = mr_query, !.past = mr_query])
    BY DEF Session, Alike
  <2>2. QED  BY <1>4, <1>5, <2>1 DEF ReadCatalogue
<1>6. CASE CountPast(p)
  <2>1. \A r : Alike(s, NextRow(s, r))
    BY DEF Session, Alike, NextRow
  <2>2. QED  BY <1>3, <1>4, <1>6, <2>1 DEF CountPast
<1>7. CASE Optimize(p)
  <2>1. s.text \in Texts \ Itemsets /\ TryOptimizations /\ \A r \in s.past : r.text \in Texts
    BY <1>1 DEF Session, Row
  <2>2. ~HasIncremental(s.text) /\ \A u \in Texts : <<u, s.text>> \notin Equivalents
    BY <2>1 DEF Apart
  <2>3. EquivalentPast(s) = {}
    BY <2>1, <2>2 DEF EquivalentPast
  <2>4. End(p) \/ ToCreate(p, [s EXCEPT !.past = {}])
    BY <1>7, <2>2, <2>3 DEF Optimize, HasIncremental
  <2> DEFINE t == [s EXCEPT !.past = {}]
  <2>5. Alike(s, t) /\ t \in Session
    BY DEF Session, Alike
  <2> HIDE DEF t
  <2>6. MinesAnew(p, t) /\ OnlyOwn(t)
    BY <1>2, <2>5 DEF MinesAnew, OnlyOwn, Alike
  <2>7. QED  BY <1>3, <2>4, <2>6, AnewCreates DEF t
<1>8. CASE OptimizeThrows(p)
  BY <1>3, <1>8 DEF OptimizeThrows
<1>9. QED  BY <1>5, <1>6, <1>7, <1>8

LEMMA ProbeTableApart ==
  ASSUME Apart, ApartInv, TypeOK', NEW p \in Procs, ProbeTable(p)
  PROVE  ApartInv'
<1>s. PICK s \in Session : s = sess[p]
  BY ApartHere
<1> USE <1>s
<1>1. pc[p] = "probe" /\ UNCHANGED <<mr_query, tables>> /\ MinesAnew(p, s)
  BY AnewHere DEF ProbeTable, database, Writing
<1>2. Holding(s.name, Uncreated(s.kind), Absent, Empty)
  BY <1>1, ApartHere DEF Undisturbed
<1>3. s.kind \in Uncreated(s.kind) /\ s.kind \in Kinds
  BY DEF Session, Kinds, Uncreated
<1>4. Goto(p, "create", s)
  BY <1>2, <1>3 DEF Holding, ProbeTable
<1>5. Holding(s.name, Uncreated(s.kind), Absent, Empty)'
  BY <1>1, <1>2 DEF Holding
<1>6. Alike(s, s) /\ OnlyOwn(s)
  BY <1>1 DEF Alike, OnlyOwn
<1>7. QED  BY <1>1, <1>4, <1>5, <1>6, AnewStep DEF Writing, Registering

LEMMA CreateTableApart ==
  ASSUME Apart, ApartInv, TypeOK', NEW p \in Procs, CreateTable(p)
  PROVE  ApartInv'
<1>s. PICK s \in Session : s = sess[p]
  BY ApartHere
<1> USE <1>s
<1>1. pc[p] = "create" /\ mr_query' = mr_query /\ MinesAnew(p, s)
  BY AnewHere DEF CreateTable, Writing
<1>2. Holding(s.name, Uncreated(s.kind), Absent, Empty)
  BY <1>1, ApartHere DEF Undisturbed
<1>3. s.kind \in Uncreated(s.kind) /\ s.kind \in Kinds /\ s.name \in Names
  BY ApartHere DEF Session, Kinds, Uncreated
<1>4. tables' = [tables EXCEPT ![s.name][s.kind] = Empty] /\ NextTable(p)
  BY <1>2, <1>3 DEF Holding, CreateTable
<1>5. /\ \A m \in Names \ {s.name} : tables'[m] = tables[m]
      /\ \A k \in Kinds : tables'[s.name][k] = IF k = s.kind THEN Empty ELSE tables[s.name][k]
  BY <1>3, <1>4 DEF ApartInv, TypeOK
<1>6. OnlyOwn(s)
  BY <1>1, <1>5 DEF OnlyOwn
<1>7. ASSUME NEW k \in Kinds, Goto(p, "probe", [s EXCEPT !.kind = k]),
             Uncreated(s.kind) = Uncreated(k) \cup {s.kind}, s.kind \notin Uncreated(k)
      PROVE  ApartInv'
  <2> DEFINE t == [s EXCEPT !.kind = k]
  <2>1. Alike(s, t) /\ t.kind = k /\ Goto(p, "probe", t)
    BY <1>7 DEF Alike, Session
  <2> HIDE DEF t
  <2>2. Holding(t.name, Uncreated(t.kind), Absent, Empty)'
    BY <1>2, <1>5, <1>7, <2>1 DEF Holding, Alike
  <2>3. QED  BY <1>1, <1>6, <2>1, <2>2, AnewStep DEF Writing, Registering
<1>8. ASSUME Goto(p, AfterCreate(s), [s EXCEPT !.kind = "rules", !.list = "ga"]),
             Uncreated(s.kind) \cap Kinds = {s.kind}
      PROVE  ApartInv'
  <2> DEFINE t == [s EXCEPT !.kind = "rules", !.list = "ga"]
  <2>1. Alike(s, t) /\ t.kind = "rules"
    BY DEF Alike, Session
  <2>2. PICK l \in {"insert", "copy"} : l = AfterCreate(s)
    BY <1>1 DEF MinesAnew, AfterCreate
  <2>3. Goto(p, l, t)
    BY <1>8, <2>2
  <2> HIDE DEF t
  <2>4. Holding(t.name, Kinds, Empty, Empty)'
    BY <1>2, <1>5, <1>8, <2>1 DEF Holding, Alike
  <2>5. Holding(t.name, Ahead(t.kind), Empty, t.text)'
    BY <2>1, <2>4 DEF Holding, Ahead
  <2>6. QED  BY <1>1, <1>6, <2>1, <2>3, <2>4, <2>5, AnewStep DEF Writing, Registering
<1>9. \/ \E k \in Kinds :
           /\ Goto(p, "probe", [s EXCEPT !.kind = k])
           /\ Uncreated(s.kind) = Uncreated(k) \cup {s.kind} /\ s.kind \notin Uncreated(k)
      \/ /\ Goto(p, AfterCreate(s), [s EXCEPT !.kind = "rules", !.list = "ga"])
         /\ Uncreated(s.kind) \cap Kinds = {s.kind}
  BY <1>2, <1>4 DEF NextTable, Kinds, Uncreated
<1>10. QED  BY <1>7, <1>8, <1>9

LEMMA InsertsApart ==
  ASSUME Apart, ApartInv, TypeOK', NEW p \in Procs, FirstInserts(p) \/ LastInserts(p)
  PROVE  ApartInv'
<1>s. PICK s \in Session : s = sess[p]
  BY ApartHere
<1> USE <1>s
<1>1. pc[p] \in {"insert", "fill"} /\ mr_query' = mr_query /\ MinesAnew(p, s)
  BY AnewHere DEF FirstInserts, LastInserts, Writing
<1>2. s.name \in Names /\ Alike(s, s)
  BY ApartHere DEF Alike
<1>3. ASSUME End(p), UNCHANGED tables  PROVE ApartInv'
  BY <1>1, <1>3, AnewEnd DEF OnlyOwn
<1>4. ASSUME pc[p] = "insert", Goto(p, "fill", s),
             tables' = [tables EXCEPT ![s.name] = [k \in Kinds |-> Begun(@[k], p)]]
      PROVE  ApartInv'
  <2>1. Holding(s.name, Kinds, Empty, Empty)
    BY <1>4, ApartHere DEF Undisturbed
  <2>2. Holding(s.name, Kinds, p, p)'
    BY <1>2, <1>4, <2>1 DEF Holding, Begun, ApartInv, TypeOK
  <2>3. OnlyOwn(s)
    BY <1>1, <1>2, <1>4 DEF OnlyOwn, ApartInv, TypeOK
  <2>4. QED  BY <1>1, <1>2, <1>4, <2>2, <2>3, AnewStep DEF Writing, Registering
<1>5. ASSUME pc[p] = "fill", ToRegister(p, s),
             tables' = [tables EXCEPT ![s.name] = [k \in Kinds |-> Ended(@[k], p, s.text)]]
      PROVE  ApartInv'
  <2>1. Holding(s.name, Kinds, p, p)
    BY <1>5, ApartHere DEF Undisturbed
  <2>2. \A k \in Kinds : tables'[s.name][k] = s.text
    BY <1>2, <1>5, <2>1 DEF Holding, Ended, ApartInv, TypeOK
  <2>3. OnlyOwn(s) /\ Whole(s.name, s.text)'
    BY <1>1, <1>2, <1>5, <2>2 DEF OnlyOwn, Whole, Answers, ApartInv, TypeOK
  <2>4. QED  BY <1>1, <1>5, <2>3, AnewRegisters
<1>6. ~ReadsLazily(s) /\ s.sound
  BY <1>1 DEF MinesAnew, ReadsLazily
<1>7. QED  BY <1>3, <1>4, <1>5, <1>6 DEF FirstInserts, LastInserts

LEMMA CopyTableApart ==
  ASSUME Apart, ApartInv, TypeOK', NEW p \in Procs, CopyTable(p)
  PROVE  ApartInv'
<1>s. PICK s \in Session : s = sess[p]
  BY ApartHere
<1> USE <1>s
<1>1. pc[p] = "copy" /\ mr_query' = mr_query /\ MinesAnew(p, s)
  BY AnewHere DEF CopyTable, Writing
<1>2. Holding(s.name, Ahead(s.kind), Empty, s.text)
  BY <1>1, ApartHere DEF Undisturbed
<1>3. s.name \in Names /\ s.kind \in Kinds /\ s.kind \in Ahead(s.kind)
  BY ApartHere DEF Session, Ahead, Kinds
<1>4. CASE End(p) /\ UNCHANGED tables
  BY <1>1, <1>4, AnewEnd DEF OnlyOwn
<1>5. CASE /\ tables[s.name][s.kind] # Absent
           /\ tables' = [tables EXCEPT ![s.name][s.kind] = Ended(Begun(@, p), p, s.text)]
  <2>1. tables[s.name][s.kind] = Empty
    BY <1>2, <1>3, <1>5 DEF Holding
  <2>2. /\ \A m \in Names \ {s.name} : tables'[m] = tables[m]
        /\ \A k \in Kinds : tables'[s.name][k] = IF k = s.kind THEN s.text ELSE tables[s.name][k]
    BY <1>3, <1>5, <2>1 DEF ApartInv, TypeOK, Ended, Begun
  <2>3. OnlyOwn(s)
    BY <1>1, <2>2 DEF OnlyOwn
  <2>4. ASSUME NEW k \in Kinds, Goto(p, "copy", [s EXCEPT !.kind = k]),
               Ahead(k) = Ahead(s.kind) \ {s.kind}
        PROVE  ApartInv'
    <3> DEFINE t == [s EXCEPT !.kind = k]
    <3>1. Alike(s, t) /\ t.kind = k /\ Goto(p, "copy", t)
      BY <2>4 DEF Alike, Session
    <3> HIDE DEF t
    <3>2. Holding(t.name, Ahead(t.kind), Empty, t.text)'
      BY <1>2, <2>1, <2>2, <2>4, <3>1 DEF Holding, Alike
    <3>3. QED  BY <1>1, <2>3, <3>1, <3>2, AnewStep DEF Writing, Registering
  <2>5. CASE s.kind = "bodies" /\ ToRegister(p, s)
    <3>1. \A k \in Kinds : tables'[s.name][k] = s.text
      BY <1>2, <2>2, <2>5 DEF Holding, Ahead, Kinds
    <3>2. Whole(s.name, s.text)'
      BY <3>1 DEF Whole, Answers
    <3>3. QED  BY <1>1, <2>3, <2>5, <3>2, AnewRegisters
  <2>6. \/ \E k \in Kinds : /\ Goto(p, "copy", [s EXCEPT !.kind = k])
                            /\ Ahead(k) = Ahead(s.kind) \ {s.kind}
        \/ s.kind = "bodies" /\ ToRegister(p, s)
    BY <1>5 DEF CopyTable, Kinds, Ahead
  <2>7. QED  BY <2>4, <2>5, <2>6
<1>6. QED  BY <1>4, <1>5 DEF CopyTable

LEMMA IdApart ==
  ASSUME Apart, ApartInv, TypeOK', NEW p \in Procs, SelectId(p) \/ UpdateId(p) \/ InsertList(p)
  PROVE  ApartInv'
<1>s. PICK s \in Session : s = sess[p]
  BY ApartHere
<1> USE <1>s
<1>1. pc[p] \in Registering /\ UNCHANGED <<mr_query, tables>>
  BY DEF SelectId, UpdateId, InsertList, database, Registering
<1>2. MinesAnew(p, s) /\ OnlyOwn(s) /\ Whole(s.name, s.text)'
  BY <1>1, AnewHere, ApartHere DEF OnlyOwn, Undisturbed, Whole
<1>3. ASSUME NEW l \in Registering, NEW t, Goto(p, l, t), Alike(s, t)  PROVE ApartInv'
  <2>1. Whole(t.name, t.text)'
    BY <1>2, <1>3 DEF Alike
  <2>2. QED  BY <1>2, <1>3, <2>1, AnewStep DEF Writing, Registering
<1>4. CASE SelectId(p)
  <2>1. Alike(s, [s EXCEPT !.id = NewValue(CounterOf(s))])
    BY DEF Session, Alike
  <2>2. QED  BY <1>3, <1>4, <2>1 DEF SelectId, Registering
<1>5. CASE UpdateId(p)
  BY <1>3, <1>5 DEF UpdateId, Registering, Alike
<1>6. CASE InsertList(p)
  <2>1. Alike(s, [s EXCEPT !.lists[s.list] = s.id, !.list = NextList(s)])
    BY DEF Session, Alike
  <2>2. QED  BY <1>3, <1>6, <2>1 DEF InsertList, Registering
<1>7. QED  BY <1>4, <1>5, <1>6

(* If another program was given the same id and was first, nothing is      *)
(* inserted.                                                               *)
LEMMA InsertQueryApart ==
  ASSUME Apart, ApartInv, TypeOK', NEW p \in Procs, InsertQuery(p)
  PROVE  ApartInv'
<1>s. PICK s \in Session : s = sess[p]
  BY ApartHere
<1> USE <1>s
<1>1. pc[p] = "store" /\ UNCHANGED tables /\ End(p)
  BY DEF InsertQuery
<1>2. MinesAnew(p, s) /\ Whole(s.name, s.text)
  BY <1>1, AnewHere, ApartHere DEF Undisturbed, Registering
<1>3. CASE UNCHANGED mr_query
  BY <1>1, <1>2, <1>3, AnewEnd DEF OnlyOwn
<1>4. CASE /\ \A r \in mr_query : r.id # s.id
           /\ mr_query' = mr_query \cup {[id |-> s.id, name |-> s.name, text |-> s.text,
                                          res |-> s.res, lists |-> s.lists]}
  <2>1. PICK v : /\ v.id = s.id /\ v.name = s.name /\ v.text = s.text /\ v.res = s.name
                 /\ mr_query' = mr_query \cup {v}
    BY <1>2, <1>4 DEF MinesAnew
  <2>2. \A m \in Names \ Allowed[p] : Named(m)' = Named(m) /\ tables'[m] = tables[m]
    BY <1>1, <1>2, <2>1 DEF Named, MinesAnew
  <2>3. (\A q \in Procs : Undisturbed(q, pc[q], sess[q]))'
    BY <1>1, <2>2, IdleUndisturbed, OthersUndisturbed DEF End
  <2>4. IdsUnique'
    BY <1>4, <2>1 DEF ApartInv, IdsUnique
  <2>5. NamesUnique'
    BY <1>2, <2>1 DEF ApartInv, NamesUnique, Named, MinesAnew
  <2>6. Intact' /\ \A r \in mr_query' : r.res = r.name
    BY <1>1, <1>2, <2>1 DEF ApartInv, Intact, Whole
  <2>7. QED  BY <2>3, <2>4, <2>5, <2>6 DEF ApartInv
<1>5. QED  BY <1>3, <1>4 DEF InsertQuery

LEMMA InitApart == Init => ApartInv
<1> SUFFICES ASSUME Init PROVE ApartInv
  OBVIOUS
<1>1. TypeOK
  BY TypeInit
<1>2. \A p \in Procs : Undisturbed(p, pc[p], sess[p])
  BY DEF Init, Undisturbed, Searching, Writing, Registering, Clear
<1>3. QED  BY <1>1, <1>2 DEF Init, ApartInv, IdsUnique, NamesUnique, Intact

LEMMA StepApart == Apart /\ ApartInv /\ [Next]_vars => ApartInv'
<1> SUFFICES ASSUME Apart, ApartInv, [Next]_vars PROVE ApartInv'
  OBVIOUS
<1>1. TypeOK'
  BY TypeStep DEF ApartInv
<1>2. CASE UNCHANGED vars
  BY <1>1, <1>2
  DEF vars, ApartInv, IdsUnique, NamesUnique, Intact, Whole, Undisturbed, Named, Holding
<1>3. ASSUME NEW p \in Procs, Start(p) \/ Step(p) \/ Crash(p)  PROVE ApartInv'
  <2>1. \/ Start(p) \/ CheckHomonym(p) \/ LookupDeleted(p) \/ SelectVictims(p) \/ DeleteRow(p)
        \/ DropTable(p) \/ ReadCatalogue(p) \/ CountPast(p) \/ Optimize(p) \/ OptimizeThrows(p)
        \/ ProbeTable(p) \/ CreateTable(p) \/ FirstInserts(p) \/ LastInserts(p) \/ CopyTable(p)
        \/ SelectId(p) \/ UpdateId(p) \/ InsertList(p) \/ InsertQuery(p) \/ Crash(p)
    BY <1>3, ApartHere
    DEF Step, Undisturbed, ReadBase, CountBase, OpenCursor, LoadElems, LookupOriginal,
        LookupDerived
  <2>2. Crash(p) => ApartInv'
    BY <1>1, ApartEnd DEF Crash, database
  <2>3. QED
    BY <1>1, <2>1, <2>2, StartApart, LookupApart, DeleteRowApart, DropTableApart, SearchApart,
       ProbeTableApart, CreateTableApart, InsertsApart, CopyTableApart, IdApart, InsertQueryApart
<1>4. QED  BY <1>2, <1>3 DEF Next

LEMMA ApartAlways == Apart => (Spec => []ApartInv)
<1> SUFFICES ASSUME Apart PROVE Spec => []ApartInv
  OBVIOUS
<1>1. ApartInv /\ [Next]_vars => ApartInv'
  BY StepApart
<1>2. QED  BY InitApart, <1>1, PTL DEF Spec

(* However programs on different names interleave and wherever they are    *)
(* killed, every row of mr_query has its result tables and they hold the   *)
(* answer of its text, if homonyms are overwritten and nothing is reused.  *)
THEOREM ApartWhole == Apart => (Spec => []Intact)
<1> SUFFICES ASSUME Apart PROVE Spec => []Intact
  OBVIOUS
<1>1. ApartInv => Intact
  BY DEF ApartInv
<1>2. QED  BY <1>1, ApartAlways, PTL

(* No program changes the tables of a row that stays, its own included.    *)
THEOREM ApartUntouched == Apart => (Spec => ResultsStable)
<1> SUFFICES ASSUME Apart PROVE Spec => ResultsStable
  OBVIOUS
<1>1. ApartInv /\ [Next]_vars => \A r \in mr_query \cap mr_query' : tables'[r.res] = tables[r.res]
  <2> SUFFICES ASSUME ApartInv, [Next]_vars, NEW r \in mr_query
               PROVE  tables'[r.res] = tables[r.res]
    OBVIOUS
  <2>1. r.res \in Names /\ r.res = r.name /\ TypeOK
    BY DEF ApartInv, TypeOK, Row
  <2>2. \A p \in Procs : pc[p] \in Clear => r.res # sess[p].name
    BY <2>1, ApartHere DEF Undisturbed, Named
  <2>3. \A d \in Names : Dependent(d) = {} => r.res # d
    BY DEF Dependent
  <2>4. QED  BY <2>1, <2>2, <2>3, TablesTouched
<1>2. QED  BY <1>1, ApartAlways, PTL DEF Spec, ResultsStable

(* The catalogue of such programs is a dictionary of answers: each         *)
(* statement of any of them publishes one whole answer under a free name,  *)
(* withdraws one, or changes nothing a reader can see.                     *)
THEOREM ApartStore == Apart => (Spec => ImplementsStore)
<1> SUFFICES ASSUME Apart PROVE Spec => ImplementsStore
  OBVIOUS
<1>1. ApartInv /\ ApartInv' /\ [Next]_vars => [Store!Next]_[n \in Names |-> Reading(n)]
  <2> SUFFICES ASSUME ApartInv, ApartInv', [Next]_vars
               PROVE  [Store!Next]_[n \in Names |-> Reading(n)]
    OBVIOUS
  <2>1. TypeOK /\ NamesUnique /\ Intact /\ NamesUnique' /\ Intact'
    BY DEF ApartInv
  <2>2. ASSUME NEW p \in Procs, InsertQuery(p)
        PROVE  \/ mr_query' = mr_query
               \/ \E v \in Row : Named(v.name) = {} /\ mr_query' = mr_query \cup {v}
    <3>1. sess[p] \in Session /\ Named(sess[p].name) = {}
      BY <2>2, AnewHere DEF InsertQuery, Registering, MinesAnew
    <3>2. QED  BY <2>2, <3>1, RowInserted
  <2>3. QED  BY <2>1, <2>2, RowDeleted, RowsTouched, StoreStep
<1>2. QED  BY <1>1, ApartAlways, StoreInit, PTL DEF Spec, ImplementsStore, Store!Spec
=============================================================================
