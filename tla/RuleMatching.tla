---------------------------- MODULE RuleMatching ----------------------------
(***************************************************************************)
(* mr-match: reads the rules of a minerule that was extracted and finds    *)
(* the groups of a table that match them.  The table is the one they were  *)
(* extracted from, or another one with its schema.                         *)
(*                                                                         *)
(* Every rule is taken to be as confident as the minerule asks: the rules  *)
(* do not depend on one another here.                                      *)
(***************************************************************************)
EXTENDS RuleMining

CONSTANT OtherTables   \* the tables that option -t may name

ASSUME TablesAssumption == OtherTables \subseteq Seq(SourceRow)

VARIABLES
  matching,          \* what mr-match is doing
  target,            \* the table to be matched
  full,              \* usesCrossProduct: one query with bodies and heads in pairs
  bodyRows, headRows, bodyRow, headRow,   \* the results of the queries, and the iterators
  matches            \* the gids of each rule

matchVars == <<matching, target, full, bodyRows, headRows, bodyRow, headRow, matches>>

MatchInit ==
  /\ Init
  /\ matching = "idle" /\ target = <<>> /\ full = FALSE
  /\ bodyRows = <<>> /\ headRows = <<>> /\ bodyRow = 1 /\ headRow = 1
  /\ matches = <<>>

(* Cross conditions, and conditions that the items do not determine, need  *)
(* the cross product; which attributes do is left open.                    *)
RequiresCrossProduct == IF job.crossing THEN {TRUE} ELSE BOOLEAN

OpenSourceTable ==
  /\ phase = "done" /\ matching = "idle"
  /\ target' \in {job.rows} \cup OtherTables
  /\ full' \in RequiresCrossProduct
  /\ bodyRows' = IF full' THEN Joined(target') ELSE Ordered(target', BodyRows(target'), TRUE)
  /\ headRows' = IF full' THEN <<>> ELSE Ordered(target', HeadRows(target'), TRUE)
  /\ matches' = [k \in DOMAIN rules |-> <<>>]
  /\ matching' = "read" /\ phase' = "left"   \* the miner's program has ended
  /\ UNCHANGED <<job, algorithm, cursors, maps, work, rules, bodyRow, headRow>>

MatchesBody(r, items, others) == r.body \subseteq items
Matches(r, items, others) == r.body \subseteq items /\ r.head \subseteq others

MatchAll(gid, items, others) ==
  matches' = [k \in DOMAIN rules |->
                IF Matches(rules[k], items, others) THEN Append(matches[k], gid) ELSE matches[k]]

MatchGid == bodyRows[bodyRow].gid

ReadsGroup ==
  /\ matching = "read" /\ ~AfterLast(bodyRows, bodyRow)
  /\ bodyRow' = LoadEnd(bodyRows, MatchGid, bodyRow)
  /\ UNCHANGED <<vars, target, full, bodyRows, headRows>>

(* matchWithCrossProduct                                                   *)
MatchRuleTransaction ==
  LET pairsOfGid == Loaded(bodyRows, MatchGid, bodyRow) IN
  /\ ReadsGroup /\ full
  /\ MatchAll(MatchGid, {q.body : q \in pairsOfGid}, {q.head : q \in pairsOfGid})
  /\ UNCHANGED <<matching, headRow>>

(* matchWithoutCrossProduct: without heads for the group, the loop is left *)
(* as if there were none for the later ones either.                        *)
MatchItemTransaction ==
  LET found == FindGid(headRows, MatchGid, headRow) IN
  /\ ReadsGroup /\ ~full /\ Found(headRows, MatchGid, found)
  /\ headRow' = LoadEnd(headRows, MatchGid, found)
  /\ MatchAll(MatchGid, ItemsOf(Loaded(bodyRows, MatchGid, bodyRow)),
              ItemsOf(Loaded(headRows, MatchGid, found)))
  /\ UNCHANGED matching

NoMoreHeads ==
  LET found == FindGid(headRows, MatchGid, headRow) IN
  /\ ReadsGroup /\ ~full /\ ~Found(headRows, MatchGid, found)
  /\ headRow' = found /\ matching' = "print"
  /\ UNCHANGED matches

NoMoreGroups ==
  /\ matching = "read" /\ AfterLast(bodyRows, bodyRow)
  /\ matching' = "print"
  /\ UNCHANGED <<vars, target, full, bodyRows, headRows, bodyRow, headRow, matches>>

(* On the screen, or with -d into a table that exists and without a match. *)
PrintMatches ==
  /\ matching = "print"
  /\ matching' = "done"
  /\ UNCHANGED <<vars, target, full, bodyRows, headRows, bodyRow, headRow, matches>>

(* With -d the INSERT is prepared first, which fails unless the table      *)
(* exists, and the first match creates the table, which fails if it does.  *)
SaveMatches ==
  /\ matching = "print"
  /\ matching' = "failed"
  /\ UNCHANGED <<vars, target, full, bodyRows, headRows, bodyRow, headRow, matches>>

MatchStep ==
  \/ MatchRuleTransaction \/ MatchItemTransaction \/ NoMoreHeads \/ NoMoreGroups
  \/ PrintMatches \/ SaveMatches

(* The program that mines, and a user who may then start mr-match.         *)
MineAndMatch ==
  \/ Next /\ UNCHANGED matchVars
  \/ OpenSourceTable
  \/ MatchStep

MatchSpec ==
  /\ MatchInit /\ [][MineAndMatch]_<<vars, matchVars>>
  /\ WF_vars(Next /\ UNCHANGED matchVars) /\ WF_matchVars(MatchStep)

-----------------------------------------------------------------------------
ItemsIn(t, g, side) == {t[i].item : i \in {j \in DOMAIN t : t[j].gid = g /\ t[j][side]}}

(* The groups of t in which the rule holds, in their order.                *)
HoldingGroups(t, r) ==
  InOrder({g \in Groups :
    /\ r.body \subseteq ItemsIn(t, g, "body") /\ r.head \subseteq ItemsIn(t, g, "head")
    /\ \A b \in r.body : \A h \in r.head : <<b, h>> \in job.cross /\ ~(job.same /\ b = h)})

HeadsInEveryGroup ==
  \A g \in Groups : ItemsIn(target, g, "body") # {} => ItemsIn(target, g, "head") # {}

(* mr-match lists for each rule the groups of the table in which it holds, *)
(* in order.  Two cursors that move over the groups give them all if each  *)
(* group has heads, and never another one.  A cross condition is only      *)
(* looked at for one item of a rule at a time: no group is lost by that.   *)
Matched ==
  matching = "done" =>
    \A k \in DOMAIN rules :
      LET holding == HoldingGroups(target, rules[k])
          IsPrefix(s, t) == Len(s) <= Len(t) /\ s = SubSeq(t, 1, Len(s))
      IN /\ ~job.crossing => IsPrefix(matches[k], holding)
         /\ full \/ HeadsInEveryGroup =>
              \A i \in DOMAIN holding : \E j \in DOMAIN matches[k] : matches[k][j] = holding[i]

(* Both programs end: the miner, and mr-match once it is started.          *)
MatchEnds == Ends /\ (matching = "read" ~> matching \in {"done", "failed"})
=============================================================================
