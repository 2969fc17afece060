---------------------------- MODULE CatalogueInv ----------------------------
(***************************************************************************)
(* The inductive invariant behind Intact: what the catalogue, the tables   *)
(* and the one running session look like at every label, under the options *)
(* and the use of the programs for which the answers stay whole; the same  *)
(* for programs on names of their own; and those about attribute lists.    *)
(***************************************************************************)
EXTENDS Catalogue

(* One program at a time, homonyms overwritten, no reuse of past results   *)
(* when writes are cached, and no kill in the middle of a cascade.         *)
Careful ==
  /\ Serial /\ Overwrite
  /\ CacheWrites => ~TryOptimizations
  /\ Cascade => ~Crashes

Alone == \A p, q \in Procs : pc[p] # "idle" /\ pc[q] # "idle" => p = q

IdsUnique == \A r, s \in mr_query : r.id = s.id => r = s

HasOwner(r) == \E o \in mr_query : o.name = r.res /\ o.res = r.res

(* A row loses its owner only while a cascade is about to delete it too.   *)
OwnedOrDoomed ==
  \A r \in mr_query :
    HasOwner(r) \/ (Cascade /\ \E p \in Procs : pc[p] = "delete" /\ r \in sess[p].rs)

(* At these labels a mr-query still has the result name of its minerule;   *)
(* the tables of that name are its own: no row points to them.             *)
Early == {"exists", "lookup", "victims", "delete", "drop", "catalogue", "sizes"}
Searching == {"catalogue", "sizes", "base", "count", "cursor", "elems"}
Writing == {"redrop", "probe", "create", "insert", "fill", "copy"}
Registering == {"select", "update", "store"}
Clear == Searching \cup Writing \cup Registering \cup {"drop", "original", "derived"}

(* The kinds still to be dropped or copied, and those still to be created. *)
Ahead(k) ==
  CASE k = "rules" -> Kinds [] k = "heads" -> {"heads", "bodies"} [] OTHER -> {k}
Uncreated(k) ==
  CASE k = "rules" -> Kinds [] k = "bodies" -> {"bodies", "heads"} [] OTHER -> {k}

(* Of the tables of n those in K hold c, the others of the text d.         *)
Holding(n, K, c, d) ==
  \A k \in Kinds :
    tables[n][k] = IF k \in K THEN c ELSE d

(* A past minerule the session may reuse.                                  *)
Reusable(s, b) ==
  /\ b \in mr_query
  /\ s.rel = "Equivalence" => <<b.text, s.text>> \in Equivalents

(* The session is reading the result of the one minerule in base.          *)
Reading1(s) ==
  \E b \in mr_query : s.base = {b} /\ s.src = b.res /\ Reusable(s, b)

(* What holds of a session s at label l.                                   *)
Good(l, s) ==
  /\ l # "idle" => s.sound
  /\ l \in Early => s.rel = "None"
  /\ l \in Searching \cup Writing \cup {"exists"} => s.op = "query"
  /\ l \notin Registering \cup {"idle"} /\ s.op # "delete" => s.res = s.name
  /\ l \in {"original", "derived"} => s.op = "derive"
  /\ l = "delete" => s.rs = Dependent(s.name) /\ (Cascade \/ \A r, q \in s.rs : r = q)
  /\ l \in Clear => Dependent(s.name) = {}
  /\ l \in Searching => ~CacheWrites
  /\ l = "sizes" => s.past \subseteq mr_query
  /\ l = "base" => s.rs = {} /\ \A b \in s.base : Reusable(s, b)
  /\ l \in {"count", "cursor", "elems"} =>
       Reading1(s) /\ \A b \in s.rs : Reusable(s, b)
  /\ l = "elems" => ~ReadsLazily(s)
  /\ l \in Writing => (ReadsLazily(s) => Reading1(s)) /\ (s.rel # "None" => ~CacheWrites)
  /\ l = "redrop" => \A k \in Kinds \ Ahead(s.kind) : tables[s.name][k] = Absent
  /\ l \in {"probe", "create"} =>
       Holding(s.name, Uncreated(s.kind), Absent, Empty)
  /\ l = "insert" => Holding(s.name, Kinds, Empty, Empty)
  /\ l = "copy" => Holding(s.name, Ahead(s.kind), Empty, s.text)
  /\ l = "original" => \A r \in Named(s.orig) : Whole(s.name, r.text)
  /\ l = "derived" => Whole(s.name, s.text)
  /\ l \in Registering =>
       /\ Whole(s.res, s.text)
       /\ s.res = s.name \/ \E o \in mr_query : o.name = s.res /\ o.res = s.res

(* Between its first and its last INSERT the tables hold the session's.    *)
Filling ==
  \A p \in Procs : pc[p] = "fill" =>
    \A k \in Kinds : tables[sess[p].name][k] = p

IInv ==
  /\ TypeOK
  /\ Alone
  /\ IdsUnique
  /\ NamesUnique
  /\ OwnedOrDoomed
  /\ Intact
  /\ Filling
  /\ \A p \in Procs : Good(pc[p], sess[p])
-----------------------------------------------------------------------------
(* The inductive invariant behind Intact for programs that run at the same *)
(* time on names of their own.                                             *)

(* They share the catalogue, but no table: homonyms are overwritten, no    *)
(* text has a past result to reuse, and none is derived from a result that *)
(* another program may change meanwhile.                                   *)
Apart ==
  /\ \A p, q \in Procs : p # q => Allowed[p] \cap Allowed[q] = {}
  /\ Overwrite /\ "derive" \notin Commands
  /\ TryOptimizations => \A t \in Texts \ Itemsets :
       ~HasIncremental(t) /\ \A u \in Texts : <<u, t>> \notin Equivalents

(* What holds of a session s of p at label l: no row has its name while it *)
(* drops, creates and fills the tables of that name, and nobody else does. *)
Undisturbed(p, l, s) ==
  /\ l \notin {"base", "count", "cursor", "elems", "original", "derived"}
  /\ l # "idle" => s.name \in Allowed[p] /\ s.sound /\ s.rel = "None"
  /\ l \notin {"idle", "lookup", "victims", "delete", "drop"} => s.op = "query"
  /\ l # "idle" /\ s.op = "query" => s.res = s.name
  /\ l = "delete" => s.rs = Named(s.name)
  /\ l \in Clear => Named(s.name) = {}
  /\ l \in {"catalogue", "sizes"} => TryOptimizations /\ s.text \notin Itemsets
  /\ l = "redrop" => \A k \in Kinds \ Ahead(s.kind) : tables[s.name][k] = Absent
  /\ l \in {"probe", "create"} => Holding(s.name, Uncreated(s.kind), Absent, Empty)
  /\ l = "insert" => Holding(s.name, Kinds, Empty, Empty)
  /\ l = "fill" => Holding(s.name, Kinds, p, p)
  /\ l = "copy" => Holding(s.name, Ahead(s.kind), Empty, s.text)
  /\ l \in Registering => Whole(s.name, s.text)

ApartInv ==
  /\ TypeOK
  /\ IdsUnique
  /\ NamesUnique
  /\ Intact
  /\ \A r \in mr_query : r.res = r.name
  /\ \A p \in Procs : Undisturbed(p, pc[p], sess[p])
-----------------------------------------------------------------------------
(* The inductive invariants behind ListsStored and ListsPrivate.           *)

(* The lists a session has stored so far are in mr_att_lists, as are those *)
(* of the rows; whatever the others do, nothing removes them.              *)
SessionListsStored ==
  \A p \in Procs : \A l \in Lists :
    sess[p].lists[l] # 0 => [id |-> sess[p].lists[l], list |-> l] \in mr_att_lists

StoredInv == TypeOK /\ ListsStored /\ SessionListsStored

LastList == mr_autoincrement["mr_att_lists"]

(* No id of a list is above the counter; the one a session s at label l is *)
(* about to store is the counter's and nobody's; those it has stored are   *)
(* distinct and no row's.                                                  *)
Numbered(l, s) ==
  /\ \A k \in Lists : s.lists[k] <= LastList
  /\ l = "idle" => \A k \in Lists : s.lists[k] = 0
  /\ \A k, m \in Lists : s.lists[k] = s.lists[m] /\ s.lists[k] # 0 => k = m
  /\ \A r \in mr_query : \A k, m \in Lists : s.lists[k] = r.lists[m] => r.lists[m] = 0
  /\ l = "update" /\ s.list # "none" => s.id = LastList + 1
  /\ l = "store" /\ s.list # "none" =>
       /\ s.id = LastList /\ s.id # 0
       /\ \A k \in Lists : s.lists[k] # s.id
       /\ \A r \in mr_query : \A k \in Lists : r.lists[k] # s.id

PrivateInv ==
  /\ TypeOK
  /\ Alone
  /\ ListsPrivate
  /\ \A r \in mr_query : \A l \in Lists : r.lists[l] <= LastList
  /\ \A p \in Procs : Numbered(pc[p], sess[p])
=============================================================================
