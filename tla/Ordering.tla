------------------------------ MODULE Ordering ------------------------------
(***************************************************************************)
(* How the models put things in order: finite sets of numbers, or of pairs *)
(* of numbers, as the sequence in which the database returns them or a     *)
(* std::set or std::map holds them.                                        *)
(***************************************************************************)
EXTENDS Naturals, Sequences, FiniteSets

Size(S) == Cardinality(S)

(* The pairs of a finite set by their first member, then by the second.    *)
Precedes(p, q) == p[1] < q[1] \/ (p[1] = q[1] /\ p[2] <= q[2])
Listed[S \in SUBSET (Nat \X Nat)] ==
  [k \in 1 .. Size(S) |-> CHOOSE p \in S : Size({q \in S : Precedes(q, p)}) = k]

(* The items of S by increasing key; the keys of a std::map by themselves. *)
OrderedBy(S, key) ==
  LET listed == Listed[{<<key[i], i>> : i \in S}] IN [k \in DOMAIN listed |-> listed[k][2]]
InOrder(S) == [k \in 1 .. Size(S) |-> CHOOSE i \in S : Size({j \in S : j <= i}) = k]

(* The members of the sequence q at the positions in S, in their order.    *)
Selected(q, S) == LET at == InOrder(S) IN [k \in DOMAIN at |-> q[at[k]]]

Least(S) == CHOOSE i \in S : \A j \in S : i <= j
Greatest(S) == CHOOSE i \in S : \A j \in S : j <= i
=============================================================================
