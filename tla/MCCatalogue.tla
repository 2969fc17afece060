----------------------------- MODULE MCCatalogue -----------------------------
(* Instances of Catalogue for TLC: the texts and how they are related.     *)
EXTENDS CatalogueInv

CONSTANTS p1, p2, n1, n2, n3, ta, tb, tc, td, te

(* ta and tb are answered by each other, ta dominates tc (item dependent)  *)
(* and td (context dependent), te is a combination of ta and tc.           *)
Same == {<<t, t>> : t \in Texts}
Equivalence_ab == Same \cup ({<<ta, tb>>, <<tb, ta>>} \cap (Texts \X Texts))
Dominates_a ==
  {<<ta, tc>>, <<ta, td>>, <<tb, tc>>, <<tb, td>>} \cap (Texts \X Texts)
Combines_ac == {<<{ta, tc}, te>>} \cap ((SUBSET Texts) \X Texts)
None == {}

AllNames == [p \in Procs |-> Names]
OwnNames == [p \in Procs |-> IF p = p1 THEN {n1} ELSE Names \ {n1}]

(* Programs that overwrite homonyms under names of their own are as the    *)
(* proofs require.                                                         *)
ASSUME OwnNamesApart == Allowed = OwnNames /\ Overwrite => Apart
=============================================================================
