---------------------------- MODULE MCRowSettlement ----------------------------
(* An instance of RowSettlement: a settlement with a cost and one without, for a race
   with two billed losers.  The costs are distinct powers of two, so that every sum
   names its summands. *)
EXTENDS RowSettlement, TLC, Folds

CONSTANTS s1, s2, l1, l2

Costs == (s1 :> 8) @@ (s2 :> None)
LoserCosts == (l1 :> 1) @@ (l2 :> 2)
Totals == [S \in SUBSET {l1, l2} |-> MapThenFoldSet(+, 0, LAMBDA l : LoserCosts[l],
                                                     LAMBDA T : CHOOSE l \in T : TRUE, S)]
=============================================================================
