----------------------------- MODULE MCPooledList -----------------------------
(***************************************************************************)
(* Instances of PooledList for TLC.                                        *)
(***************************************************************************)
EXTENDS PooledList, TLC

CONSTANTS big, small

(* No operation tells one list from another. *)
Symmetry == Permutations(Lists)

Sizes == big :> 3 @@ small :> 1

===============================================================================
