------------------------------ MODULE MCServer ------------------------------
(***************************************************************************)
(* Goals for the action server runs.                                       *)
(***************************************************************************)
EXTENDS ServerRefinement, TLC

CONSTANTS g1, g2, bad

TwoGoals == {g1, g2}
OneMalformed == {g1, bad}
ThreeGoals == {g1, g2, bad}
TwoAlike == Permutations(TwoGoals)
=============================================================================
