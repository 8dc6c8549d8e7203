----------------------------- MODULE MCAquaMiner ----------------------------
(***************************************************************************)
(* Works of two blocks, or one work only.  Symmetry is for the runs that   *)
(* check no liveness property.                                             *)
(***************************************************************************)
EXTENDS AquaMiner, TLC

CONSTANTS w1, w2, blockA, blockB

OneWork   == {w1}
TwoWorks  == {w1, w2}
OneHash   == [w \in OneWork |-> blockA]
TwoHashes == [w \in TwoWorks |-> IF w = w1 THEN blockA ELSE blockB]

ShareSymmetry == Permutations(Shares)
=============================================================================
