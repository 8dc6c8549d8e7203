------------------------------ MODULE WorkItems ------------------------------
(***************************************************************************)
(* One job of a batch at the level of work items and words: search fills   *)
(* its first two blocks (BlockHash), the 32 items of search1 mix a block   *)
(* (Shuffle), search2 hashes the last one (BlockHash).  The host starts    *)
(* each kernel when the one before it has finished (clFinish in            *)
(* minerThreadFn, miner.cpp 762-796).  Which blocks search1 mixes, and     *)
(* from which references, is in FillMemory; here it mixes one.             *)
(***************************************************************************)
EXTENDS Shuffle, BlockHash

itemVars == <<shufVars, hashVars>>

ItemInit == ShufInit /\ HashInit

RunSearch  == SearchStep /\ UNCHANGED shufVars
RunSearch1 == hashPc = "searched" /\ WarpStep /\ UNCHANGED hashVars
RunSearch2 == StepDone /\ Search2Step /\ UNCHANGED shufVars

ItemNext == RunSearch \/ RunSearch1 \/ RunSearch2

ItemSpec == ItemInit /\ [][ItemNext]_itemVars
=============================================================================
