---------------------------- MODULE MCMinerMemory ---------------------------
(* One work; the miner threads and the shares are interchangeable. *)
EXTENDS MinerMemory, TLC

CONSTANTS w1, blockA

OneWork == {w1}
OneHash == [w \in OneWork |-> blockA]

AllSymmetry == Permutations(Shares) \cup Permutations(Miners)
=============================================================================
