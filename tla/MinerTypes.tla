----------------------------- MODULE MinerTypes -----------------------------
(***************************************************************************)
(* The parameters shared by the modules that model the threads of the      *)
(* miner: the update thread (updateThread.cpp), the miner threads and the  *)
(* submit threads (miner.cpp) and main (main.cpp).                         *)
(***************************************************************************)
EXTENDS Naturals, FiniteSets

CONSTANTS
  Works,          (* the WorkParams records the pool or node can serve      *)
  NoWork,         (* a default-constructed WorkParams: its hash is empty    *)
  WorkHash,       (* the hash of each work; a pool may serve several works  *)
                  (* with one hash (same block, another share target)       *)
  NoHash,         (* the empty hash                                         *)
  Miners,         (* the miner threads, one for each configured GPU         *)
  Shares,         (* the shares the GPUs can find: a bound on their number  *)
  NoShare,        (* "no share", e.g. the submit mutex is free              *)
  SoloMine,       (* miningConfig().soloMine                                *)
  SubmitEnabled   (* submitEnabled(): FALSE when --argon parameters are     *)
                  (* tested and --submit is not given                       *)

ASSUME WorksAssumption ==
  /\ Works # {}
  /\ NoWork \notin Works
  /\ WorkHash \in [Works -> {WorkHash[w] : w \in Works}]
  /\ \A w \in Works : WorkHash[w] # NoHash

ASSUME MinersAssumption ==
  /\ IsFiniteSet(Miners)
  /\ Miners # {}

ASSUME SharesAssumption ==
  /\ IsFiniteSet(Shares)
  /\ NoShare \notin Shares

ASSUME ModeAssumption ==
  /\ SoloMine \in BOOLEAN
  /\ SubmitEnabled \in BOOLEAN

(* The value of a WorkParams variable, and the hash member of one. *)
WorkParams == Works \cup {NoWork}
Hash(w)    == IF w = NoWork THEN NoHash ELSE WorkHash[w]
Hashes     == {Hash(w) : w \in WorkParams}
=============================================================================
