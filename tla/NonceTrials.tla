----------------------------- MODULE NonceTrials -----------------------------
(***************************************************************************)
(* What the scan of one miner promises, whatever nonces it goes through    *)
(* and whichever job writes its result last.  It tries batches of nonces   *)
(* none of which was tried since it drew one.  Of a batch it submits one   *)
(* share at most, when the batch has been tried and before the next one;   *)
(* it submits none of a batch that has shares only behind a decoy, a nonce *)
(* the GPU reports that is not a share or not to be told from no report.   *)
(***************************************************************************)
CONSTANT Nonces

VARIABLES
  tried,     (* the nonces tried since one was drawn                        *)
  batch,     (* the nonces of the batch under way, {} between two           *)
  shares,    (* those of them that are shares                               *)
  decoys,    (* and those that can hide one                                 *)
  submitted  (* the nonces submitted since one was drawn                    *)

trialVars == <<tried, batch, shares, decoys, submitted>>

SomeBatch(B, S, D) == B # {} /\ B \subseteq Nonces /\ S \subseteq B /\ D \subseteq B

TrialInit ==
  /\ tried = {} /\ submitted = {}
  /\ SomeBatch(batch, shares, decoys)

Draw ==
  /\ batch = {}
  /\ tried' = {} /\ submitted' = {}
  /\ UNCHANGED <<batch, shares, decoys>>

Launch ==
  /\ batch = {}
  /\ SomeBatch(batch', shares', decoys')
  /\ UNCHANGED <<tried, submitted>>

(* The nonces of S are submitted: one share of the batch, or none. *)
Finish(S) ==
  /\ batch # {}
  /\ batch \cap tried = {}
  /\ S = {} => shares = {} \/ decoys # {}
  /\ tried' = tried \cup batch
  /\ submitted' = submitted \cup S
  /\ batch' = {} /\ shares' = {} /\ decoys' = {}

TrialNext ==
  \/ Draw
  \/ Launch
  \/ \E S \in {{}} \cup {{n} : n \in shares} : Finish(S)

TrialSpec == TrialInit /\ [][TrialNext]_trialVars
=============================================================================
