----------------------------- MODULE MinerScan ------------------------------
(***************************************************************************)
(* Scanning as one miner thread does it (minerThreadFn in miner.cpp): the  *)
(* nonces of NonceScan are tried in the batches of TargetCheck, the nonce  *)
(* a batch reports is where the scan goes on, and it is the one submitted. *)
(***************************************************************************)
EXTENDS NonceScan, TargetCheck

ASSUME JobsAssumption ==
  /\ Jobs = 0..(throughput - 1)
  /\ throughput <= NonceMod

VARIABLES
  h_submitted   (* history: the nonces submitted since one was drawn *)

msVars == <<scanVars, checkVars, h_submitted>>

(* The job of a batch from start whose nonce is the sentinel, if any. *)
SentinelJobs(start) == {j \in Jobs : Plus(start, j) = Sentinel}

MsTypeOK ==
  /\ ScanTypeOK
  /\ CheckTypeOK
  /\ h_submitted \subseteq Nonces

MsInit ==
  /\ ScanInit
  /\ CheckInit
  /\ mute = SentinelJobs(s_nonce)
  /\ h_submitted = {}

-----------------------------------------------------------------------------
(* The top of the loop: other work, or a rejected share, ... *)
MsDraw(n) ==
  /\ DrawNonce(n)
  /\ h_submitted' = {}
  /\ UNCHANGED checkVars

(* ... or the same work again. *)
MsIncrement ==
  /\ IncrementNonce
  /\ UNCHANGED <<checkVars, h_submitted>>

(* The kernels are launched; the target changes only with the work. *)
MsLaunch(t, results) ==
  /\ scanPc = "scan"
  /\ t = target \/ h_count = 0
  /\ NextBatch(t, results, SentinelJobs(s_nonce))
  /\ UNCHANGED <<scanVars, h_submitted>>

MsCompute ==
  /\ (\E j \in Jobs : JobCompares(j)) \/ BatchEnds
  /\ UNCHANGED <<scanVars, h_submitted>>

(* The host reads the output, moves to the nonce it holds, if any, checks  *)
(* it and submits it.                                                      *)
MsRead ==
  /\ HostChecks
  /\ IF output = NoJob THEN ScanNothing ELSE ScanReports(output)
  /\ h_submitted' = IF submitted' = NoJob THEN h_submitted
                    ELSE h_submitted \cup {s_nonce'}

MsAdvance ==
  /\ Advance
  /\ UNCHANGED <<checkVars, h_submitted>>

MsNext ==
  \/ \E n \in Nonces : MsDraw(n)
  \/ MsIncrement
  \/ \E t \in Targets, results \in [Jobs -> Numbers] : MsLaunch(t, results)
  \/ MsCompute
  \/ MsRead
  \/ MsAdvance

MsSpec == MsInit /\ [][MsNext]_msVars

-----------------------------------------------------------------------------
(* No nonce is submitted twice for one draw: the pool would reject the     *)
(* second as a duplicate, which pauses the miner.  The nonce submitted is  *)
(* the one the scan was moved to, several batches and a wrap of s_nonce    *)
(* after others (miner.cpp 714, 807-811, 441, 445).                        *)
NoShareTwice ==
  [][\A n \in Nonces : submitted = NoJob /\ submitted' # NoJob /\ n = s_nonce'
       => n \notin h_submitted]_msVars

(* The scan implements NonceTrials, a batch being under way from its       *)
(* launch until the host has read it: it tries only fresh nonces, submits  *)
(* one share of a batch at most, and misses a batch's shares only behind a *)
(* decoy, although the scan itself moves to whatever nonce the host reads  *)
(* (miner.cpp 668-816, 435-445, _kernel.h 1873-1882).                      *)
UnderWay(J) == IF checkPc = "checked" THEN {} ELSE {Plus(s_nonce, j) : j \in J}

ShareJobs == {j \in Jobs : Less(result[j], target)}
DecoyJobs == {j \in Jobs : Passes(j) /\ (Less(result[j], target) => j \in mute)}

Trials == INSTANCE NonceTrials
            WITH tried <- h_tried, submitted <- h_submitted, batch <- UnderWay(Jobs),
                 shares <- UnderWay(ShareJobs), decoys <- UnderWay(DecoyJobs)

TrialSpec == Trials!TrialSpec
=============================================================================
