---------------------------- MODULE TargetCheck -----------------------------
(***************************************************************************)
(* How a batch finds a share: every job of the GPU compares the top limb   *)
(* of its result with one limb of the target, the jobs that pass write     *)
(* their nonce to the same output word, and the CPU compares the whole     *)
(* result of the one that stays with the whole target (search2 in          *)
(* _kernel.h, minerThreadFn and hash in miner.cpp).                        *)
(*                                                                         *)
(* A result or a target is the sequence of its limbs, the most significant *)
(* one first.                                                              *)
(***************************************************************************)
EXTENDS Naturals, Sequences

CONSTANTS
  Base,      (* a limb is in 0..Base-1: 2^64                                *)
  NumLimbs,  (* limbs of a result and of a target: 4                        *)
  Jobs,      (* the jobs of a batch                                         *)
  NoJob      (* the output word holds the sentinel nonce                    *)

ASSUME TargetCheckAssumption ==
  /\ Base \in Nat /\ Base > 0
  /\ NumLimbs \in Nat /\ NumLimbs > 0
  /\ NoJob \notin Jobs

VARIABLES
  checkPc,   (* "batch", "read" or "checked"                                *)
  target,    (* prms.mpz_target                                             *)
  result,    (* the hash of each job's nonce                                *)
  mute,      (* the jobs whose nonce is the sentinel: one at most           *)
  pending,   (* the jobs that have not compared their result yet            *)
  output,    (* the job whose nonce is in output[0]                         *)
  submitted  (* the job whose nonce is submitted, if any                    *)

checkVars == <<checkPc, target, result, mute, pending, output, submitted>>

Limb    == 0..(Base - 1)
Numbers == [1..NumLimbs -> Limb]

(* mpz_cmp(a, b) < 0 *)
Less(a, b) ==
  \E i \in 1..NumLimbs : a[i] < b[i] /\ \A j \in 1..(i - 1) : a[j] = b[j]

IsZero(t) == \A i \in 1..NumLimbs : t[i] = 0

(* mpz_export writes no leading zero limbs: the first limb of its result   *)
(* is the most significant limb that is not zero.  A target of zero does   *)
(* not get here: computeDifficulty divides by it.                          *)
(* In the mutant of LeTarget the least significant limb comes first.       *)
LeastLimb(t) == t[NumLimbs]

LeTarget(t) ==
  t[CHOOSE i \in 1..NumLimbs : t[i] # 0 /\ \A j \in 1..(i - 1) : t[j] = 0]

Targets == {t \in Numbers : ~IsZero(t)}

(* The nonces of a batch are different, so at most one is the sentinel. *)
MuteSets == {{}} \cup {{j} : j \in Jobs}

CheckTypeOK ==
  /\ checkPc \in {"batch", "read", "checked"}
  /\ target \in Numbers
  /\ result \in [Jobs -> Numbers]
  /\ mute \subseteq Jobs
  /\ pending \subseteq Jobs
  /\ output \in Jobs \cup {NoJob}
  /\ submitted \in Jobs \cup {NoJob}

CheckInit ==
  /\ checkPc = "batch"
  /\ target \in Targets
  /\ result \in [Jobs -> Numbers]
  /\ mute \in MuteSets
  /\ pending = Jobs
  /\ output = NoJob
  /\ submitted = NoJob

-----------------------------------------------------------------------------
(* jim <= target *)
Passes(j) == result[j][1] <= LeTarget(target)

(* The nonce of a job as the host will read it. *)
Word(j) == IF j \in mute THEN NoJob ELSE j

(* One job compares and may overwrite the nonce of another one; a job      *)
(* whose own nonce is the sentinel leaves no trace of either.              *)
JobCompares(j) ==
  /\ checkPc = "batch"
  /\ j \in pending
  /\ pending' = pending \ {j}
  /\ output' = IF Passes(j) THEN Word(j) ELSE output
  /\ UNCHANGED <<checkPc, target, result, mute, submitted>>

BatchEnds ==
  /\ checkPc = "batch"
  /\ pending = {}
  /\ checkPc' = "read"
  /\ UNCHANGED <<target, result, mute, pending, output, submitted>>

(* Mutant of HostChecks: the nonce the GPU reports is submitted unchecked. *)
HostTrusts ==
  /\ checkPc = "read"
  /\ checkPc' = "checked"
  /\ submitted' = output
  /\ UNCHANGED <<target, result, mute, pending, output>>

(* hash() recomputes the result of the reported nonce and compares it. *)
HostChecks ==
  /\ checkPc = "read"
  /\ checkPc' = "checked"
  /\ submitted' = IF output # NoJob /\ Less(result[output], target)
                    THEN output ELSE NoJob
  /\ UNCHANGED <<target, result, mute, pending, output>>

(* The next batch: the output word holds the sentinel again. *)
NextBatch(t, results, sentinels) ==
  /\ checkPc = "checked"
  /\ checkPc' = "batch"
  /\ target' = t
  /\ result' = results
  /\ mute' = sentinels
  /\ pending' = Jobs
  /\ output' = NoJob
  /\ submitted' = NoJob

CheckNext ==
  \/ \E j \in Jobs : JobCompares(j)
  \/ BatchEnds
  \/ HostChecks
  \/ \E t \in Targets, results \in [Jobs -> Numbers], sentinels \in MuteSets :
       NextBatch(t, results, sentinels)

CheckSpec == CheckInit /\ [][CheckNext]_checkVars

-----------------------------------------------------------------------------
(* Only a share is submitted: a result below the target (miner.cpp 435).   *)
OnlyShares == submitted # NoJob => Less(result[submitted], target)

(* A batch with a share submits one, unless the output was overwritten by  *)
(* a job that passes the one-limb test and fails the whole comparison, or  *)
(* by the job whose nonce is the sentinel (_kernel.h 1878, miner.cpp       *)
(* 722-724, 435, 807).                                                     *)
ShareNotMissed ==
  checkPc = "checked" /\ submitted = NoJob /\ (\E j \in Jobs : Less(result[j], target))
    => \/ \E k \in Jobs : output = k /\ ~Less(result[k], target)
       \/ \E k \in mute : Passes(k)

(* The one-limb test misjudges a result only on a tie in that limb, when   *)
(* the target has no leading zero limb: below the top limb of the target   *)
(* there are no false positives to overwrite a share (miner.cpp 722-724).  *)
FalsePositivesTie ==
  target[1] # 0 =>
    \A j \in Jobs : Passes(j) /\ ~Less(result[j], target) => result[j][1] = target[1]
=============================================================================
