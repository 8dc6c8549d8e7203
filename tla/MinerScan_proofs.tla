-------------------------- MODULE MinerScan_proofs --------------------------
(***************************************************************************)
(* The scan of a miner thread: the nonces it tries, for any nonce space,   *)
(* any batch size and any choice of the reported nonces; the one-limb test *)
(* of the GPU and the whole comparison of the CPU, for any limb size and   *)
(* number of limbs; and the two composed: scanning implements NonceScan    *)
(* and TargetCheck, so what is proved of the two holds of it, and it       *)
(* submits no nonce twice.                                                 *)
(***************************************************************************)
EXTENDS MinerScan, WellFoundedInduction, TLAPS

-----------------------------------------------------------------------------
(* Nonces: NonceScan by itself. *)

(* The nonces at a distance below n from the one drawn. *)
Passed(n) == {Plus(h_drawn, d) : d \in 0..(n - 1)}

(* NoRescan and HalfTried become inductive with the place of s_nonce in    *)
(* the scan and the place of the nonces tried behind it.                   *)
ScanInv ==
  /\ ScanTypeOK
  /\ h_span <= MaxSpan
  /\ s_nonce = Plus(h_drawn, h_span)
  /\ scanPc # "advance" => h_tried \subseteq Passed(h_span)
  /\ scanPc = "advance" => h_tried \subseteq Passed(h_span + throughput)
  /\ scanPc = "decide"  => h_span < 2 * h_count
  /\ scanPc = "scan"    => h_span <= 2 * h_count
  /\ scanPc = "advance" => h_span + throughput < 2 * h_count

(* Moving on by b from a nonce at a distance of a is being at a + b. *)
LEMMA PlusAdds ==
  ASSUME NEW n \in Nonces, NEW a \in Nat, NEW b \in Nat, a + b <= NonceMod
  PROVE  /\ Plus(Plus(n, a), b) = Plus(n, a + b)
         /\ a + b < NonceMod => Plus(n, a + b) \in Nonces
BY NonceScanAssumption DEF Plus, Nonces

(* Nonces at distances that differ by less than a turn are different. *)
LEMMA PlusInjective ==
  ASSUME NEW n \in Nonces, NEW a \in Nat, NEW b \in Nat,
         a < b, b < NonceMod
  PROVE  Plus(n, a) # Plus(n, b)
BY NonceScanAssumption DEF Plus, Nonces

(* A nonce moved on by at most a turn is a nonce. *)
LEMMA PlusType ==
  ASSUME NEW n \in Nonces, NEW a \in Nat, a <= NonceMod
  PROVE  Plus(n, a) \in Nonces
BY NonceScanAssumption DEF Plus, Nonces

(* The batch at s_nonce is the next throughput nonces of the scan. *)
LEMMA BatchPlace ==
  ASSUME ScanInv, h_span + throughput <= MaxSpan
  PROVE  Batch(s_nonce) = {Plus(h_drawn, h_span + i) : i \in 0..(throughput - 1)}
<1>1. \A i \in 0..(throughput - 1) : Plus(s_nonce, i) = Plus(h_drawn, h_span + i)
  BY PlusAdds, NonceScanAssumption DEF ScanInv, ScanTypeOK
<1> QED
  BY <1>1 DEF Batch

(* After a batch the nonces tried lie within h_span + throughput. *)
LEMMA TriesPlace ==
  ASSUME ScanInv, Tries
  PROVE  /\ h_tried' \subseteq Passed(h_span + throughput)
         /\ h_tried' \subseteq Nonces
<1> USE NonceScanAssumption
<1>1. h_tried \subseteq Passed(h_span) /\ h_tried' = h_tried \cup Batch(s_nonce)
  BY DEF ScanInv, Tries
<1>2. Passed(h_span) \subseteq Passed(h_span + throughput)
  BY DEF Passed, ScanInv, ScanTypeOK
<1>3. Batch(s_nonce) \subseteq Passed(h_span + throughput)
  <2> SUFFICES ASSUME NEW n \in Batch(s_nonce)
               PROVE  n \in Passed(h_span + throughput)
    OBVIOUS
  <2>1. PICK i \in 0..(throughput - 1) : n = Plus(h_drawn, h_span + i)
    BY BatchPlace DEF Tries
  <2>2. h_span + i \in 0..((h_span + throughput) - 1)
    BY DEF ScanInv, ScanTypeOK
  <2> QED
    BY <2>1, <2>2 DEF Passed
<1>4. Batch(s_nonce) \subseteq Nonces
  BY PlusType DEF Batch, ScanInv, ScanTypeOK, Tries
<1> QED
  BY <1>1, <1>2, <1>3, <1>4 DEF ScanInv, ScanTypeOK

LEMMA ScanStepKeepsInv ==
  ASSUME ScanInv, [ScanNext]_scanVars
  PROVE  ScanInv'
<1> USE NonceScanAssumption
<1>1. ASSUME NEW n \in Nonces, DrawNonce(n) PROVE ScanInv'
  BY <1>1 DEF DrawNonce, ScanInv, ScanTypeOK, Plus, Nonces
<1>2. ASSUME IncrementNonce PROVE ScanInv'
  <2>1. s_nonce' = Plus(h_drawn, h_span + 1) /\ s_nonce' \in Nonces
    BY <1>2, PlusAdds, PlusType DEF IncrementNonce, ScanInv, ScanTypeOK
  <2>2. h_tried' \subseteq Passed(h_span + 1)
    BY <1>2 DEF IncrementNonce, ScanInv, ScanTypeOK, Passed
  <2> QED
    BY <1>2, <2>1, <2>2 DEF IncrementNonce, ScanInv, ScanTypeOK, Passed
<1>3. ASSUME ScanNothing PROVE ScanInv'
  <2>1. Tries
    BY <1>3 DEF ScanNothing
  <2>2. h_tried' \subseteq Passed(h_span + throughput) /\ h_tried' \subseteq Nonces
    BY <2>1, TriesPlace
  <2> QED
    BY <1>3, <2>2 DEF ScanNothing, Tries, ScanInv, ScanTypeOK, Passed
<1>4. ASSUME NEW jobId \in 0..(throughput - 1), ScanReports(jobId) PROVE ScanInv'
  <2>1. Tries
    BY <1>4 DEF ScanReports
  <2>2. h_tried' \subseteq Passed(h_span + throughput) /\ h_tried' \subseteq Nonces
    BY <2>1, TriesPlace
  <2>3. Passed(h_span + throughput) \subseteq Passed(h_span + jobId + throughput)
    BY DEF Passed, ScanInv, ScanTypeOK
  <2>4. s_nonce' = Plus(h_drawn, h_span + jobId) /\ s_nonce' \in Nonces
    BY <1>4, PlusAdds, PlusType DEF ScanReports, Tries, ScanInv, ScanTypeOK
  <2>5. Passed(h_span + throughput)' = Passed(h_span + jobId + throughput)
    BY <1>4 DEF ScanReports, Tries, Passed
  <2>6. h_tried' \subseteq Passed(h_span + throughput)'
    BY <2>2, <2>3, <2>5
  <2> QED
    BY <1>4, <2>2, <2>4, <2>6 DEF ScanReports, Tries, ScanInv, ScanTypeOK
<1>5. ASSUME Advance PROVE ScanInv'
  <2>1. s_nonce' = Plus(h_drawn, h_span + throughput) /\ s_nonce' \in Nonces
    BY <1>5, PlusAdds, PlusType DEF Advance, ScanInv, ScanTypeOK
  <2> QED
    BY <1>5, <2>1 DEF Advance, ScanInv, ScanTypeOK, Passed
<1>6. ASSUME UNCHANGED scanVars PROVE ScanInv'
  BY <1>6 DEF scanVars, ScanInv, ScanTypeOK, Passed
<1> QED
  BY <1>1, <1>2, <1>3, <1>4, <1>5, <1>6 DEF ScanNext

LEMMA ScanInvHolds == ScanSpec => []ScanInv
<1> USE NonceScanAssumption
<1>1. ScanInit => ScanInv
  BY DEF ScanInit, ScanInv, ScanTypeOK, Plus, Nonces
<1>2. ScanInv /\ [ScanNext]_scanVars => ScanInv'
  BY ScanStepKeepsInv
<1> QED
  BY <1>1, <1>2, PTL DEF ScanSpec

(* The type invariant of a scan (miner.cpp 100, _kernel.h 1300). *)
THEOREM ScanTyping == ScanSpec => []ScanTypeOK
<1>1. ScanInv => ScanTypeOK
  BY DEF ScanInv
<1> QED
  BY <1>1, ScanInvHolds, PTL

(* The batch that comes next has only nonces that were not tried yet. *)
LEMMA NextBatchIsNew ==
  ASSUME ScanInv, scanPc = "scan", h_span + throughput <= MaxSpan
  PROVE  Batch(s_nonce) \cap h_tried = {}
<1> SUFFICES ASSUME NEW n \in Batch(s_nonce), n \in h_tried
             PROVE  FALSE
  OBVIOUS
<1>1. PICK i \in 0..(throughput - 1) : n = Plus(h_drawn, h_span + i)
  BY BatchPlace
<1>2. PICK d \in 0..(h_span - 1) : n = Plus(h_drawn, d)
  BY DEF ScanInv, Passed
<1>3. d < h_span + i /\ h_span + i < NonceMod
  BY NonceScanAssumption DEF ScanInv, ScanTypeOK
<1> QED
  BY <1>1, <1>2, <1>3, PlusInjective, NonceScanAssumption DEF ScanInv, ScanTypeOK

(* No nonce is tried twice within one turn of a scan (miner.cpp 690-715    *)
(* and 807-811, _kernel.h 1300 and 1844).                                  *)
THEOREM NeverRescans == ScanSpec => []NoRescan
<1>1. ScanInv => NoRescan
  BY NextBatchIsNew DEF NoRescan
<1> QED
  BY <1>1, ScanInvHolds, PTL

(* Half of the nonces passed are tried at least (miner.cpp 714, 807-811). *)
THEOREM TriesHalf == ScanSpec => []HalfTried
<1>1. ScanInv => HalfTried
  BY DEF ScanInv, HalfTried
<1> QED
  BY <1>1, ScanInvHolds, PTL

-----------------------------------------------------------------------------
(* Targets: TargetCheck by itself. *)

(* Every set of naturals that is not empty has a least element. *)
LEMMA LeastElement ==
  ASSUME NEW S \in SUBSET Nat, S # {}
  PROVE  \E i \in S : \A k \in S : i <= k
<1> DEFINE R == OpToRel(<, Nat)
<1>1. IsWellFoundedOn(R, Nat)
  BY NatLessThanWellFounded
<1>2. PICK i \in S : \A k \in S : ~(<<k, i>> \in R)
  <2> HIDE DEF R
  <2> QED
    BY <1>1, WFMin
<1>3. \A k \in S : ~(k < i)
  BY <1>2 DEF OpToRel
<1> HIDE DEF R
<1> QED
  BY <1>3

(* A target that is not zero has a first limb that is not zero: the one    *)
(* mpz_export puts first (miner.cpp 723-724).                              *)
LEMMA FirstLimb ==
  ASSUME NEW t \in Numbers, ~IsZero(t)
  PROVE  \E i \in 1..NumLimbs :
           /\ t[i] # 0
           /\ \A j \in 1..(i - 1) : t[j] = 0
           /\ LeTarget(t) = t[i]
<1> USE TargetCheckAssumption
<1> DEFINE S == {i \in 1..NumLimbs : t[i] # 0}
           Leading(i) == t[i] # 0 /\ \A j \in 1..(i - 1) : t[j] = 0
<1>1. PICK i \in S : \A k \in S : i <= k
  <2>1. S \subseteq Nat /\ S # {}
    BY DEF IsZero
  <2> QED
    BY <2>1, LeastElement
<1>2. \A j \in 1..(i - 1) : t[j] = 0
  BY <1>1
<1>3. \E k \in 1..NumLimbs : Leading(k)
  BY <1>1, <1>2
<1> DEFINE c == CHOOSE k \in 1..NumLimbs : t[k] # 0 /\ \A j \in 1..(k - 1) : t[j] = 0
<1>4. c \in 1..NumLimbs /\ Leading(c)
  BY <1>3
<1>5. LeTarget(t) = t[c]
  BY DEF LeTarget
<1> QED
  BY <1>4, <1>5

(* No share is filtered out: a result below the target passes the GPU's    *)
(* one-limb test, leading zero limbs of the target or not                  *)
(* (_kernel.h 1878, miner.cpp 435 and 722-724).                            *)
LEMMA ShareHasSmallLimb ==
  ASSUME NEW t \in Numbers, ~IsZero(t), NEW r \in Numbers, Less(r, t)
  PROVE  r[1] <= LeTarget(t)
<1> USE TargetCheckAssumption
<1>1. PICK i \in 1..NumLimbs :
        t[i] # 0 /\ (\A j \in 1..(i - 1) : t[j] = 0) /\ LeTarget(t) = t[i]
  BY FirstLimb
<1>2. PICK k \in 1..NumLimbs : r[k] < t[k] /\ \A j \in 1..(k - 1) : r[j] = t[j]
  BY DEF Less
<1>3. r[1] <= t[1]
  <2>1. CASE k = 1
    BY <1>2, <2>1 DEF Numbers, Limb
  <2>2. CASE k # 1
    <3>1. 1 \in 1..(k - 1)
      BY <2>2
    <3> QED
      BY <1>2, <3>1 DEF Numbers, Limb
  <2> QED
    BY <2>1, <2>2
<1>4. t[1] <= t[i]
  <2>1. CASE i = 1
    BY <2>1 DEF Numbers, Limb
  <2>2. CASE i # 1
    <3>1. 1 \in 1..(i - 1)
      BY <2>2
    <3> QED
      BY <1>1, <3>1 DEF Numbers, Limb
  <2> QED
    BY <2>1, <2>2
<1> QED
  <2>1. r[1] \in Int /\ t[1] \in Int /\ t[i] \in Int
    BY DEF Numbers, Limb
  <2> QED
    BY <1>1, <1>3, <1>4, <2>1

-----------------------------------------------------------------------------
MutePasses == \E k \in mute : Passes(k)

(* What is known while the jobs compare: the output is the nonce of a job  *)
(* that passed, and it is there as soon as one that passes has compared,   *)
(* unless the job of the sentinel passes too.                              *)
CheckInv ==
  /\ CheckTypeOK
  /\ ~IsZero(target)
  /\ checkPc # "batch" => pending = {}
  /\ output # NoJob => Passes(output)
  /\ (output = NoJob => \/ \A j \in Jobs \ pending : ~Passes(j)
                       \/ MutePasses)
  /\ checkPc # "checked" => submitted = NoJob
  /\ checkPc = "checked" =>
       submitted = IF output # NoJob /\ Less(result[output], target)
                     THEN output ELSE NoJob

LEMMA CheckStepKeepsInv ==
  ASSUME CheckInv, [CheckNext]_checkVars
  PROVE  CheckInv'
<1> USE TargetCheckAssumption DEF CheckInv, CheckTypeOK
<1>1. ASSUME NEW j \in Jobs, JobCompares(j) PROVE CheckInv'
  <2>1. \A k \in Jobs : Passes(k)' <=> Passes(k)
    BY <1>1 DEF JobCompares, Word, Passes
  <2>2. CheckTypeOK'
    BY <1>1 DEF JobCompares, Word
  <2>3. output' # NoJob => Passes(output)'
    BY <1>1, <2>1 DEF JobCompares, Word, Passes
  <2>4. (output = NoJob => (\A k \in Jobs \ pending : ~Passes(k)) \/ MutePasses)'
    <3>1. MutePasses' <=> MutePasses
      BY <1>1, <2>1 DEF JobCompares, Word, MutePasses
    <3>2. CASE Passes(j) /\ j \in mute
      BY <3>1, <3>2 DEF MutePasses
    <3>3. CASE ~Passes(j)
      BY <1>1, <2>1, <3>1, <3>3 DEF JobCompares, Word
    <3>4. CASE Passes(j) /\ j \notin mute
      BY <1>1, <3>4 DEF JobCompares, Word
    <3> QED
      BY <3>2, <3>3, <3>4
  <2> QED
    BY <1>1, <2>2, <2>3, <2>4 DEF JobCompares, Word
<1>2. ASSUME BatchEnds PROVE CheckInv'
  BY <1>2 DEF BatchEnds, Passes, MutePasses
<1>3. ASSUME HostChecks PROVE CheckInv'
  BY <1>3 DEF HostChecks, Passes, MutePasses
<1>4. ASSUME NEW t \in Targets, NEW results \in [Jobs -> Numbers],
             NEW sentinels \in MuteSets, NextBatch(t, results, sentinels)
      PROVE  CheckInv'
  BY <1>4 DEF NextBatch, Targets, MuteSets
<1>5. ASSUME UNCHANGED checkVars PROVE CheckInv'
  BY <1>5 DEF checkVars, Passes, MutePasses
<1> QED
  BY <1>1, <1>2, <1>3, <1>4, <1>5 DEF CheckNext

LEMMA CheckInvHolds == CheckSpec => []CheckInv
<1>1. CheckInit => CheckInv
  BY TargetCheckAssumption
     DEF CheckInit, CheckInv, CheckTypeOK, Targets, MuteSets
<1>2. CheckInv /\ [CheckNext]_checkVars => CheckInv'
  BY CheckStepKeepsInv
<1> QED
  BY <1>1, <1>2, PTL DEF CheckSpec

(* Only a result below the target is submitted (miner.cpp 435-451). *)
THEOREM SubmitsOnlyShares == CheckSpec => []OnlyShares
<1>1. CheckInv => OnlyShares
  BY DEF CheckInv, OnlyShares
<1> QED
  BY <1>1, CheckInvHolds, PTL

(* A batch that holds a share submits one, or its output was overwritten   *)
(* by a job that only the CPU's comparison turns down (_kernel.h           *)
(* 1873-1882, miner.cpp 722-724, 807-810).                                 *)
THEOREM SharesAreNotMissed == CheckSpec => []ShareNotMissed
<1>1. CheckInv => ShareNotMissed
  <2> SUFFICES ASSUME CheckInv, checkPc = "checked", submitted = NoJob,
                      NEW j \in Jobs, Less(result[j], target),
                      ~MutePasses
               PROVE  \E k \in Jobs : output = k /\ ~Less(result[k], target)
    BY DEF ShareNotMissed, MutePasses
  <2>1. Passes(j)
    BY ShareHasSmallLimb DEF CheckInv, CheckTypeOK, Passes
  <2>2. output # NoJob
    BY <2>1 DEF CheckInv
  <2>3. output \in Jobs
    BY <2>2 DEF CheckInv, CheckTypeOK
  <2>4. ~Less(result[output], target)
    BY <2>2 DEF CheckInv
  <2> QED
    BY <2>3, <2>4
<1> QED
  BY <1>1, CheckInvHolds, PTL

(* With no leading zero limb in the target the GPU's test errs on ties of  *)
(* the top limb only (miner.cpp 722-724, _kernel.h 1878).                  *)
THEOREM FalsePositivesAreTies == CheckSpec => []FalsePositivesTie
<1>1. CheckInv => FalsePositivesTie
  <2> SUFFICES ASSUME CheckInv, target[1] # 0, NEW j \in Jobs,
                      Passes(j), ~Less(result[j], target)
               PROVE  result[j][1] = target[1]
    BY DEF FalsePositivesTie
  <2> USE TargetCheckAssumption
  <2>1. target \in Numbers /\ result[j] \in Numbers
    BY DEF CheckInv, CheckTypeOK
  <2>2. PICK i \in 1..NumLimbs :
          target[i] # 0 /\ (\A k \in 1..(i - 1) : target[k] = 0)
                        /\ LeTarget(target) = target[i]
    BY <2>1, FirstLimb DEF CheckInv
  <2>3. i = 1
    <3>1. i # 1 => 1 \in 1..(i - 1)
      OBVIOUS
    <3> QED
      BY <2>2, <3>1
  <2>4. result[j][1] <= target[1]
    BY <2>2, <2>3 DEF Passes
  <2>5. ~(result[j][1] < target[1])
    <3>1. 1 \in 1..NumLimbs /\ 1..(1 - 1) = {}
      OBVIOUS
    <3> QED
      BY <3>1 DEF Less
  <2> QED
    BY <2>1, <2>4, <2>5 DEF Numbers, Limb
<1> QED
  BY <1>1, CheckInvHolds, PTL

-----------------------------------------------------------------------------
(* The composed scan. *)

(* Every nonce submitted was tried. *)
MsInv ==
  /\ ScanInv
  /\ CheckInv
  /\ h_submitted \subseteq h_tried

(* The nonces of a batch are different: at most one is the sentinel. *)
LEMMA OneSentinel ==
  ASSUME NEW start \in Nonces
  PROVE  SentinelJobs(start) \in MuteSets
<1> USE JobsAssumption, NonceScanAssumption
<1>1. \A i, j \in Jobs : Plus(start, i) = Plus(start, j) => i = j
  BY DEF Plus, Nonces
<1>2. CASE SentinelJobs(start) = {}
  BY <1>2 DEF MuteSets
<1>3. CASE SentinelJobs(start) # {}
  <2>1. PICK j \in Jobs : Plus(start, j) = Sentinel
    BY <1>3 DEF SentinelJobs
  <2>2. SentinelJobs(start) = {j}
    BY <1>1, <2>1 DEF SentinelJobs
  <2> QED
    BY <2>1, <2>2 DEF MuteSets
<1> QED
  BY <1>2, <1>3

(* The nonce read is one of the batch just tried. *)
LEMMA ReportedIsTried ==
  ASSUME MsInv, MsRead, output # NoJob
  PROVE  /\ ScanReports(output) /\ output \in 0..(throughput - 1)
         /\ s_nonce' \in Batch(s_nonce)
<1>1. output \in 0..(throughput - 1)
  BY JobsAssumption DEF MsInv, CheckInv, CheckTypeOK
<1>2. ScanReports(output)
  BY DEF MsRead
<1>3. s_nonce' = Plus(s_nonce, output)
  BY <1>2 DEF ScanReports
<1> QED
  BY <1>1, <1>2, <1>3 DEF Batch

(* Each step of the scan is a step, or a stutter, of both parts. *)
LEMMA StepOfBoth ==
  ASSUME MsInv, [MsNext]_msVars
  PROVE  [ScanNext]_scanVars /\ [CheckNext]_checkVars
<1> USE DEF ScanNext, CheckNext
<1>1. CASE \E n \in Nonces : MsDraw(n)
  BY <1>1 DEF MsDraw
<1>2. CASE MsIncrement
  BY <1>2 DEF MsIncrement
<1>3. ASSUME NEW t \in Targets, NEW results \in [Jobs -> Numbers], MsLaunch(t, results)
      PROVE  [ScanNext]_scanVars /\ [CheckNext]_checkVars
  <2>1. SentinelJobs(s_nonce) \in MuteSets
    BY OneSentinel DEF MsInv, ScanInv, ScanTypeOK
  <2> QED
    BY <1>3, <2>1 DEF MsLaunch
<1>4. CASE MsCompute
  BY <1>4 DEF MsCompute
<1>5. CASE MsRead
  <2>1. CASE output = NoJob
    BY <1>5, <2>1 DEF MsRead
  <2>2. CASE output # NoJob
    BY <1>5, <2>2, ReportedIsTried DEF MsRead
  <2> QED
    BY <2>1, <2>2
<1>6. CASE MsAdvance
  BY <1>6 DEF MsAdvance
<1>7. CASE UNCHANGED msVars
  BY <1>7 DEF msVars
<1> QED
  BY <1>1, <1>2, <1>3, <1>4, <1>5, <1>6, <1>7 DEF MsNext

LEMMA SubmittedWereTried ==
  ASSUME MsInv, [MsNext]_msVars
  PROVE  h_submitted' \subseteq h_tried'
<1> USE DEF MsInv
<1>1. CASE \E n \in Nonces : MsDraw(n)
  BY <1>1 DEF MsDraw, DrawNonce
<1>2. CASE MsIncrement
  BY <1>2 DEF MsIncrement, IncrementNonce
<1>3. CASE \E t \in Targets, results \in [Jobs -> Numbers] : MsLaunch(t, results)
  BY <1>3 DEF MsLaunch, scanVars
<1>4. CASE MsCompute
  BY <1>4 DEF MsCompute, scanVars
<1>5. CASE MsRead
  <2>1. h_tried' = h_tried \cup Batch(s_nonce)
    BY <1>5 DEF MsRead, ScanNothing, ScanReports, Tries
  <2>2. CASE submitted' = NoJob
    BY <1>5, <2>1, <2>2 DEF MsRead
  <2>3. CASE submitted' # NoJob
    <3>1. output # NoJob
      BY <1>5, <2>3 DEF MsRead, HostChecks
    <3> QED
      BY <1>5, <2>1, <2>3, <3>1, ReportedIsTried DEF MsRead
  <2> QED
    BY <2>2, <2>3
<1>6. CASE MsAdvance
  BY <1>6 DEF MsAdvance, Advance
<1>7. CASE UNCHANGED msVars
  BY <1>7 DEF msVars, scanVars
<1> QED
  BY <1>1, <1>2, <1>3, <1>4, <1>5, <1>6, <1>7 DEF MsNext

LEMMA MsInvHolds == MsSpec => []MsInv
<1>1. MsInit => MsInv
  <2> SUFFICES ASSUME MsInit PROVE MsInv
    OBVIOUS
  <2>1. ScanInv
    BY NonceScanAssumption
       DEF MsInit, ScanInit, ScanInv, ScanTypeOK, Plus, Nonces
  <2>2. CheckInv
    BY TargetCheckAssumption
       DEF MsInit, CheckInit, CheckInv, CheckTypeOK, Targets, MuteSets
  <2> QED
    BY <2>1, <2>2 DEF MsInv, MsInit
<1>2. MsInv /\ [MsNext]_msVars => MsInv'
  <2> SUFFICES ASSUME MsInv, [MsNext]_msVars PROVE MsInv'
    OBVIOUS
  <2>1. [ScanNext]_scanVars /\ [CheckNext]_checkVars
    BY StepOfBoth
  <2>2. ScanInv' /\ CheckInv'
    BY <2>1, ScanStepKeepsInv, CheckStepKeepsInv DEF MsInv
  <2> QED
    BY <2>2, SubmittedWereTried DEF MsInv
<1> QED
  BY <1>1, <1>2, PTL DEF MsSpec

-----------------------------------------------------------------------------
(* A miner's scan is a scan of NonceScan (miner.cpp 668-816). *)
THEOREM ScansAsNonceScan == MsSpec => ScanSpec
<1>1. MsInit => ScanInit
  BY DEF MsInit
<1>2. MsInv /\ [MsNext]_msVars => [ScanNext]_scanVars
  BY StepOfBoth
<1> QED
  BY <1>1, <1>2, MsInvHolds, PTL DEF MsSpec, ScanSpec

(* Its batches are batches of TargetCheck (miner.cpp 718-810, _kernel.h    *)
(* 1833-1882).                                                             *)
THEOREM ChecksAsTargetCheck == MsSpec => CheckSpec
<1>1. MsInit => CheckInit
  BY DEF MsInit
<1>2. MsInv /\ [MsNext]_msVars => [CheckNext]_checkVars
  BY StepOfBoth
<1> QED
  BY <1>1, <1>2, MsInvHolds, PTL DEF MsSpec, CheckSpec

(* So the composed scan has the invariants of both (miner.cpp 668-816,     *)
(* _kernel.h 1833-1882).                                                   *)
COROLLARY ScansAsItsParts ==
  MsSpec => [](NoRescan /\ HalfTried /\ OnlyShares /\ ShareNotMissed)
BY ScansAsNonceScan, ChecksAsTargetCheck, NeverRescans, TriesHalf, SubmitsOnlyShares,
   SharesAreNotMissed, PTL

(* The type invariant of the composed scan: what is submitted are nonces   *)
(* of the space (miner.cpp 100, 445).                                      *)
THEOREM MsTyping == MsSpec => []MsTypeOK
<1>1. MsInv => MsTypeOK
  BY DEF MsInv, ScanInv, ScanTypeOK, CheckInv, MsTypeOK
<1> QED
  BY <1>1, MsInvHolds, PTL

(* No nonce is submitted twice for one draw, within one turn of the nonce  *)
(* space (miner.cpp 714, 807-811, 441, 445).                               *)
THEOREM NeverSubmitsTwice == MsSpec => NoShareTwice
<1> DEFINE New == \A n \in Nonces : submitted = NoJob /\ submitted' # NoJob /\ n = s_nonce'
                    => n \notin h_submitted
<1>1. MsInv /\ [MsNext]_msVars => [New]_msVars
  <2> SUFFICES ASSUME MsInv, [MsNext]_msVars, NEW n \in Nonces,
                      submitted = NoJob, submitted' # NoJob, n = s_nonce'
               PROVE  n \notin h_submitted
    BY DEF New
  <2>1. MsRead
    BY DEF MsNext, MsDraw, MsIncrement, MsLaunch, MsCompute, MsAdvance, msVars,
           checkVars, NextBatch, JobCompares, BatchEnds
  <2>2. output # NoJob
    BY <2>1 DEF MsRead, HostChecks
  <2>3. n \in Batch(s_nonce) /\ Tries
    BY <2>1, <2>2, ReportedIsTried DEF ScanReports
  <2>4. Batch(s_nonce) \cap h_tried = {}
    BY <2>3, NextBatchIsNew DEF MsInv, Tries
  <2> QED
    BY <2>3, <2>4 DEF MsInv
<1> QED
  BY <1>1, MsInvHolds, PTL DEF MsSpec, NoShareTwice

-----------------------------------------------------------------------------
(* The refinement of NonceTrials. *)

(* Between its launch and its reading a batch belongs to the place the     *)
(* scan is at.                                                             *)
TrialInv ==
  /\ MsInv
  /\ checkPc # "checked" => scanPc = "scan"

LEMMA TrialInvHolds == MsSpec => []TrialInv
<1>1. MsInit => (checkPc # "checked" => scanPc = "scan")
  BY DEF MsInit, ScanInit
<1>2. TrialInv /\ [MsNext]_msVars => (checkPc # "checked" => scanPc = "scan")'
  <2> SUFFICES ASSUME TrialInv, [MsNext]_msVars
               PROVE  (checkPc # "checked" => scanPc = "scan")'
    OBVIOUS
  <2> USE DEF TrialInv
  <2>1. CASE \E n \in Nonces : MsDraw(n)
    BY <2>1 DEF MsDraw, DrawNonce
  <2>2. CASE MsIncrement
    BY <2>2 DEF MsIncrement, IncrementNonce
  <2>3. CASE \E t \in Targets, results \in [Jobs -> Numbers] : MsLaunch(t, results)
    BY <2>3 DEF MsLaunch, scanVars
  <2>4. CASE MsCompute
    BY <2>4 DEF MsCompute, JobCompares, BatchEnds, scanVars
  <2>5. CASE MsRead
    BY <2>5 DEF MsRead, HostChecks
  <2>6. CASE MsAdvance
    BY <2>6 DEF MsAdvance, Advance, checkVars
  <2>7. CASE UNCHANGED msVars
    BY <2>7 DEF msVars, scanVars, checkVars
  <2> QED
    BY <2>1, <2>2, <2>3, <2>4, <2>5, <2>6, <2>7 DEF MsNext
<1> QED
  BY <1>1, <1>2, MsInvHolds, PTL DEF MsSpec, TrialInv

TrialVars == <<h_tried, UnderWay(Jobs), UnderWay(ShareJobs), UnderWay(DecoyJobs), h_submitted>>

(* Jobs started at a nonce have a batch of nonces, and some of the jobs    *)
(* have some of the batch.                                                 *)
LEMMA BatchUnderWay ==
  ASSUME NEW n \in Nonces, NEW S \in SUBSET Jobs, NEW D \in SUBSET Jobs
  PROVE  /\ {Plus(n, j) : j \in Jobs} = Batch(n)
         /\ Trials!SomeBatch({Plus(n, j) : j \in Jobs}, {Plus(n, j) : j \in S},
                             {Plus(n, j) : j \in D})
<1>1. {Plus(n, j) : j \in Jobs} = Batch(n)
  BY JobsAssumption DEF Batch
<1>2. {Plus(n, j) : j \in Jobs} # {}
  <2>1. 0 \in Jobs
    BY JobsAssumption, NonceScanAssumption
  <2> QED
    BY <2>1
<1>3. {Plus(n, j) : j \in Jobs} \subseteq Nonces
  BY PlusType, JobsAssumption, NonceScanAssumption
<1> QED
  BY <1>1, <1>2, <1>3 DEF Trials!SomeBatch

LEMMA JobsOfBatch == ShareJobs \in SUBSET Jobs /\ DecoyJobs \in SUBSET Jobs
BY DEF ShareJobs, DecoyJobs

LEMMA TrialsInitially == MsInit => Trials!TrialInit
<1> SUFFICES ASSUME MsInit PROVE Trials!TrialInit
  OBVIOUS
<1>1. s_nonce \in Nonces /\ checkPc # "checked"
  BY DEF MsInit, ScanInit, CheckInit
<1> QED
  BY <1>1, BatchUnderWay, JobsOfBatch DEF MsInit, ScanInit, UnderWay, Trials!TrialInit

(* Other work, or a rejected share, draws. *)
LEMMA DrawsInTrials ==
  ASSUME TrialInv, NEW n \in Nonces, MsDraw(n)
  PROVE  Trials!Draw
<1>1. checkPc = "checked" /\ checkPc' = "checked"
  BY DEF MsDraw, DrawNonce, TrialInv, checkVars
<1>2. h_tried' = {} /\ h_submitted' = {}
  BY DEF MsDraw, DrawNonce
<1> QED
  BY <1>1, <1>2 DEF UnderWay, Trials!Draw

(* Moving the nonce on between two batches is no step of the trials. *)
LEMMA MovesInTrials ==
  ASSUME TrialInv, MsIncrement \/ MsAdvance
  PROVE  UNCHANGED TrialVars
<1>1. checkPc = "checked" /\ checkPc' = "checked"
  BY DEF MsIncrement, IncrementNonce, MsAdvance, Advance, TrialInv, checkVars
<1>2. UNCHANGED <<h_tried, h_submitted>>
  BY DEF MsIncrement, IncrementNonce, MsAdvance, Advance
<1> QED
  BY <1>1, <1>2 DEF UnderWay, TrialVars

(* Launching the kernels launches a batch. *)
LEMMA LaunchesInTrials ==
  ASSUME TrialInv, NEW t \in Targets, NEW results \in [Jobs -> Numbers],
         MsLaunch(t, results), TrialInv'
  PROVE  Trials!Launch
<1>1. checkPc = "checked" /\ checkPc' # "checked"
  BY DEF MsLaunch, NextBatch
<1>2. UNCHANGED <<h_tried, h_submitted>>
  BY DEF MsLaunch, scanVars
<1>3. Trials!SomeBatch(UnderWay(Jobs), UnderWay(ShareJobs), UnderWay(DecoyJobs))'
  <2>1. (s_nonce \in Nonces)'
    BY DEF TrialInv, MsInv, ScanInv, ScanTypeOK
  <2>2. (ShareJobs \in SUBSET Jobs /\ DecoyJobs \in SUBSET Jobs)'
    BY DEF ShareJobs, DecoyJobs
  <2> QED
    BY <1>1, <2>1, <2>2, BatchUnderWay DEF UnderWay
<1> QED
  BY <1>1, <1>2, <1>3 DEF UnderWay, Trials!Launch, Trials!SomeBatch

(* What the GPU does within a batch is no step of the trials. *)
LEMMA ComputesInTrials ==
  ASSUME MsCompute
  PROVE  UNCHANGED TrialVars
<1>1. /\ checkPc = "batch" /\ checkPc' # "checked"
      /\ UNCHANGED <<scanVars, h_submitted, result, target, mute>>
  BY DEF MsCompute, JobCompares, BatchEnds
<1>2. UNCHANGED <<ShareJobs, DecoyJobs>>
  BY <1>1 DEF ShareJobs, DecoyJobs, Passes
<1> QED
  BY <1>1, <1>2 DEF UnderWay, TrialVars, scanVars

(* Reading the output finishes a batch: nothing of it was tried before,    *)
(* what is submitted is one of its shares, and if nothing is it had none   *)
(* or has a decoy.                                                         *)
LEMMA ReadsInTrials ==
  ASSUME TrialInv, MsRead, TrialInv'
  PROVE  \E S \in {{}} \cup {{n} : n \in UnderWay(ShareJobs)} : Trials!Finish(S)
<1> USE DEF TrialInv, MsInv
<1>1. checkPc = "read" /\ checkPc' = "checked"
  BY DEF MsRead, HostChecks
<1>2. s_nonce \in Nonces
  BY DEF ScanInv, ScanTypeOK
<1>3. UnderWay(Jobs) = Batch(s_nonce) /\ UnderWay(Jobs) # {}
  BY <1>1, <1>2, BatchUnderWay, JobsOfBatch DEF UnderWay, Trials!SomeBatch
<1>4. Tries
  BY DEF MsRead, ScanNothing, ScanReports
<1>5. UnderWay(Jobs) \cap h_tried = {} /\ h_tried' = h_tried \cup UnderWay(Jobs)
  BY <1>3, <1>4, NextBatchIsNew DEF Tries
<1>6. (UnderWay(Jobs) = {} /\ UnderWay(ShareJobs) = {} /\ UnderWay(DecoyJobs) = {})'
  BY <1>1 DEF UnderWay
<1>7. CASE submitted' # NoJob
  <2>1. output # NoJob /\ submitted' = output /\ Less(result[output], target)
    BY <1>7 DEF MsRead, HostChecks
  <2>2. output \in ShareJobs
    BY <2>1 DEF ShareJobs, CheckInv, CheckTypeOK
  <2>3. s_nonce' = Plus(s_nonce, output)
    BY <2>1, ReportedIsTried DEF ScanReports
  <2>4. s_nonce' \in UnderWay(ShareJobs)
    BY <1>1, <2>2, <2>3 DEF UnderWay
  <2>5. h_submitted' = h_submitted \cup {s_nonce'}
    BY <1>7 DEF MsRead
  <2>6. Trials!Finish({s_nonce'})
    BY <1>3, <1>5, <1>6, <2>5 DEF Trials!Finish
  <2> QED
    BY <2>4, <2>6
<1>8. CASE submitted' = NoJob
  <2>1. UnderWay(ShareJobs) = {} \/ UnderWay(DecoyJobs) # {}
    <3> SUFFICES ASSUME NEW j \in ShareJobs PROVE DecoyJobs # {}
      BY <1>1 DEF UnderWay
    <3>1. Passes(j)
      BY ShareHasSmallLimb DEF ShareJobs, CheckInv, CheckTypeOK, Passes
    <3>2. CASE output = NoJob
      <4>1. pending = {}
        BY <1>1 DEF CheckInv
      <4>2. PICK k \in mute : Passes(k)
        BY <3>1, <3>2, <4>1 DEF CheckInv, MutePasses, ShareJobs
      <4> QED
        BY <4>2 DEF DecoyJobs, CheckInv, CheckTypeOK
    <3>3. CASE output # NoJob
      <4>1. output \in Jobs /\ Passes(output)
        BY <3>3 DEF CheckInv, CheckTypeOK
      <4>2. ~Less(result[output], target)
        BY <1>8, <3>3, <4>1, TargetCheckAssumption DEF MsRead, HostChecks
      <4> QED
        BY <4>1, <4>2 DEF DecoyJobs
    <3> QED
      BY <3>2, <3>3
  <2>2. h_submitted' = h_submitted \cup {}
    BY <1>8 DEF MsRead
  <2>3. Trials!Finish({})
    BY <1>3, <1>5, <1>6, <2>1, <2>2 DEF Trials!Finish
  <2> QED
    BY <2>3
<1> QED
  BY <1>7, <1>8

(* The scan implements NonceTrials: only fresh nonces are tried, and of a  *)
(* batch one share at most is submitted, none only if it had none or a     *)
(* decoy (miner.cpp 668-816, 435-445, _kernel.h 1873-1882).                *)
THEOREM ImplementsTrials == MsSpec => TrialSpec
<1>1. TrialInv /\ TrialInv' /\ [MsNext]_msVars => [Trials!TrialNext]_TrialVars
  <2> SUFFICES ASSUME TrialInv, TrialInv', [MsNext]_msVars
               PROVE  [Trials!TrialNext]_TrialVars
    OBVIOUS
  <2> USE DEF Trials!TrialNext
  <2>1. CASE \E n \in Nonces : MsDraw(n)
    BY <2>1, DrawsInTrials
  <2>2. CASE MsIncrement \/ MsAdvance
    BY <2>2, MovesInTrials
  <2>3. CASE \E t \in Targets, results \in [Jobs -> Numbers] : MsLaunch(t, results)
    BY <2>3, LaunchesInTrials
  <2>4. CASE MsCompute
    BY <2>4, ComputesInTrials
  <2>5. CASE MsRead
    BY <2>5, ReadsInTrials
  <2>6. CASE UNCHANGED msVars
    BY <2>6 DEF msVars, scanVars, checkVars, TrialVars, UnderWay, ShareJobs,
                DecoyJobs, Passes
  <2> QED
    BY <2>1, <2>2, <2>3, <2>4, <2>5, <2>6 DEF MsNext
<1>2. [Trials!TrialNext]_TrialVars <=> [Trials!TrialNext]_(Trials!trialVars)
  BY DEF TrialVars, Trials!trialVars
<1> QED
  BY <1>1, <1>2, TrialsInitially, TrialInvHolds, PTL
     DEF MsSpec, TrialSpec, Trials!TrialSpec
=============================================================================
