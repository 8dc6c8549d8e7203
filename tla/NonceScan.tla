----------------------------- MODULE NonceScan ------------------------------
(***************************************************************************)
(* The nonces one miner thread tries (minerThreadFn in miner.cpp, the      *)
(* nonce arithmetic of the search kernels in _kernel.h).  A nonce is drawn *)
(* at random for a new work or after a rejection; otherwise the scan goes  *)
(* on behind the last batch, or behind the nonce the batch reported.       *)
(***************************************************************************)
EXTENDS Naturals, FiniteSets

CONSTANTS
  NonceMod,     (* uint64_t nonces wrap at this value                        *)
  throughput,   (* nonces in a batch, one for each job of the GPU            *)
  MaxSpan       (* bound: how far a scan gets from the nonce it drew         *)

ASSUME NonceScanAssumption ==
  /\ NonceMod \in Nat /\ throughput \in Nat /\ MaxSpan \in Nat
  /\ throughput > 0
  /\ MaxSpan <= NonceMod

VARIABLES
  scanPc,     (* "decide": top of the loop, "scan": the batch is launched,  *)
              (* "advance": its result has been read                        *)
  s_nonce,
  h_drawn,    (* history: the nonce last drawn                              *)
  h_span,     (* history: how far s_nonce is from it, not wrapped           *)
  h_tried,    (* history: the nonces tried since it was drawn               *)
  h_count     (* history: and their number                                  *)

scanVars == <<scanPc, s_nonce, h_drawn, h_span, h_tried, h_count>>

Nonces == 0..(NonceMod - 1)
(* The value a batch's output holds while no job has written its nonce. *)
Sentinel == NonceMod - 1

(* Addition on uint64_t, for b no larger than the modulus; in the mutant   *)
(* of Plus it does not wrap.                                               *)
PlusUnwrapped(a, b) == a + b

Plus(a, b) == IF a + b < NonceMod THEN a + b ELSE (a + b) - NonceMod

(* The nonce of each job: startNonce + jobId. *)
Batch(start) == {Plus(start, jobId) : jobId \in 0..(throughput - 1)}

ScanTypeOK ==
  /\ scanPc \in {"decide", "scan", "advance"}
  /\ s_nonce \in Nonces
  /\ h_drawn \in Nonces
  /\ h_span \in Nat
  /\ h_tried \subseteq Nonces
  /\ h_count \in Nat

(* The thread has no work yet: its first nonce is drawn with the first. *)
ScanInit ==
  /\ scanPc = "scan"
  /\ s_nonce \in Nonces
  /\ h_drawn = s_nonce
  /\ h_span = 0
  /\ h_tried = {}
  /\ h_count = 0

-----------------------------------------------------------------------------
(* New work, or a rejected share: makeAquaNonce. *)
DrawNonce(n) ==
  /\ scanPc = "decide"
  /\ scanPc' = "scan"
  /\ s_nonce' = n
  /\ h_drawn' = n
  /\ h_span' = 0
  /\ h_tried' = {}
  /\ h_count' = 0

(* The same work: the nonce is incremented once more. *)
IncrementNonce ==
  /\ scanPc = "decide"
  /\ h_span < MaxSpan
  /\ scanPc' = "scan"
  /\ s_nonce' = Plus(s_nonce, 1)
  /\ h_span' = h_span + 1
  /\ UNCHANGED <<h_drawn, h_tried, h_count>>

Tries ==
  /\ scanPc = "scan"
  /\ h_span + throughput <= MaxSpan
  /\ scanPc' = "advance"
  /\ h_tried' = h_tried \cup Batch(s_nonce)
  /\ h_count' = h_count + throughput
  /\ UNCHANGED h_drawn

(* No job reports a nonce, or the one reported looks like the sentinel. *)
ScanNothing == Tries /\ UNCHANGED <<s_nonce, h_span>>

(* The nonce of the last job that wrote the output becomes s_nonce. *)
ScanReports(jobId) ==
  /\ Tries
  /\ Plus(s_nonce, jobId) # Sentinel
  /\ s_nonce' = Plus(s_nonce, jobId)
  /\ h_span' = h_span + jobId

(* Mutant of Advance: the next batch starts inside the last one. *)
StayInBatch ==
  /\ scanPc = "advance"
  /\ scanPc' = "decide"
  /\ UNCHANGED <<s_nonce, h_drawn, h_span, h_tried, h_count>>

(* Mutant of Advance: each batch is followed by one that is never tried. *)
AdvanceTwice ==
  /\ scanPc = "advance"
  /\ h_span + 2 * throughput <= MaxSpan
  /\ scanPc' = "decide"
  /\ s_nonce' = Plus(s_nonce, 2 * throughput)
  /\ h_span' = h_span + 2 * throughput
  /\ UNCHANGED <<h_drawn, h_tried, h_count>>

Advance ==
  /\ scanPc = "advance"
  /\ h_span + throughput <= MaxSpan
  /\ scanPc' = "decide"
  /\ s_nonce' = Plus(s_nonce, throughput)
  /\ h_span' = h_span + throughput
  /\ UNCHANGED <<h_drawn, h_tried, h_count>>

ScanNext ==
  \/ \E n \in Nonces : DrawNonce(n)
  \/ IncrementNonce
  \/ ScanNothing
  \/ \E jobId \in 0..(throughput - 1) : ScanReports(jobId)
  \/ Advance

ScanSpec == ScanInit /\ [][ScanNext]_scanVars

-----------------------------------------------------------------------------
(* A scan never tries a nonce twice: the batch about to be launched has    *)
(* none of the nonces tried since the last draw, wherever the scan was     *)
(* moved to by reported nonces and across the wrap of s_nonce (miner.cpp   *)
(* 714, 808, 811), while it stays within one turn of the nonce space.      *)
NoRescan ==
  scanPc = "scan" /\ h_span + throughput <= MaxSpan =>
    Batch(s_nonce) \cap h_tried = {}

(* At least half of the nonces a scan has passed were tried: a reported    *)
(* nonce makes it skip fewer than a batch.                                 *)
HalfTried == scanPc = "decide" => h_span < 2 * h_count
=============================================================================
