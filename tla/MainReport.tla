----------------------------- MODULE MainReport -----------------------------
(***************************************************************************)
(* The report main prints every 5 s (main.cpp 192-225) from counters the   *)
(* miner threads (s_totalHashes) and the submissions (s_nSharesFound,      *)
(* s_nSharesAccepted) keep updating while it reads them one by one.        *)
(* Hashes are counted in batches: one unit is one GPU batch of 32768, so   *)
(* the uint32_t s_totalHashes wraps at 2^17 units.  Main asserts that it   *)
(* has not: in the CMake build, but not in the Rel configurations of       *)
(* premake5, which define NDEBUG.                                          *)
(***************************************************************************)
EXTENDS ShareSubmit, Integers

CONSTANTS
  TotalMod,    (* s_totalHashes wraps at this number of batches            *)
  MaxBatches   (* bound: batches hashed                                    *)

ASSUME MainReportAssumption ==
  /\ TotalMod \in Nat /\ TotalMod > 1
  /\ MaxBatches \in Nat

VARIABLES
  ndebug,           (* the build has no assertions                          *)
  reportPc,         (* where main is in its report, or "aborted"            *)
  s_totalHashes,
  nHashesLast,      (* main's local, of the last report that saw hashes     *)
  nHashesSinceLast, (* what the report says was hashed since then           *)
  nSharesSubmitted, (* main's two reads for one report                      *)
  nSharesAccepted,
  h_batches,        (* history: batches hashed, not wrapped                 *)
  h_reported,       (* history: h_batches at the last two such reports      *)
  h_quiet           (* history: no share was in flight during this report   *)

reportVars == <<ndebug, reportPc, s_totalHashes, nHashesLast, nHashesSinceLast,
                nSharesSubmitted, nSharesAccepted, h_batches, h_reported, h_quiet>>

RepTypeOK ==
  /\ SubTypeOK
  /\ ndebug \in BOOLEAN
  /\ reportPc \in {"idle", "hashes", "submitted", "logged", "aborted"}
  /\ {s_totalHashes, nHashesLast, nHashesSinceLast} \subseteq 0..(TotalMod - 1)
  /\ {nSharesSubmitted, nSharesAccepted} \subseteq Nat
  /\ h_batches \in 0..MaxBatches
  /\ h_reported \in (0..MaxBatches) \X (0..MaxBatches)
  /\ h_quiet \in BOOLEAN

RepInit ==
  /\ SubInit
  /\ ndebug \in BOOLEAN
  /\ reportPc = "idle"
  /\ s_totalHashes = 0 /\ nHashesLast = 0 /\ nHashesSinceLast = 0
  /\ nSharesSubmitted = 0 /\ nSharesAccepted = 0
  /\ h_batches = 0 /\ h_reported = <<0, 0>>
  /\ h_quiet = TRUE

InFlight == {s \in Shares : subPc[s] \notin {"unused", "skipped", "done"}}

-----------------------------------------------------------------------------
(* Nothing runs once an assertion has ended the program. *)
Alive == reportPc # "aborted"

(* A miner thread finishes a batch; mutated, the counter does not wrap. *)
HashBatchUnwrapped ==
  /\ Alive
  /\ h_batches < MaxBatches
  /\ h_batches' = h_batches + 1
  /\ s_totalHashes' = s_totalHashes + 1
  /\ UNCHANGED <<subVars, ndebug, reportPc, nHashesLast, nHashesSinceLast,
                 nSharesSubmitted, nSharesAccepted, h_reported, h_quiet>>

HashBatch ==
  /\ Alive
  /\ h_batches < MaxBatches
  /\ h_batches' = h_batches + 1
  /\ s_totalHashes' = (s_totalHashes + 1) % TotalMod
  /\ UNCHANGED <<subVars, ndebug, reportPc, nHashesLast, nHashesSinceLast,
                 nSharesSubmitted, nSharesAccepted, h_reported, h_quiet>>

AssertionHolds == ndebug \/ s_totalHashes >= nHashesLast

(* Mutant of ReportHashes: nHashesLast is not updated. *)
ForgetLast ==
  /\ reportPc = "idle"
  /\ s_totalHashes > 0
  /\ AssertionHolds
  /\ reportPc' = "hashes"
  /\ nHashesSinceLast' = (s_totalHashes - nHashesLast) % TotalMod
  /\ h_reported' = <<h_reported[2], h_batches>>
  /\ UNCHANGED <<subVars, ndebug, s_totalHashes, nHashesLast, nSharesSubmitted,
                 nSharesAccepted, h_batches, h_quiet>>

(* The report is skipped when s_totalHashes is zero; the difference of the *)
(* two uint32_t wraps.                                                     *)
ReportHashes ==
  /\ reportPc = "idle"
  /\ s_totalHashes > 0
  /\ AssertionHolds
  /\ reportPc' = "hashes"
  /\ nHashesSinceLast' = (s_totalHashes - nHashesLast) % TotalMod
  /\ nHashesLast' = s_totalHashes
  /\ h_reported' = <<h_reported[2], h_batches>>
  /\ UNCHANGED <<subVars, ndebug, s_totalHashes, nSharesSubmitted, nSharesAccepted,
                 h_batches, h_quiet>>

(* main asserts that the total did not become less. *)
ReportAborts ==
  /\ reportPc = "idle"
  /\ s_totalHashes > 0
  /\ ~AssertionHolds
  /\ reportPc' = "aborted"
  /\ UNCHANGED <<subVars, ndebug, s_totalHashes, nHashesLast, nHashesSinceLast,
                 nSharesSubmitted, nSharesAccepted, h_batches, h_reported, h_quiet>>

(* Mutant of ReadSubmitted: the count of accepted shares is read here. *)
ReadWrongCounter ==
  /\ reportPc = "hashes"
  /\ reportPc' = "submitted"
  /\ nSharesSubmitted' = s_nSharesAccepted
  /\ h_quiet' = (InFlight = {})
  /\ UNCHANGED <<subVars, ndebug, s_totalHashes, nHashesLast, nHashesSinceLast,
                 nSharesAccepted, h_batches, h_reported>>

ReadSubmitted ==
  /\ reportPc = "hashes"
  /\ reportPc' = "submitted"
  /\ nSharesSubmitted' = s_nSharesFound
  /\ h_quiet' = (InFlight = {})
  /\ UNCHANGED <<subVars, ndebug, s_totalHashes, nHashesLast, nHashesSinceLast,
                 nSharesAccepted, h_batches, h_reported>>

ReadAccepted ==
  /\ reportPc = "submitted"
  /\ reportPc' = "logged"
  /\ nSharesAccepted' = s_nSharesAccepted
  /\ UNCHANGED <<subVars, ndebug, s_totalHashes, nHashesLast, nHashesSinceLast,
                 nSharesSubmitted, h_batches, h_reported, h_quiet>>

ReportSleep ==
  /\ reportPc = "logged"
  /\ reportPc' = "idle"
  /\ UNCHANGED <<subVars, ndebug, s_totalHashes, nHashesLast, nHashesSinceLast,
                 nSharesSubmitted, nSharesAccepted, h_batches, h_reported, h_quiet>>

(* What a step of the miners or the submissions does to the report. *)
BesideReport ==
  /\ Alive
  /\ h_quiet' = (h_quiet /\ reportPc # "submitted")
  /\ UNCHANGED <<ndebug, reportPc, s_totalHashes, nHashesLast, nHashesSinceLast,
                 nSharesSubmitted, nSharesAccepted, h_batches, h_reported>>

Submissions == SubNext /\ BesideReport

Terminated == ~Alive /\ UNCHANGED <<subVars, reportVars>>

RepNext ==
  \/ HashBatch
  \/ ReportHashes \/ ReportAborts \/ ReadSubmitted \/ ReadAccepted \/ ReportSleep
  \/ Submissions
  \/ Terminated

RepSpec == RepInit /\ [][RepNext]_<<subVars, reportVars>>

(* A submission goes on, except that a post may take for ever. *)
RepFairSpec ==
  /\ RepSpec
  /\ \A s \in Shares : WF_<<subVars, reportVars>>(SubmitRuns(s) /\ BesideReport)

-----------------------------------------------------------------------------
(* nSharesRejected as the report prints it (main.cpp 210). *)
nSharesRejected == nSharesSubmitted - nSharesAccepted

(* The hash rate is computed from the number of hashes really done since   *)
(* the last report, although s_totalHashes wraps and a report that reads   *)
(* zero is skipped, if they are fewer than a full turn of the counter; and *)
(* the assertion ends the program only if the total has wrapped since that *)
(* report (main.cpp 194-202).                                              *)
HashDeltaExact ==
  LET done == h_reported[2] - h_reported[1] IN
    /\ done < TotalMod => nHashesSinceLast = done
    /\ reportPc = "aborted" =>
         \E n \in (h_reported[2] + 1)..h_batches : n % TotalMod = 0

(* A report during which no share is being submitted prints as rejected    *)
(* exactly the shares that were settled without being accepted, the lost   *)
(* ones included (main.cpp 208-210).                                       *)
QuietReportExact ==
  [][reportPc = "submitted" /\ reportPc' = "logged" /\ h_quiet =>
       nSharesRejected' = Cardinality({s \in Settled : reply[s] # "accepted"})
    ]_<<subVars, reportVars>>

(* Every share found is settled or discarded, however many submissions     *)
(* compete for the connection, lose their posts or are rejected, unless a  *)
(* post is never answered or the program was ended (miner.cpp 355-406,     *)
(* http.cpp 106).                                                          *)
EveryShareSettles ==
  \/ \E s \in Shares : <>[](subPc[s] = "post")
  \/ \A s \in Shares : subPc[s] = "start" ~> subPc[s] \in {"skipped", "done"} \/ ~Alive
=============================================================================
