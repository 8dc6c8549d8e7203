-------------------------- MODULE MainReport_proofs --------------------------
(***************************************************************************)
(* The periodic report, for any number of shares and miners, any modulus   *)
(* of the hash counter and any number of batches: what main computes from  *)
(* counters that move while it reads them.                                 *)
(***************************************************************************)
EXTENDS MainReport, ShareSubmit_proofs

(* The miners and submissions do not notice the report. *)
THEOREM ReportsAsSubmissions == RepSpec => SubSpec
<1>1. RepInit => SubInit
  BY DEF RepInit
<1>2. [RepNext]_<<subVars, reportVars>> => [SubNext]_subVars
  BY DEF RepNext, HashBatch, ReportHashes, ReportAborts, ReadSubmitted, ReadAccepted,
         ReportSleep, Submissions, Terminated
<1> QED
  BY <1>1, <1>2, PTL DEF RepSpec, SubSpec

(* So the counters it reads are exact, and the shares they count are       *)
(* settled as the ledger settles them (miner.cpp 355-406).                 *)
COROLLARY ReportsExactCounters ==
  RepSpec => []PostsExclusive /\ []CountersExact /\ LedgerSpec
BY ReportsAsSubmissions, PostsAreExclusive, CountersAreExact, ImplementsLedger

-----------------------------------------------------------------------------
(* Counting modulo M: a remainder is determined by where it lies, ...      *)
LEMMA ModUnique ==
  ASSUME NEW M \in Nat, M > 0, NEW q \in Int, NEW r \in 0..(M - 1)
  PROVE  (M * q + r) % M = r
OBVIOUS

LEMMA ModParts ==
  ASSUME NEW M \in Nat, M > 0, NEW a \in Int
  PROVE  /\ a % M \in 0..(M - 1)
         /\ a = M * (a \div M) + (a % M)
         /\ a \div M \in Int
OBVIOUS

(* ... whole turns do not change it, ...                                   *)
LEMMA ModTurns ==
  ASSUME NEW M \in Nat, M > 0, NEW x \in Int, NEW k \in Int
  PROVE  (x + M * k) % M = x % M
<1> DEFINE p == x \div M
           r == x % M
<1>1. p \in Int /\ r \in 0..(M - 1) /\ x = M * p + r
  BY ModParts
<1> HIDE DEF p, r
<1>2. M * (p + k) = M * p + M * k
  BY <1>1
<1>3. x + M * k = M * (p + k) + r
  BY <1>1, <1>2
<1>4. p + k \in Int
  BY <1>1
<1>5. (M * (p + k) + r) % M = r
  BY <1>1, <1>4, ModUnique
<1> QED
  BY <1>3, <1>5 DEF r

(* ... so a counter that wraps gives the sum, and the difference of two of *)
(* its values, that the counter without bound gives.                       *)
LEMMA ModCounter ==
  ASSUME NEW M \in Nat, M > 0, NEW a \in Int, NEW b \in Int
  PROVE  /\ ((a % M) + b) % M = (a + b) % M
         /\ ((a % M) - (b % M)) % M = (a - b) % M
<1> DEFINE p == a \div M
           q == b \div M
           r == a % M
           s == b % M
<1>1. /\ p \in Int /\ r \in Int /\ a = M * p + r
      /\ q \in Int /\ s \in Int /\ b = M * q + s
  BY ModParts
<1> HIDE DEF p, q, r, s
<1>2. (r + b) % M = (a + b) % M
  <2>1. a + b = (r + b) + M * p /\ r + b \in Int
    BY <1>1
  <2> QED
    BY <1>1, <2>1, ModTurns
<1>3. (r - s) % M = (a - b) % M
  <2>1. M * (p - q) = M * p - M * q
    BY <1>1
  <2>2. a - b = (r - s) + M * (p - q) /\ r - s \in Int /\ p - q \in Int
    BY <1>1, <2>1
  <2> QED
    BY <2>2, ModTurns
<1> QED
  BY <1>2, <1>3 DEF r, s

-----------------------------------------------------------------------------
RepTypes ==
  /\ ndebug \in BOOLEAN
  /\ reportPc \in {"idle", "hashes", "submitted", "logged", "aborted"}
  /\ {s_totalHashes, nHashesLast, nHashesSinceLast} \subseteq 0..(TotalMod - 1)
  /\ {nSharesSubmitted, nSharesAccepted} \subseteq Nat
  /\ h_batches \in 0..MaxBatches
  /\ h_reported \in (0..MaxBatches) \X (0..MaxBatches)
  /\ h_quiet \in BOOLEAN

(* The wrapped counters are the counts without wrap, as of the last two    *)
(* reports that saw hashes.                                                *)
HashesWrap ==
  /\ s_totalHashes = h_batches % TotalMod
  /\ nHashesLast = h_reported[2] % TotalMod
  /\ nHashesSinceLast = (h_reported[2] - h_reported[1]) % TotalMod
  /\ h_reported[1] <= h_reported[2] /\ h_reported[2] <= h_batches

(* While a report stays quiet the first counter it has read stays exact.   *)
QuietReport ==
  reportPc = "submitted" /\ h_quiet =>
    InFlight = {} /\ nSharesSubmitted = s_nSharesFound

(* The assertion that ended the program.                                   *)
AbortedOnLess == ~Alive => s_totalHashes < nHashesLast

RepInv == SubInv /\ RepTypes /\ HashesWrap /\ QuietReport /\ AbortedOnLess

(* The same of the two counters this module has. *)
LEMMA TotalModCounter ==
  ASSUME NEW a \in Int, NEW b \in Int
  PROVE  /\ ((a % TotalMod) + b) % TotalMod = (a + b) % TotalMod
         /\ ((a % TotalMod) - (b % TotalMod)) % TotalMod = (a - b) % TotalMod
<1>1. TotalMod \in Nat /\ TotalMod > 0
  BY MainReportAssumption
<1> QED
  BY <1>1, ModCounter, Zenon

LEMMA ZeroMod == 0 % TotalMod = 0 /\ 0 \in 0..(TotalMod - 1)
BY MainReportAssumption

LEMMA RepInitInv == RepInit => RepInv
<1> SUFFICES ASSUME RepInit PROVE RepInv
  OBVIOUS
<1>1. SubInv
  BY SubInitInv DEF RepInit
<1>2. RepTypes /\ HashesWrap /\ QuietReport /\ AbortedOnLess
  BY ZeroMod, MainReportAssumption
     DEF RepInit, RepTypes, HashesWrap, QuietReport, AbortedOnLess, Alive
<1> QED
  BY <1>1, <1>2 DEF RepInv

LEMMA HashBatchKeepsRepInv ==
  ASSUME RepInv, HashBatch
  PROVE  RepInv'
<1> USE MainReportAssumption DEF RepInv, HashBatch
<1>1. SubInv'
  BY StutterKeepsSubInv
<1>2. s_totalHashes' = h_batches' % TotalMod
  <2>1. h_batches \in Int /\ 1 \in Int /\ s_totalHashes = h_batches % TotalMod
    BY DEF RepTypes, HashesWrap
  <2>2. ((h_batches % TotalMod) + 1) % TotalMod = (h_batches + 1) % TotalMod
    BY <2>1, TotalModCounter, Zenon
  <2> QED
    BY <2>1, <2>2
<1>3. s_totalHashes' \in 0..(TotalMod - 1)
  BY ModParts DEF RepTypes
<1>4. RepTypes'
  BY <1>3 DEF RepTypes
<1>5. HashesWrap'
  BY <1>2 DEF RepTypes, HashesWrap
<1>6. QuietReport'
  BY DEF QuietReport, InFlight, subVars
<1>7. AbortedOnLess'
  BY DEF AbortedOnLess, Alive
<1> QED
  BY <1>1, <1>4, <1>5, <1>6, <1>7

LEMMA ReportHashesKeepsRepInv ==
  ASSUME RepInv, ReportHashes
  PROVE  RepInv'
<1> USE MainReportAssumption DEF RepInv, ReportHashes
<1>1. SubInv'
  BY StutterKeepsSubInv
<1>2. h_reported'[1] = h_reported[2] /\ h_reported'[2] = h_batches
  OBVIOUS
<1>3. nHashesSinceLast' = (h_batches - h_reported[2]) % TotalMod
  <2>1. /\ h_batches \in Int /\ h_reported[2] \in Int
        /\ s_totalHashes = h_batches % TotalMod
        /\ nHashesLast = h_reported[2] % TotalMod
    BY DEF RepTypes, HashesWrap
  <2>2. ((h_batches % TotalMod) - (h_reported[2] % TotalMod)) % TotalMod
          = (h_batches - h_reported[2]) % TotalMod
    BY <2>1, TotalModCounter, Zenon
  <2> QED
    BY <2>1, <2>2
<1>4. nHashesSinceLast' \in 0..(TotalMod - 1)
  BY ModParts DEF RepTypes
<1>5. RepTypes'
  BY <1>4 DEF RepTypes
<1>6. HashesWrap'
  BY <1>2, <1>3 DEF RepTypes, HashesWrap
<1>7. QuietReport' /\ AbortedOnLess'
  BY DEF QuietReport, AbortedOnLess, Alive
<1> QED
  BY <1>1, <1>5, <1>6, <1>7

LEMMA ReportAbortsKeepsRepInv ==
  ASSUME RepInv, ReportAborts
  PROVE  RepInv'
<1> USE DEF RepInv, ReportAborts
<1>1. SubInv'
  BY StutterKeepsSubInv
<1>2. RepTypes' /\ HashesWrap' /\ QuietReport'
  BY DEF RepTypes, HashesWrap, QuietReport
<1>3. AbortedOnLess'
  BY MainReportAssumption DEF AbortedOnLess, AssertionHolds, RepTypes
<1> QED
  BY <1>1, <1>2, <1>3

LEMMA OtherStepsKeepRepInv ==
  ASSUME RepInv,
         \/ ReadSubmitted \/ ReadAccepted \/ ReportSleep \/ Submissions \/ Terminated
         \/ UNCHANGED <<subVars, reportVars>>
  PROVE  RepInv'
<1> USE DEF RepInv, ReadSubmitted, ReadAccepted, ReportSleep, Submissions, BesideReport,
            Terminated, reportVars
<1>1. SubInv'
  BY StutterKeepsSubInv, SubNextKeepsSubInv
<1>2. s_nSharesFound \in Nat /\ s_nSharesAccepted \in Nat
  BY DEF SubInv, SubTypeOK
<1>3. RepTypes'
  BY <1>2 DEF RepTypes, subVars
<1>4. HashesWrap'
  BY DEF HashesWrap
<1>5. QuietReport'
  BY DEF QuietReport, InFlight, subVars
<1>6. AbortedOnLess'
  BY DEF AbortedOnLess, Alive
<1> QED
  BY <1>1, <1>3, <1>4, <1>5, <1>6

LEMMA RepInvHolds == RepSpec => []RepInv
<1>1. RepInv /\ [RepNext]_<<subVars, reportVars>> => RepInv'
  BY HashBatchKeepsRepInv, ReportHashesKeepsRepInv, ReportAbortsKeepsRepInv,
     OtherStepsKeepRepInv DEF RepNext
<1> QED
  BY <1>1, RepInitInv, PTL DEF RepSpec

(* The type invariant of the report: the difference of two wrapped         *)
(* counters is one (main.cpp 192-210).                                     *)
THEOREM RepTyping == RepSpec => []RepTypeOK
<1>1. RepInv => RepTypeOK
  BY DEF RepInv, SubInv, RepTypes, RepTypeOK
<1> QED
  BY <1>1, RepInvHolds, PTL

(* A counter modulo M that is less than it was has passed a multiple of M. *)
LEMMA ModPassed ==
  ASSUME NEW M \in Nat, M > 0, NEW a \in Nat, NEW b \in Nat, a <= b, b % M < a % M
  PROVE  \E n \in (a + 1)..b : n % M = 0
<1> DEFINE q == b \div M
           r == b % M
<1>1. q \in Int /\ r \in 0..(M - 1) /\ b = M * q + r
  BY ModParts
<1> HIDE DEF q, r
<1> DEFINE n == M * q
<1>2. n \in Int /\ n <= b /\ b = n + r
  BY <1>1
<1>3. n % M = 0
  <2>1. (M * q + 0) % M = 0
    BY <1>1, ModUnique
  <2> QED
    BY <1>1, <2>1
<1>4. a < n
  <2> SUFFICES ASSUME a >= n PROVE FALSE
    BY <1>2
  <2>1. a - n \in 0..(M - 1) /\ a - n <= r
    BY <1>1, <1>2
  <2>2. (M * q + (a - n)) % M = a - n
    BY <1>1, <2>1, ModUnique
  <2>3. M * q + (a - n) = a
    BY <1>2
  <2> QED
    BY <2>1, <2>2, <2>3 DEF r
<1> QED
  BY <1>2, <1>3, <1>4

(* The report computes the hash rate from the hashes really done since the *)
(* last one, if they are fewer than a turn of the counter, although it     *)
(* wraps and reports that read zero are skipped; and where the counter is  *)
(* asserted not to become less, nothing but a wrap since the last report   *)
(* ends the program (main.cpp 194-202).                                    *)
THEOREM HashDeltasAreExact == RepSpec => []HashDeltaExact
<1>1. RepInv => HashDeltaExact
  <2> SUFFICES ASSUME RepInv PROVE HashDeltaExact
    OBVIOUS
  <2>1. ASSUME h_reported[2] - h_reported[1] < TotalMod
        PROVE  nHashesSinceLast = h_reported[2] - h_reported[1]
    <3>1. h_reported[2] - h_reported[1] \in 0..(TotalMod - 1)
      BY <2>1, MainReportAssumption DEF RepInv, RepTypes, HashesWrap
    <3>2. \A n \in 0..(TotalMod - 1) : n % TotalMod = n
      BY MainReportAssumption
    <3> QED
      BY <3>1, <3>2 DEF RepInv, HashesWrap
  <2>2. ASSUME reportPc = "aborted"
        PROVE  \E n \in (h_reported[2] + 1)..h_batches : n % TotalMod = 0
    <3>1. /\ h_reported[2] \in Nat /\ h_batches \in Nat /\ h_reported[2] <= h_batches
          /\ TotalMod \in Nat /\ TotalMod > 0
      BY MainReportAssumption DEF RepInv, RepTypes, HashesWrap
    <3>2. h_batches % TotalMod < h_reported[2] % TotalMod
      BY <2>2 DEF RepInv, HashesWrap, AbortedOnLess, Alive
    <3> QED
      BY <3>1, <3>2, ModPassed, Zenon
  <2> QED
    BY <2>1, <2>2 DEF HashDeltaExact
<1> QED
  BY <1>1, RepInvHolds, PTL

(* A report during which no share is under way prints as rejected the      *)
(* shares that were settled and not accepted, the lost ones included:      *)
(* every accepted share is settled then (main.cpp 208-210).                *)
THEOREM QuietReportsAreExact == RepSpec => QuietReportExact
<1> DEFINE Exact == reportPc = "submitted" /\ reportPc' = "logged" /\ h_quiet =>
              nSharesRejected' = Cardinality({s \in Settled : reply[s] # "accepted"})
<1>1. RepInv /\ [RepNext]_<<subVars, reportVars>> => [Exact]_<<subVars, reportVars>>
  <2> SUFFICES ASSUME RepInv, RepNext, reportPc = "submitted", reportPc' = "logged", h_quiet
               PROVE  nSharesRejected' = Cardinality({s \in Settled : reply[s] # "accepted"})
    BY DEF Exact
  <2>1. ReadAccepted
    BY DEF RepNext, HashBatch, ReportHashes, ReportAborts, ReadSubmitted, ReportSleep,
           Submissions, BesideReport, Terminated, reportVars
  <2>2. nSharesRejected' = Cardinality(Settled) - Cardinality(Accepted)
    BY <2>1 DEF ReadAccepted, nSharesRejected, RepInv, QuietReport, SubInv, CountersExact
  <2>3. Settled \cap Accepted = Accepted
    BY DEF RepInv, QuietReport, InFlight, Settled, Accepted
  <2>4. {s \in Settled : reply[s] # "accepted"} = Settled \ Accepted
    BY DEF Settled, Accepted
  <2>5. Settled \in SUBSET Shares
    BY DEF Settled
  <2>6. IsFiniteSet(Settled)
    BY <2>5, SharesAssumption, FS_Subset
  <2>7. Cardinality(Settled \ Accepted) = Cardinality(Settled) - Cardinality(Accepted)
    BY <2>3, <2>6, FS_Difference
  <2> QED
    BY <2>2, <2>4, <2>7
<1> QED
  BY <1>1, RepInvHolds, PTL DEF RepSpec, QuietReportExact
=============================================================================
