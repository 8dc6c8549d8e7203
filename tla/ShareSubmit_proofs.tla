------------------------- MODULE ShareSubmit_proofs -------------------------
(***************************************************************************)
(* Submissions, for any number of miners and shares: the connection is     *)
(* used by one submission at a time, the counters are exact, and the       *)
(* module implements ShareLedger.                                          *)
(***************************************************************************)
EXTENDS ShareSubmit, FiniteSetTheorems, TLAPS

(* The inductive invariant: the three invariants of the module and what a  *)
(* submission has at each point.                                           *)
SubInv ==
  /\ SubTypeOK
  /\ PostsExclusive
  /\ CountersExact
  /\ \A s \in Shares : subPc[s] # "unused" => share[s] \in ShareArgs
  /\ \A s \in Shares : subPc[s] \in {"reply", "tally", "done"} => reply[s] \in Replies

(* Counting: a set of shares that gains one member, or none. *)
LEMMA CountOneMore ==
  ASSUME NEW S \in SUBSET Shares, NEW x \in Shares, x \notin S
  PROVE  Cardinality(S \cup {x}) = Cardinality(S) + 1
<1>1. IsFiniteSet(S)
  BY SharesAssumption, FS_Subset
<1> QED
  BY <1>1, FS_AddElement

(* Each step keeps the invariant. *)
LEMMA LaunchKeepsSubInv ==
  ASSUME SubInv, NEW s \in Shares, NEW m \in Miners, NEW h \in Hashes,
         NEW seed \in Hashes, Launch(s, m, h, seed)
  PROVE  SubInv'
<1> USE DEF SubInv, Launch, SubGoto
<1>1. SubTypeOK'
  BY DEF SubTypeOK, SubPcs, ShareArgs
<1>2. PostsExclusive'
  BY DEF PostsExclusive, SubTypeOK
<1>3. Settled' = Settled /\ Accepted' = Accepted
  BY DEF SubTypeOK, Settled, Accepted
<1>4. CountersExact'
  BY <1>3 DEF CountersExact
<1>5. \A x \in Shares : subPc'[x] # "unused" => share'[x] \in ShareArgs
  BY DEF SubTypeOK, ShareArgs
<1>6. \A x \in Shares : subPc'[x] \in {"reply", "tally", "done"} => reply'[x] \in Replies
  BY DEF SubTypeOK
<1> QED
  BY <1>1, <1>2, <1>4, <1>5, <1>6

LEMMA SubmitBeginKeepsSubInv ==
  ASSUME SubInv, NEW s \in Shares, SubmitBegin(s)
  PROVE  SubInv'
<1> USE DEF SubInv, SubmitBegin, SubGoto
<1>1. SubTypeOK'
  BY DEF SubTypeOK, SubPcs
<1>2. PostsExclusive'
  BY DEF PostsExclusive, SubTypeOK
<1>3. Settled' = Settled /\ Accepted' = Accepted
  BY DEF SubTypeOK, Settled, Accepted
<1>4. CountersExact'
  BY <1>3 DEF CountersExact
<1> QED
  BY <1>1, <1>2, <1>4 DEF SubTypeOK

LEMMA SubmitLockKeepsSubInv ==
  ASSUME SubInv, NEW s \in Shares, SubmitLock(s)
  PROVE  SubInv'
<1> USE DEF SubInv, SubmitLock, SubGoto
<1>1. SubTypeOK'
  BY DEF SubTypeOK, SubPcs
<1>2. PostsExclusive'
  BY SharesAssumption DEF PostsExclusive, SubTypeOK
<1>3. Settled' = Settled /\ Accepted' = Accepted
  BY DEF SubTypeOK, Settled, Accepted
<1>4. CountersExact'
  BY <1>3 DEF CountersExact
<1> QED
  BY <1>1, <1>2, <1>4 DEF SubTypeOK

LEMMA SubmitPostKeepsSubInv ==
  ASSUME SubInv, NEW s \in Shares, NEW r \in Replies, SubmitPost(s, r)
  PROVE  SubInv'
<1> USE DEF SubInv, SubmitPost, SubGoto
<1>1. SubTypeOK'
  BY DEF SubTypeOK, SubPcs
<1>2. PostsExclusive'
  BY SharesAssumption DEF PostsExclusive, SubTypeOK
<1>3. Settled' = Settled /\ Accepted' = Accepted
  BY DEF SubTypeOK, Settled, Accepted
<1>4. CountersExact'
  BY <1>3 DEF CountersExact
<1> QED
  BY <1>1, <1>2, <1>4 DEF SubTypeOK

LEMMA SubmitVerdictKeepsSubInv ==
  ASSUME SubInv, NEW s \in Shares, SubmitVerdict(s)
  PROVE  SubInv'
<1> USE DEF SubInv, SubmitVerdict, SubGoto
<1>1. SubTypeOK'
  BY DEF SubTypeOK, SubPcs, ShareArgs
<1>2. PostsExclusive'
  BY DEF PostsExclusive, SubTypeOK
<1>3. Settled' = Settled
  BY DEF SubTypeOK, Settled
<1>4. s_nSharesAccepted' = Cardinality(Accepted')
  <2>1. CASE reply[s] = "accepted"
    <3>1. Accepted' = Accepted \cup {s} /\ s \notin Accepted
      BY <2>1 DEF Accepted, SubTypeOK
    <3>2. Accepted \subseteq Shares
      BY DEF Accepted
    <3>3. Cardinality(Accepted \cup {s}) = Cardinality(Accepted) + 1
      BY <3>1, <3>2, CountOneMore
    <3> QED
      BY <2>1, <3>1, <3>3 DEF CountersExact
  <2>2. CASE reply[s] # "accepted"
    <3>1. Accepted' = Accepted
      BY <2>2 DEF Accepted, SubTypeOK
    <3> QED
      BY <2>2, <3>1 DEF CountersExact
  <2> QED
    BY <2>1, <2>2
<1>5. CountersExact'
  BY <1>3, <1>4 DEF CountersExact
<1> QED
  BY <1>1, <1>2, <1>5 DEF SubTypeOK

LEMMA SubmitCountKeepsSubInv ==
  ASSUME SubInv, NEW s \in Shares, SubmitCount(s)
  PROVE  SubInv'
<1> USE DEF SubInv, SubmitCount, SubGoto
<1>1. SubTypeOK'
  BY DEF SubTypeOK, SubPcs
<1>2. PostsExclusive'
  BY DEF PostsExclusive, SubTypeOK
<1>3. Accepted' = Accepted
  BY DEF SubTypeOK, Accepted
<1>4. Settled' = Settled \cup {s} /\ s \notin Settled /\ Settled \subseteq Shares
  BY DEF SubTypeOK, Settled
<1>5. Cardinality(Settled \cup {s}) = Cardinality(Settled) + 1
  BY <1>4, CountOneMore
<1>6. CountersExact'
  BY <1>3, <1>4, <1>5 DEF CountersExact
<1> QED
  BY <1>1, <1>2, <1>6 DEF SubTypeOK

LEMMA SubmitStepKeepsSubInv ==
  ASSUME SubInv, NEW s \in Shares, SubmitStep(s)
  PROVE  SubInv'
BY SubmitBeginKeepsSubInv, SubmitLockKeepsSubInv, SubmitPostKeepsSubInv,
   SubmitVerdictKeepsSubInv, SubmitCountKeepsSubInv DEF SubmitStep

(* The writers of this state outside submitThreadFn. *)
LEMMA ClearKeepsSubInv ==
  ASSUME SubInv, NEW m \in Miners, ClearNeedRegenSeed(m)
  PROVE  SubInv'
BY DEF SubInv, ClearNeedRegenSeed, SubTypeOK, PostsExclusive, CountersExact,
       Settled, Accepted

LEMMA DestroyKeepsSubInv ==
  ASSUME SubInv, DestroySubmitHandle
  PROVE  SubInv'
BY DEF SubInv, DestroySubmitHandle, SubTypeOK, PostsExclusive, CountersExact,
       Settled, Accepted

LEMMA StutterKeepsSubInv ==
  ASSUME SubInv, UNCHANGED subVars
  PROVE  SubInv'
BY DEF SubInv, subVars, SubTypeOK, PostsExclusive, CountersExact, Settled, Accepted

LEMMA SubInitInv == SubInit => SubInv
<1> SUFFICES ASSUME SubInit PROVE SubInv
  OBVIOUS
<1> USE DEF SubInit
<1>1. SubTypeOK
  BY DEF SubTypeOK, SubPcs
<1>2. PostsExclusive
  BY SharesAssumption DEF PostsExclusive
<1>3. Settled = {} /\ Accepted = {}
  BY DEF Settled, Accepted
<1>4. CountersExact
  BY <1>3, FS_EmptySet DEF CountersExact
<1> QED
  BY <1>1, <1>2, <1>4 DEF SubInv

LEMMA SubNextKeepsSubInv ==
  ASSUME SubInv, SubNext
  PROVE  SubInv'
<1>1. ASSUME NEW s \in Shares, NEW m \in Miners, NEW w \in Works,
             Launch(s, m, Hash(w), Hash(w))
      PROVE  SubInv'
  <2>1. Hash(w) \in Hashes
    BY DEF Hashes, WorkParams
  <2> QED
    BY <1>1, <2>1, LaunchKeepsSubInv
<1> QED
  BY <1>1, SubmitStepKeepsSubInv, ClearKeepsSubInv DEF SubNext

LEMMA SubInvHolds == SubSpec => []SubInv
<1>1. SubInv /\ [SubNext]_subVars => SubInv'
  BY SubNextKeepsSubInv, StutterKeepsSubInv
<1> QED
  BY <1>1, SubInitInv, PTL DEF SubSpec

-----------------------------------------------------------------------------
(* The type invariant of submissions (miner.cpp 91-92, 320-406). *)
THEOREM SubTyping == SubSpec => []SubTypeOK
<1>1. SubInv => SubTypeOK
  BY DEF SubInv
<1> QED
  BY <1>1, SubInvHolds, PTL

(* One submission at a time posts through the connection (miner.cpp        *)
(* 355-368).                                                               *)
THEOREM PostsAreExclusive == SubSpec => []PostsExclusive
<1>1. SubInv => PostsExclusive
  BY DEF SubInv
<1> QED
  BY <1>1, SubInvHolds, PTL

(* The counters main reads are exact (miner.cpp 370-406). *)
THEOREM CountersAreExact == SubSpec => []CountersExact
<1>1. SubInv => CountersExact
  BY DEF SubInv
<1> QED
  BY <1>1, SubInvHolds, PTL

-----------------------------------------------------------------------------
(* The refinement: what each step does to the ledger's state.              *)
LedgerMap   == [s \in Shares |-> LedgerOf(s)]
AcceptedMap == s_nSharesAccepted - Cardinality(AcceptedUncounted)

(* A step that moves one share and no counter changes its entry only. *)
LEMMA OneEntry ==
  ASSUME SubInv, NEW s \in Shares,
         \A x \in Shares \ {s} : subPc'[x] = subPc[x] /\ reply'[x] = reply[x]
  PROVE  LedgerMap' = [LedgerMap EXCEPT ![s] = LedgerOf(s)']
<1>1. \A x \in Shares \ {s} : LedgerOf(x)' = LedgerOf(x)
  BY DEF LedgerOf
<1> QED
  BY <1>1 DEF LedgerMap

(* A step of a submission that is neither its verdict nor its count        *)
(* leaves the shares accepted but not counted alone.                       *)
LEMMA UncountedSame ==
  ASSUME SubInv, NEW s \in Shares, NEW pc, SubGoto(s, pc),
         subPc[s] # "tally", pc # "tally",
         \A x \in Shares \ {s} : reply'[x] = reply[x],
         s_nSharesAccepted' = s_nSharesAccepted
  PROVE  AcceptedMap' = AcceptedMap
<1>1. AcceptedUncounted' = AcceptedUncounted
  BY DEF SubInv, SubTypeOK, SubGoto, AcceptedUncounted
<1> QED
  BY <1>1 DEF AcceptedMap

LEMMA LaunchFinds ==
  ASSUME SubInv, NEW s \in Shares, NEW m, NEW h, NEW seed, Launch(s, m, h, seed)
  PROVE  Ledger!Find(s)
<1> USE DEF Launch, SubGoto
<1>1. LedgerOf(s) = "none" /\ LedgerOf(s)' = "pending"
  BY DEF SubInv, SubTypeOK, LedgerOf
<1>2. LedgerMap' = [LedgerMap EXCEPT ![s] = "pending"]
  BY <1>1, OneEntry DEF SubInv, SubTypeOK
<1>3. AcceptedMap' = AcceptedMap
  BY UncountedSame DEF SubInv, SubTypeOK
<1> QED
  BY <1>1, <1>2, <1>3 DEF Ledger!Find, LedgerMap, AcceptedMap

(* Until the share is counted its entry stays pending. *)
LEMMA StaysPending ==
  ASSUME SubInv, NEW s \in Shares,
         \/ SubmitBegin(s) /\ SubmitEnabled
         \/ SubmitLock(s)
         \/ \E r \in Replies : SubmitPost(s, r)
  PROVE  UNCHANGED Ledger!ledgerVars
<1> USE DEF SubmitBegin, SubmitLock, SubmitPost, SubGoto
<1>1. LedgerOf(s) = "pending" /\ LedgerOf(s)' = "pending"
  BY DEF SubInv, SubTypeOK, LedgerOf
<1>2. LedgerMap' = [LedgerMap EXCEPT ![s] = "pending"]
  BY <1>1, OneEntry DEF SubInv, SubTypeOK
<1>3. LedgerMap' = LedgerMap
  BY <1>1, <1>2 DEF LedgerMap
<1>4. AcceptedMap' = AcceptedMap
  <2>1. AcceptedUncounted' = AcceptedUncounted
    BY DEF SubInv, SubTypeOK, AcceptedUncounted
  <2> QED
    BY <2>1 DEF AcceptedMap
<1> QED
  BY <1>3, <1>4 DEF Ledger!ledgerVars, LedgerMap, AcceptedMap

LEMMA SkipDiscards ==
  ASSUME SubInv, NEW s \in Shares, SubmitBegin(s), ~SubmitEnabled
  PROVE  Ledger!Discard(s)
<1> USE DEF SubmitBegin, SubGoto
<1>1. LedgerOf(s) = "pending" /\ LedgerOf(s)' = "discarded"
  BY DEF SubInv, SubTypeOK, LedgerOf
<1>2. LedgerMap' = [LedgerMap EXCEPT ![s] = "discarded"]
  BY <1>1, OneEntry DEF SubInv, SubTypeOK
<1>3. AcceptedMap' = AcceptedMap
  BY UncountedSame DEF SubInv, SubTypeOK
<1> QED
  BY <1>1, <1>2, <1>3 DEF Ledger!Discard, LedgerMap, AcceptedMap

(* A verdict moves s_nSharesAccepted and the shares accepted but not       *)
(* counted together.                                                       *)
LEMMA VerdictStutters ==
  ASSUME SubInv, NEW s \in Shares, SubmitVerdict(s)
  PROVE  UNCHANGED Ledger!ledgerVars
<1> USE DEF SubmitVerdict, SubGoto
<1>1. LedgerOf(s) = "pending" /\ LedgerOf(s)' = "pending"
  BY DEF SubInv, SubTypeOK, LedgerOf
<1>2. LedgerMap' = [LedgerMap EXCEPT ![s] = "pending"]
  BY <1>1, OneEntry DEF SubInv, SubTypeOK
<1>3. LedgerMap' = LedgerMap
  BY <1>1, <1>2 DEF LedgerMap
<1>4. AcceptedMap' = AcceptedMap
  <2>1. AcceptedUncounted \in SUBSET Shares
    BY DEF AcceptedUncounted
  <2>2. Cardinality(AcceptedUncounted) \in Nat
    BY <2>1, SharesAssumption, FS_Subset, FS_CardinalityType
  <2>3. CASE reply[s] = "accepted"
    <3>1. AcceptedUncounted' = AcceptedUncounted \cup {s} /\ s \notin AcceptedUncounted
      BY <2>3 DEF SubInv, SubTypeOK, AcceptedUncounted
    <3>2. Cardinality(AcceptedUncounted \cup {s}) = Cardinality(AcceptedUncounted) + 1
      BY <2>1, <3>1, CountOneMore
    <3> QED
      BY <2>2, <2>3, <3>1, <3>2 DEF AcceptedMap, SubInv, SubTypeOK
  <2>4. CASE reply[s] # "accepted"
    <3>1. AcceptedUncounted' = AcceptedUncounted
      BY <2>4 DEF SubInv, SubTypeOK, AcceptedUncounted
    <3> QED
      BY <2>4, <3>1 DEF AcceptedMap
  <2> QED
    BY <2>3, <2>4
<1> QED
  BY <1>3, <1>4 DEF Ledger!ledgerVars, LedgerMap, AcceptedMap

LEMMA CountSettles ==
  ASSUME SubInv, NEW s \in Shares, SubmitCount(s)
  PROVE  \E v \in Ledger!Verdicts : Ledger!Settle(s, v)
<1> USE DEF SubmitCount, SubGoto
<1> DEFINE v == IF reply[s] = "failed" THEN "lost" ELSE reply[s]
<1>1. LedgerOf(s) = "pending" /\ LedgerOf(s)' = v
  BY DEF SubInv, SubTypeOK, LedgerOf
<1>2. LedgerMap' = [LedgerMap EXCEPT ![s] = v]
  BY <1>1, OneEntry DEF SubInv, SubTypeOK
<1>3. v \in Ledger!Verdicts
  BY DEF SubInv, Replies, Ledger!Verdicts
<1>4. AcceptedMap' = IF v = "accepted" THEN AcceptedMap + 1 ELSE AcceptedMap
  <2>1. AcceptedUncounted \in SUBSET Shares /\ IsFiniteSet(AcceptedUncounted)
    <3>1. AcceptedUncounted \in SUBSET Shares
      BY DEF AcceptedUncounted
    <3> QED
      BY <3>1, SharesAssumption, FS_Subset
  <2>2. Cardinality(AcceptedUncounted) \in Nat
    BY <2>1, FS_CardinalityType
  <2>3. CASE reply[s] = "accepted"
    <3>1. AcceptedUncounted' = AcceptedUncounted \ {s} /\ s \in AcceptedUncounted
      BY <2>3 DEF SubInv, SubTypeOK, AcceptedUncounted
    <3>2. Cardinality(AcceptedUncounted \ {s}) = Cardinality(AcceptedUncounted) - 1
      BY <2>1, <3>1, FS_RemoveElement
    <3> QED
      BY <2>2, <2>3, <3>1, <3>2 DEF AcceptedMap, SubInv, SubTypeOK
  <2>4. CASE reply[s] # "accepted"
    <3>1. AcceptedUncounted' = AcceptedUncounted
      BY <2>4 DEF SubInv, SubTypeOK, AcceptedUncounted
    <3> QED
      BY <2>4, <3>1 DEF AcceptedMap
  <2> QED
    BY <2>3, <2>4
<1>5. Ledger!Settle(s, v)
  BY <1>1, <1>2, <1>4 DEF Ledger!Settle, LedgerMap, AcceptedMap
<1> QED
  BY <1>3, <1>5

LEMMA ElsewhereStutters ==
  ASSUME UNCHANGED <<subPc, reply, s_nSharesFound, s_nSharesAccepted>>
  PROVE  UNCHANGED Ledger!ledgerVars
<1>1. LedgerMap' = LedgerMap
  BY DEF LedgerMap, LedgerOf
<1>2. AcceptedMap' = AcceptedMap
  BY DEF AcceptedMap, AcceptedUncounted
<1> QED
  BY <1>1, <1>2 DEF Ledger!ledgerVars, LedgerMap, AcceptedMap

LEMMA LedgerInitially == SubInit => Ledger!LedgerInit
<1> SUFFICES ASSUME SubInit PROVE Ledger!LedgerInit
  OBVIOUS
<1>1. LedgerMap = [s \in Shares |-> "none"]
  BY DEF SubInit, LedgerMap, LedgerOf
<1>2. AcceptedUncounted = {}
  BY DEF SubInit, AcceptedUncounted
<1>3. AcceptedMap = 0
  BY <1>2, FS_EmptySet DEF SubInit, AcceptedMap
<1> QED
  BY <1>1, <1>3 DEF SubInit, Ledger!LedgerInit, LedgerMap, AcceptedMap

LEMMA SubmitStepInLedger ==
  ASSUME SubInv, NEW s \in Shares, SubmitStep(s)
  PROVE  Ledger!LedgerNext \/ UNCHANGED Ledger!ledgerVars
<1>1. CASE SubmitBegin(s) /\ ~SubmitEnabled
  BY <1>1, SkipDiscards DEF Ledger!LedgerNext
<1>2. CASE \/ SubmitBegin(s) /\ SubmitEnabled
           \/ SubmitLock(s)
           \/ \E r \in Replies : SubmitPost(s, r)
  BY <1>2, StaysPending
<1>3. CASE SubmitVerdict(s)
  BY <1>3, VerdictStutters
<1>4. CASE SubmitCount(s)
  BY <1>4, CountSettles DEF Ledger!LedgerNext
<1> QED
  BY <1>1, <1>2, <1>3, <1>4 DEF SubmitStep

(* Submitting implements the ledger: the step that counts a share settles  *)
(* it, the others are a find, a discard or no step at all (miner.cpp       *)
(* 323-407, 435-450).                                                      *)
THEOREM ImplementsLedger == SubSpec => LedgerSpec
<1>1. SubInv /\ [SubNext]_subVars => [Ledger!LedgerNext]_(Ledger!ledgerVars)
  <2> SUFFICES ASSUME SubInv, [SubNext]_subVars
               PROVE  Ledger!LedgerNext \/ UNCHANGED Ledger!ledgerVars
    OBVIOUS
  <2>1. ASSUME NEW s \in Shares, NEW m \in Miners, NEW w \in Works,
               Launch(s, m, Hash(w), Hash(w))
        PROVE  Ledger!LedgerNext
    BY <2>1, LaunchFinds DEF Ledger!LedgerNext
  <2>2. ASSUME NEW m \in Miners, ClearNeedRegenSeed(m)
        PROVE  UNCHANGED Ledger!ledgerVars
    BY <2>2, ElsewhereStutters DEF ClearNeedRegenSeed
  <2>3. ASSUME UNCHANGED subVars PROVE UNCHANGED Ledger!ledgerVars
    BY <2>3, ElsewhereStutters DEF subVars
  <2> QED
    BY <2>1, <2>2, <2>3, SubmitStepInLedger DEF SubNext
<1> QED
  BY <1>1, LedgerInitially, SubInvHolds, PTL DEF SubSpec, LedgerSpec, Ledger!LedgerSpec
=============================================================================
