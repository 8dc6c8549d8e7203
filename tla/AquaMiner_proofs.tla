-------------------------- MODULE AquaMiner_proofs --------------------------
(***************************************************************************)
(* The running program, for any number of miner threads, works and shares, *)
(* in pool and in solo mode, with and without shutdown: what the update    *)
(* thread publishes was served last, what a miner submits belongs          *)
(* together, no rejection is lost, and the shutdown destroys no connection *)
(* in use.  The program implements the sequences of nonces, the ledger of  *)
(* the shares and the update thread by itself.                             *)
(***************************************************************************)
EXTENDS AquaMiner, ShareSubmit_proofs

-----------------------------------------------------------------------------
(* The update thread by itself. *)

(* The steps of the update thread, of main and of the pool keep the types. *)
LEMMA UpdStepKeepsType ==
  ASSUME UpdTypeOK, UpdStep
  PROVE  UpdTypeOK'
<1> USE DEF UpdTypeOK, UpdPcs, Urls
<1>1. ASSUME UpdCheck PROVE UpdTypeOK'
  BY <1>1 DEF UpdCheck, WorkParams
<1>2. ASSUME PollOk \/ PollFail \/ PollAbort PROVE UpdTypeOK'
  BY <1>2 DEF PollOk, PollFail, PollAbort, PollReturns, WorkParams
<1>3. ASSUME UpdCount PROVE UpdTypeOK'
  <2>1. (s_poolGetWorkCount + 1) % CountMod \in 0..(CountMod - 1)
    BY WorkUpdateAssumption
  <2> QED
    BY <1>3, <2>1 DEF UpdCount
<1>4. ASSUME UpdPublish PROVE UpdTypeOK'
  BY <1>4 DEF UpdPublish
<1>5. ASSUME UpdInfo \/ InfoAbort PROVE UpdTypeOK'
  BY <1>5 DEF UpdInfo, InfoAbort, InfoReturns
<1>6. ASSUME UpdSleep \/ UpdExit PROVE UpdTypeOK'
  BY <1>6 DEF UpdSleep, UpdExit
<1> QED
  BY <1>1, <1>2, <1>3, <1>4, <1>5, <1>6 DEF UpdStep

LEMMA UpdCallsKeepType ==
  ASSUME UpdTypeOK,
         \/ StartUpdateThread
         \/ StopUpdateThread
         \/ \E w \in Works : NewBlock(w)
         \/ UNCHANGED updVars
  PROVE  UpdTypeOK'
BY DEF UpdTypeOK, UpdPcs, StartUpdateThread, StopUpdateThread, NewBlock, updVars

LEMMA UpdInitType == UpdInit => UpdTypeOK
BY WorkUpdateAssumption DEF UpdInit, UpdTypeOK, UpdPcs, WorkParams

(* The type invariant of the update thread (updateThread.cpp 35-41). *)
THEOREM UpdTyping == UpdSpec => []UpdTypeOK
<1>1. UpdTypeOK /\ [UpdNext]_updVars => UpdTypeOK'
  BY UpdStepKeepsType, UpdCallsKeepType DEF UpdNext
<1> QED
  BY <1>1, UpdInitType, PTL DEF UpdSpec

-----------------------------------------------------------------------------
(* PublishedIsLastServed becomes inductive with what is known inside the   *)
(* window it leaves out: the thread's newWork is what the poll returned.   *)
UpdInv ==
  /\ PublishedIsLastServed
  /\ updPc \in {"count", "publish"} => newWork = h_served

(* The update thread's own steps keep the strengthened invariant. *)
LEMMA UpdStepKeepsUpdInv ==
  ASSUME UpdInv, UpdStep
  PROVE  UpdInv'
<1> USE DEF UpdInv, PublishedIsLastServed
<1>1. ASSUME UpdCheck PROVE UpdInv'
  BY <1>1 DEF UpdCheck, Hash
<1>2. ASSUME PollOk PROVE UpdInv'
  BY <1>2 DEF PollOk, PollReturns
<1>3. ASSUME PollFail \/ PollAbort PROVE UpdInv'
  BY <1>3 DEF PollFail, PollAbort, PollReturns, Hash
<1>4. ASSUME UpdCount PROVE UpdInv'
  BY <1>4 DEF UpdCount, Hash
<1>5. ASSUME UpdPublish PROVE UpdInv'
  BY <1>5 DEF UpdPublish, Hash
<1>6. ASSUME UpdInfo \/ InfoAbort PROVE UpdInv'
  BY <1>6 DEF UpdInfo, InfoAbort, InfoReturns, Hash
<1>7. ASSUME UpdSleep \/ UpdExit PROVE UpdInv'
  BY <1>7 DEF UpdSleep, UpdExit, Hash
<1> QED
  BY <1>1, <1>2, <1>3, <1>4, <1>5, <1>6, <1>7 DEF UpdStep

(* The published work is that of the last successful getWork, outside the  *)
(* window between counting a poll and publishing its work                  *)
(* (updateThread.cpp 306-325).                                             *)
THEOREM UpdPublishes == UpdSpec => []PublishedIsLastServed
<1>1. UpdInit => UpdInv
  BY DEF UpdInit, UpdInv, PublishedIsLastServed
<1>2. UpdInv /\ [UpdNext]_updVars => UpdInv'
  <2> SUFFICES ASSUME UpdInv, [UpdNext]_updVars PROVE UpdInv'
    OBVIOUS
  <2>1. ASSUME UNCHANGED updVars PROVE UpdInv'
    BY <2>1 DEF updVars, UpdInv, PublishedIsLastServed, Hash
  <2>2. ASSUME StartUpdateThread \/ StopUpdateThread PROVE UpdInv'
    BY <2>2 DEF StartUpdateThread, StopUpdateThread, UpdInv,
                PublishedIsLastServed, Hash
  <2>3. ASSUME NEW w \in Works, NewBlock(w) PROVE UpdInv'
    BY <2>3 DEF NewBlock, UpdInv, PublishedIsLastServed, Hash
  <2> QED
    BY <2>1, <2>2, <2>3, UpdStepKeepsUpdInv DEF UpdNext
<1>3. UpdInv => PublishedIsLastServed
  BY DEF UpdInv
<1> QED
  BY <1>1, <1>2, <1>3, PTL DEF UpdSpec

-----------------------------------------------------------------------------
(* The program. *)

MinerTypeOK ==
  /\ mainPc \in MainPcs
  /\ s_run \in BOOLEAN
  /\ s_bMinerThreadsRun \in BOOLEAN
  /\ minerPc \in [Miners -> MinerPcs]
  /\ prms \in [Miners -> WorkParams]
  /\ s_currentWorkHash \in [Miners -> Hashes]
  /\ waitCount \in [Miners -> 0..(CountMod - 1)]
  /\ h_current \subseteq Shares

(* A miner that scans, or is about to, holds the work its seed is of. *)
SeedOfWork ==
  \A m \in Miners :
    minerPc[m] \in {"clear", "wait", "scan"} => s_currentWorkHash[m] = Hash(prms[m])

(* A miner that is about to clear its flag has left the nonce sequence in  *)
(* which its shares were found.                                            *)
CleanBeforeClear ==
  \A m \in Miners : minerPc[m] = "clear" => h_current \cap SharesOf(m) = {}

CurrentUsed == \A s \in h_current : subPc[s] # "unused"

(* ShareConsistent and NoRejectionLost become inductive with these three   *)
(* and the invariant of the submissions.                                   *)
AmInv ==
  /\ UpdTypeOK
  /\ SubInv
  /\ MinerTypeOK
  /\ SeedOfWork
  /\ ShareConsistent
  /\ CleanBeforeClear
  /\ CurrentUsed
  /\ NoRejectionLost

MinerInv == SeedOfWork /\ ShareConsistent /\ CleanBeforeClear /\ CurrentUsed
              /\ NoRejectionLost

(* The actors that change neither a miner's variables nor a submission's   *)
(* keep what relates the two.                                              *)
LEMMA OthersKeepMinerInv ==
  ASSUME AmInv,
         UNCHANGED <<subPc, share, reply, needRegenSeed>>,
         UNCHANGED <<prms, s_currentWorkHash, h_current>>,
         \A m \in Miners : minerPc'[m] = minerPc[m]
                             \/ minerPc'[m] \notin {"clear", "wait", "scan"}
  PROVE  MinerInv'
BY DEF AmInv, MinerInv, SeedOfWork, ShareConsistent, CleanBeforeClear, CurrentUsed,
       NoRejectionLost, SharesOf, Hash

LEMMA AmInitInv == Init => AmInv
<1> SUFFICES ASSUME Init PROVE AmInv
  OBVIOUS
<1>1. UpdTypeOK /\ SubInv
  BY UpdInitType, SubInitInv DEF Init
<1>2. MinerTypeOK
  <2>1. NoWork \in WorkParams /\ NoHash \in Hashes
    <3>1. NoWork \in WorkParams
      BY DEF WorkParams
    <3>2. Hash(NoWork) = NoHash
      BY DEF Hash
    <3> QED
      BY <3>1, <3>2 DEF Hashes
  <2>2. 0 \in 0..(CountMod - 1)
    BY WorkUpdateAssumption
  <2> QED
    BY <2>1, <2>2 DEF Init, MinerTypeOK, MainPcs, MinerPcs
<1> QED
  BY <1>1, <1>2
     DEF Init, SubInit, AmInv, SeedOfWork, ShareConsistent, CleanBeforeClear,
         CurrentUsed, NoRejectionLost

-----------------------------------------------------------------------------
(* A submission that is under way. *)
LEMMA SubmissionKeepsAmInv ==
  ASSUME AmInv, NEW s \in Shares, SubmitStep(s),
         UNCHANGED <<updVars, mainVars, minerVars>>
  PROVE  AmInv'
<1>1. SubInv'
  BY SubmitStepKeepsSubInv DEF AmInv
<1>2. UpdTypeOK' /\ MinerTypeOK'
  BY UpdCallsKeepType DEF AmInv, MinerTypeOK, mainVars, minerVars
<1>3. \A x \in Shares : subPc'[x] = "unused" <=> subPc[x] = "unused"
  BY DEF AmInv, SubInv, SubTypeOK, SubmitStep, SubmitBegin, SubmitLock, SubmitPost,
         SubmitVerdict, SubmitCount, SubGoto
<1>4. share' = share
  BY DEF SubmitStep, SubmitBegin, SubmitLock, SubmitPost, SubmitVerdict, SubmitCount
<1>5. \A m \in Miners : SharesOf(m)' = SharesOf(m)
  BY <1>3, <1>4 DEF SharesOf
<1>6. SeedOfWork'
  BY DEF AmInv, SeedOfWork, minerVars, Hash
<1>7. ShareConsistent'
  BY <1>3, <1>4 DEF AmInv, ShareConsistent
<1>8. CleanBeforeClear'
  BY <1>5 DEF AmInv, CleanBeforeClear, minerVars
<1>9. CurrentUsed'
  BY <1>3 DEF AmInv, CurrentUsed, minerVars, MinerTypeOK
<1>10. NoRejectionLost'
  <2> SUFFICES ASSUME NEW x \in h_current,
                      subPc'[x] \in {"tally", "done"}, reply'[x] = "rejected"
               PROVE  needRegenSeed'[share[x].miner]
    BY <1>4 DEF NoRejectionLost, minerVars
  <2> USE DEF AmInv, SubInv, SubTypeOK, MinerTypeOK
  <2>1. x \in Shares /\ share[x].miner \in Miners
    BY DEF CurrentUsed, ShareArgs
  <2>2. CASE SubmitVerdict(s)
    <3>1. CASE x = s
      BY <2>1, <2>2, <3>1 DEF SubmitVerdict
    <3>2. CASE x # s
      <4>1. needRegenSeed[share[x].miner]
        BY <2>1, <2>2, <3>2 DEF SubmitVerdict, SubGoto, NoRejectionLost
      <4>2. share[s].miner \in Miners
        BY <2>2 DEF SubmitVerdict, ShareArgs
      <4> QED
        BY <2>1, <2>2, <4>1, <4>2 DEF SubmitVerdict
    <3> QED
      BY <3>1, <3>2
  <2>3. CASE SubmitBegin(s) \/ SubmitLock(s) \/ SubmitCount(s)
    BY <2>1, <2>3 DEF SubmitBegin, SubmitLock, SubmitCount, SubGoto, NoRejectionLost
  <2>4. ASSUME NEW r \in Replies, SubmitPost(s, r)
        PROVE  needRegenSeed'[share[x].miner]
    BY <2>1, <2>4 DEF SubmitPost, SubGoto, NoRejectionLost
  <2> QED
    BY <2>2, <2>3, <2>4 DEF SubmitStep
<1> QED
  BY <1>1, <1>2, <1>6, <1>7, <1>8, <1>9, <1>10 DEF AmInv

-----------------------------------------------------------------------------
(* A miner that draws a new nonce. *)
LEMMA DrawsKeepAmInv ==
  ASSUME AmInv, NEW m \in Miners, MinerNewWork(m) \/ MinerRegen(m)
  PROVE  AmInv'
<1> USE DEF AmInv, MinerTypeOK, Goto
<1>1. SubInv' /\ UpdTypeOK'
  BY StutterKeepsSubInv, UpdCallsKeepType DEF MinerNewWork, MinerRegen
<1>2. MinerTypeOK'
  <2>1. Hash(prms[m]) \in Hashes
    BY DEF Hashes
  <2>2. s_poolGetWorkCount \in 0..(CountMod - 1) /\ 0 \in 0..(CountMod - 1)
    BY WorkUpdateAssumption DEF UpdTypeOK
  <2> QED
    BY <2>1, <2>2 DEF MinerNewWork, MinerRegen, MinerPcs, mainVars
<1>3. SeedOfWork'
  BY DEF MinerNewWork, MinerRegen, SeedOfWork, Hash
<1>4. ShareConsistent'
  BY DEF MinerNewWork, MinerRegen, ShareConsistent, subVars
<1>5. CleanBeforeClear'
  BY DEF MinerNewWork, MinerRegen, CleanBeforeClear, SharesOf, subVars
<1>6. CurrentUsed' /\ NoRejectionLost'
  BY DEF MinerNewWork, MinerRegen, CurrentUsed, NoRejectionLost, subVars
<1> QED
  BY <1>1, <1>2, <1>3, <1>4, <1>5, <1>6

LEMMA ClearKeepsAmInv ==
  ASSUME AmInv, NEW m \in Miners, MinerClear(m)
  PROVE  AmInv'
<1> USE DEF AmInv, MinerTypeOK, MinerClear, Goto
<1>1. SubInv' /\ UpdTypeOK'
  BY ClearKeepsSubInv, UpdCallsKeepType
<1>2. MinerTypeOK'
  BY DEF MinerPcs, mainVars
<1>3. UNCHANGED <<subPc, share, reply>>
  BY DEF ClearNeedRegenSeed
<1>4. SeedOfWork'
  BY DEF SeedOfWork, Hash
<1>5. ShareConsistent' /\ CurrentUsed'
  BY <1>3 DEF ShareConsistent, CurrentUsed
<1>6. CleanBeforeClear'
  BY <1>3 DEF CleanBeforeClear, SharesOf
<1>7. NoRejectionLost'
  <2> SUFFICES ASSUME NEW s \in h_current, subPc[s] \in {"tally", "done"},
                      reply[s] = "rejected"
               PROVE  needRegenSeed'[share[s].miner]
    BY <1>3 DEF NoRejectionLost
  <2>1. needRegenSeed[share[s].miner]
    BY DEF NoRejectionLost
  <2>2. share[s].miner # m
    BY DEF CleanBeforeClear, SharesOf
  <2> QED
    BY <2>1, <2>2 DEF ClearNeedRegenSeed, SubInv, SubTypeOK
<1> QED
  BY <1>1, <1>2, <1>4, <1>5, <1>6, <1>7

LEMMA FoundKeepsAmInv ==
  ASSUME AmInv, NEW m \in Miners, NEW s \in Shares, MinerScanFound(m, s)
  PROVE  AmInv'
<1> USE DEF AmInv, MinerTypeOK, MinerScanFound, Goto
<1>1. Hash(prms[m]) \in Hashes /\ s_currentWorkHash[m] \in Hashes
  BY DEF Hashes
<1>2. SubInv' /\ UpdTypeOK'
  BY <1>1, LaunchKeepsSubInv, UpdCallsKeepType
<1>3. MinerTypeOK'
  BY DEF MinerPcs, mainVars
<1> USE DEF Launch, SubGoto, SubInv, SubTypeOK
<1>4. SeedOfWork'
  BY DEF SeedOfWork, Hash
<1>5. ShareConsistent'
  BY DEF ShareConsistent, SeedOfWork
<1>6. CurrentUsed'
  BY DEF CurrentUsed
<1>7. CleanBeforeClear'
  <2> SUFFICES ASSUME NEW n \in Miners, minerPc'[n] = "clear",
                      NEW x \in h_current', x \in SharesOf(n)'
               PROVE  FALSE
    BY DEF CleanBeforeClear
  <2>1. n # m /\ minerPc[n] = "clear"
    OBVIOUS
  <2>2. x # s
    BY <2>1 DEF SharesOf
  <2>3. x \in h_current /\ x \in SharesOf(n)
    BY <2>2 DEF SharesOf
  <2> QED
    BY <2>1, <2>3 DEF CleanBeforeClear
<1>8. NoRejectionLost'
  BY DEF NoRejectionLost
<1> QED
  BY <1>2, <1>3, <1>4, <1>5, <1>6, <1>7, <1>8

(* The other steps of a miner: into the scan they come with the work of    *)
(* their seed.                                                             *)
LEMMA OtherMinerStepsKeepAmInv ==
  ASSUME AmInv, NEW m \in Miners,
         \/ MinerInit(m) \/ MinerCheck(m) \/ MinerFetch(m) \/ MinerResume(m)
         \/ MinerContinue(m) \/ MinerScanNothing(m) \/ MinerSubmitted(m)
         \/ MinerFails(m)
  PROVE  AmInv'
<1> USE DEF AmInv, MinerTypeOK, Goto, MinerInit, MinerCheck, MinerFetch,
            MinerResume, MinerContinue, MinerScanNothing, MinerSubmitted,
            MinerFails
<1>1. SubInv' /\ UpdTypeOK'
  BY StutterKeepsSubInv, UpdCallsKeepType
<1>2. MinerTypeOK'
  BY WorkUpdateAssumption DEF MinerPcs, mainVars, UpdTypeOK
<1>3. SeedOfWork'
  BY DEF SeedOfWork, Hash
<1>4. ShareConsistent' /\ CurrentUsed' /\ NoRejectionLost'
  BY DEF ShareConsistent, CurrentUsed, NoRejectionLost, subVars
<1>5. CleanBeforeClear'
  BY DEF CleanBeforeClear, SharesOf, subVars
<1> QED
  BY <1>1, <1>2, <1>3, <1>4, <1>5

LEMMA MinerStepKeepsAmInv ==
  ASSUME AmInv, NEW m \in Miners, MinerStep(m)
  PROVE  AmInv'
BY DrawsKeepAmInv, ClearKeepsAmInv, FoundKeepsAmInv, OtherMinerStepsKeepAmInv
   DEF MinerStep, MinerScan

-----------------------------------------------------------------------------
LEMMA MainKeepsAmInv ==
  ASSUME AmInv, MainStep \/ CtrlC
  PROVE  AmInv'
<1> USE DEF AmInv, MinerTypeOK, MainStep, CtrlC, MainGoto, MainStartUpdate,
            MainStartMiners, MainLeaveLoop, MainFreeDevices, MainStopMiners,
            MainJoinMiners, MainDestroySubmit, MainStopUpdate, MainJoinUpdate,
            MainCleanup
<1>1. SubInv'
  BY StutterKeepsSubInv, DestroyKeepsSubInv
<1>2. UpdTypeOK'
  BY UpdCallsKeepType
<1>3. MinerTypeOK'
  BY DEF MainPcs, MinerPcs, minerVars
<1>4. MinerInv'
  BY OthersKeepMinerInv DEF subVars, minerVars, DestroySubmitHandle
<1> QED
  BY <1>1, <1>2, <1>3, <1>4 DEF MinerInv

LEMMA UpdateKeepsAmInv ==
  ASSUME AmInv, UpdStep \/ (\E w \in Works : NewBlock(w)),
         UNCHANGED <<subVars, mainVars, minerVars>>
  PROVE  AmInv'
<1>1. UpdTypeOK'
  BY UpdStepKeepsType, UpdCallsKeepType DEF AmInv
<1>2. SubInv'
  BY StutterKeepsSubInv DEF AmInv
<1>3. MinerTypeOK'
  BY DEF AmInv, MinerTypeOK, mainVars, minerVars
<1>4. MinerInv'
  BY OthersKeepMinerInv DEF subVars, minerVars
<1> QED
  BY <1>1, <1>2, <1>3, <1>4 DEF MinerInv, AmInv

LEMMA StutterKeepsAmInv ==
  ASSUME AmInv, UNCHANGED vars
  PROVE  AmInv'
<1>1. UpdTypeOK' /\ SubInv'
  BY UpdCallsKeepType, StutterKeepsSubInv DEF AmInv, vars
<1>2. MinerTypeOK'
  BY DEF AmInv, MinerTypeOK, vars, mainVars, minerVars
<1>3. MinerInv'
  BY OthersKeepMinerInv DEF vars, subVars, minerVars
<1> QED
  BY <1>1, <1>2, <1>3 DEF MinerInv, AmInv

LEMMA AmInvHolds == Spec => []AmInv
<1>1. AmInv /\ [Next]_vars => AmInv'
  <2> SUFFICES ASSUME AmInv, [Next]_vars PROVE AmInv'
    OBVIOUS
  <2>1. CASE UpdateThread
    BY <2>1, UpdateKeepsAmInv DEF UpdateThread
  <2>2. ASSUME NEW m \in Miners, MinerThread(m) PROVE AmInv'
    BY <2>2, MinerStepKeepsAmInv DEF MinerThread
  <2>3. ASSUME NEW s \in Shares, SubmitThread(s) PROVE AmInv'
    BY <2>3, SubmissionKeepsAmInv DEF SubmitThread
  <2>4. CASE Main \/ Interrupt
    BY <2>4, MainKeepsAmInv DEF Main, Interrupt
  <2>5. CASE Pool
    BY <2>5, UpdateKeepsAmInv DEF Pool
  <2>6. CASE Terminated \/ UNCHANGED vars
    BY <2>6, StutterKeepsAmInv DEF Terminated
  <2> QED
    BY <2>1, <2>2, <2>3, <2>4, <2>5, <2>6 DEF Next
<1> QED
  BY <1>1, AmInitInv, PTL DEF Spec

(* The type invariant of the program (main.cpp 49, miner.cpp 73-107). *)
THEOREM AmTyping == Spec => []AmTypeOK
<1>1. AmInv => AmTypeOK
  BY DEF AmInv, SubInv, MinerTypeOK, AmTypeOK
<1> QED
  BY <1>1, AmInvHolds, PTL

(* A share is submitted with the hash its seed was made from (miner.cpp    *)
(* 670-715, 441, 445).                                                     *)
THEOREM SharesAreConsistent == Spec => []ShareConsistent
<1>1. AmInv => ShareConsistent
  BY DEF AmInv
<1> QED
  BY <1>1, AmInvHolds, PTL

(* No rejection is lost between the submit thread that sets the flag and   *)
(* the miner that clears it (miner.cpp 403, 685-692).                      *)
THEOREM RejectionsAreKept == Spec => []NoRejectionLost
<1>1. AmInv => NoRejectionLost
  BY DEF AmInv
<1> QED
  BY <1>1, AmInvHolds, PTL

-----------------------------------------------------------------------------
(* A miner that scans, or is about to, has work. *)
HasWork ==
  \A m \in Miners :
    minerPc[m] \in {"decide", "clear", "wait", "scan"} => Hash(prms[m]) # NoHash

(* Until main starts them the miners are off. *)
OffBeforeStart ==
  mainPc \in {"startUpdate", "startMiners"} => \A m \in Miners : minerPc[m] = "off"

SeqInv == HasWork /\ OffBeforeStart

LEMMA SeqInvHolds == Spec => []SeqInv
<1>1. Init => SeqInv
  BY DEF Init, SeqInv, HasWork, OffBeforeStart
<1>2. AmInv /\ SeqInv /\ [Next]_vars => SeqInv'
  <2> SUFFICES ASSUME AmInv, SeqInv, [Next]_vars PROVE SeqInv'
    OBVIOUS
  <2> USE DEF AmInv, MinerTypeOK, SeqInv, HasWork, OffBeforeStart, Hash
  <2>1. CASE UpdateThread \/ Pool \/ Terminated \/ UNCHANGED vars
    BY <2>1 DEF UpdateThread, Pool, Terminated, vars, mainVars, minerVars
  <2>2. ASSUME NEW m \in Miners, MinerThread(m) PROVE SeqInv'
    BY <2>2 DEF MinerThread, MinerStep, MinerInit, MinerCheck, MinerFetch, MinerNewWork,
         MinerRegen, MinerClear, MinerResume, MinerContinue, MinerScan, MinerScanNothing,
         MinerScanFound, MinerSubmitted, MinerFails, Goto, mainVars
  <2>3. ASSUME NEW s \in Shares, SubmitThread(s) PROVE SeqInv'
    BY <2>3 DEF SubmitThread, mainVars, minerVars
  <2>4. CASE Main \/ Interrupt
    BY <2>4 DEF Main, Interrupt, CtrlC, MainStep, MainGoto, MainStartUpdate,
         MainStartMiners, MainLeaveLoop, MainFreeDevices, MainStopMiners,
         MainJoinMiners, MainDestroySubmit, MainStopUpdate, MainJoinUpdate,
         MainCleanup, minerVars
  <2> QED
    BY <2>1, <2>2, <2>3, <2>4 DEF Next
<1> QED
  BY <1>1, <1>2, AmInvHolds, PTL DEF Spec

(* The steps of NonceSequences: new work, ...                              *)
LEMMA NewWorkBegins ==
  ASSUME AmInv, SeqInv, NEW m \in Miners, MinerNewWork(m)
  PROVE  Sequences!SequenceNext
<1> USE DEF AmInv, MinerTypeOK, MinerNewWork, Goto
<1>1. Hash(prms[m]) \in Hashes \ {NoHash, s_currentWorkHash[m]}
  BY DEF SeqInv, HasWork, Hashes
<1>2. FinderOf' = FinderOf /\ Rejected' = Rejected /\ Owed' = Owed
  BY DEF FinderOf, Rejected, Owed, subVars
<1>3. Leaving' = Leaving /\ m \notin Leaving
  BY DEF Leaving
<1>4. SharesOf(m) = Sequences!FoundBy(m)
  BY DEF SharesOf, Sequences!FoundBy, FinderOf
<1>5. Sequences!NewWork(m, Hash(prms[m]))
  BY <1>1, <1>2, <1>3, <1>4 DEF Sequences!NewWork
<1> QED
  BY <1>1, <1>5 DEF Sequences!SequenceNext

(* ... a new nonce after a rejection, ...                                  *)
LEMMA RegenLeaves ==
  ASSUME AmInv, NEW m \in Miners, MinerRegen(m)
  PROVE  Sequences!SequenceNext
<1> USE DEF AmInv, MinerTypeOK, MinerRegen, Goto
<1>1. FinderOf' = FinderOf /\ Rejected' = Rejected /\ Owed' = Owed
  BY DEF FinderOf, Rejected, Owed, subVars
<1>2. Leaving' = Leaving \cup {m} /\ m \notin Leaving /\ m \in Owed
  BY DEF Leaving, Owed
<1>3. SharesOf(m) = Sequences!FoundBy(m)
  BY DEF SharesOf, Sequences!FoundBy, FinderOf
<1>4. Sequences!Leave(m)
  BY <1>1, <1>2, <1>3 DEF Sequences!Leave
<1> QED
  BY <1>4 DEF Sequences!SequenceNext

(* ... clearing the flag, ...                                              *)
LEMMA ClearAcknowledges ==
  ASSUME AmInv, NEW m \in Miners, MinerClear(m)
  PROVE  Sequences!SequenceNext
<1> USE DEF AmInv, MinerTypeOK, SubInv, SubTypeOK, MinerClear, ClearNeedRegenSeed, Goto
<1>1. FinderOf' = FinderOf /\ Rejected' = Rejected
  BY DEF FinderOf, Rejected
<1>2. Owed' = Owed \ {m}
  BY DEF Owed
<1>3. Leaving' = Leaving \ {m} /\ m \in Leaving
  BY DEF Leaving
<1>4. Sequences!Acknowledge(m)
  BY <1>1, <1>2, <1>3 DEF Sequences!Acknowledge
<1> QED
  BY <1>4 DEF Sequences!SequenceNext

(* ... a share, ...                                                        *)
LEMMA FoundFinds ==
  ASSUME AmInv, SeqInv, NEW m \in Miners, NEW s \in Shares, MinerScanFound(m, s)
  PROVE  Sequences!SequenceNext
<1> USE DEF AmInv, MinerTypeOK, SubInv, SubTypeOK, MinerScanFound, Launch, SubGoto, Goto
<1>1. s_currentWorkHash[m] # NoHash
  BY DEF SeqInv, HasWork, SeedOfWork
<1>2. s \notin DOMAIN FinderOf
  BY DEF FinderOf
<1>3. FinderOf' = [x \in DOMAIN FinderOf \cup {s} |-> IF x = s THEN m ELSE FinderOf[x]]
  <2>1. {x \in Shares : subPc'[x] # "unused"} = {x \in Shares : subPc[x] # "unused"} \cup {s}
    OBVIOUS
  <2>2. share'[s].miner = m /\ \A x \in Shares \ {s} : share'[x] = share[x]
    OBVIOUS
  <2> QED
    BY <2>1, <2>2 DEF FinderOf
<1>4. Rejected' = Rejected /\ Owed' = Owed
  BY DEF Rejected, Owed
<1>5. Leaving' = Leaving /\ m \notin Leaving
  BY DEF Leaving
<1>6. Sequences!Find(m, s)
  BY <1>1, <1>2, <1>3, <1>4, <1>5 DEF Sequences!Find
<1> QED
  BY <1>6 DEF Sequences!SequenceNext

(* ... and a rejection; the rest of a submission is none of them.          *)
LEMMA SubmissionRejects ==
  ASSUME AmInv, NEW s \in Shares, SubmitStep(s), UNCHANGED minerVars
  PROVE  Sequences!SequenceNext \/ UNCHANGED Sequences!sequenceVars
<1> USE DEF AmInv, SubInv, SubTypeOK, SubGoto
<1>1. UNCHANGED <<s_currentWorkHash, h_current>> /\ Leaving' = Leaving
  BY DEF Leaving, minerVars
<1>2. FinderOf' = FinderOf
  <2>1. share' = share
    BY DEF SubmitStep, SubmitBegin, SubmitLock, SubmitPost, SubmitVerdict, SubmitCount
  <2>2. \A x \in Shares : subPc'[x] = "unused" <=> subPc[x] = "unused"
    BY DEF SubmitStep, SubmitBegin, SubmitLock, SubmitPost, SubmitVerdict, SubmitCount
  <2> QED
    BY <2>1, <2>2 DEF FinderOf
<1>3. CASE SubmitVerdict(s) /\ reply[s] = "rejected"
  <2> USE <1>3 DEF SubmitVerdict
  <2>1. Rejected' = Rejected \cup {s} /\ s \notin Rejected
    BY DEF Rejected
  <2>2. FinderOf[s] = share[s].miner /\ s \in DOMAIN FinderOf
    BY DEF FinderOf
  <2>3. share[s].miner \in Miners
    BY DEF ShareArgs
  <2>4. Owed' = Owed \cup {FinderOf[s]}
    BY <2>2, <2>3 DEF Owed
  <2>5. Sequences!Reject(s)
    BY <1>1, <1>2, <2>1, <2>2, <2>4 DEF Sequences!Reject
  <2> QED
    BY <2>5 DEF Sequences!SequenceNext
<1>4. CASE ~(SubmitVerdict(s) /\ reply[s] = "rejected")
  <2>1. Owed' = Owed
    BY <1>4 DEF Owed, SubmitStep, SubmitBegin, SubmitLock, SubmitPost, SubmitVerdict,
         SubmitCount
  <2>2. Rejected' = Rejected
    BY <1>4 DEF Rejected, SubmitStep, SubmitBegin, SubmitLock, SubmitPost, SubmitVerdict,
         SubmitCount
  <2> QED
    BY <1>1, <1>2, <2>1, <2>2 DEF Sequences!sequenceVars
<1> QED
  BY <1>3, <1>4

(* Nothing else concerns the sequences. *)
LEMMA OthersKeepSequences ==
  ASSUME UNCHANGED <<subPc, share, reply, needRegenSeed, s_currentWorkHash, h_current>>,
         \A m \in Miners : minerPc'[m] = "clear" <=> minerPc[m] = "clear"
  PROVE  UNCHANGED Sequences!sequenceVars
BY DEF Sequences!sequenceVars, FinderOf, Rejected, Owed, Leaving

(* The threads of the program implement the protocol by which a rejection  *)
(* makes a miner leave its nonce sequence (miner.cpp 320-407, 668-716).    *)
THEOREM ImplementsSequences == Spec => SequenceSpec
<1>1. Init => Sequences!SequenceInit
  BY DEF Init, SubInit, Sequences!SequenceInit, FinderOf, Rejected, Owed, Leaving
<1>2. AmInv /\ SeqInv /\ [Next]_vars => [Sequences!SequenceNext]_(Sequences!sequenceVars)
  <2> SUFFICES ASSUME AmInv, SeqInv, [Next]_vars
               PROVE  Sequences!SequenceNext \/ UNCHANGED Sequences!sequenceVars
    OBVIOUS
  <2>1. CASE UpdateThread \/ Pool \/ Terminated \/ UNCHANGED vars
    BY <2>1, OthersKeepSequences
       DEF UpdateThread, Pool, Terminated, vars, subVars, minerVars
  <2>2. ASSUME NEW m \in Miners, MinerThread(m)
        PROVE  Sequences!SequenceNext \/ UNCHANGED Sequences!sequenceVars
    <3>1. CASE MinerNewWork(m) \/ MinerRegen(m) \/ MinerClear(m)
               \/ \E s \in Shares : MinerScanFound(m, s)
      BY <3>1, NewWorkBegins, RegenLeaves, ClearAcknowledges, FoundFinds
    <3>2. CASE \/ MinerInit(m) \/ MinerCheck(m) \/ MinerFetch(m) \/ MinerResume(m)
               \/ MinerContinue(m) \/ MinerScanNothing(m) \/ MinerSubmitted(m)
               \/ MinerFails(m)
      BY <3>2, OthersKeepSequences
         DEF AmInv, MinerTypeOK, MinerInit, MinerCheck, MinerFetch, MinerResume,
             MinerContinue, MinerScanNothing, MinerSubmitted, MinerFails, Goto,
             subVars
    <3> QED
      BY <2>2, <3>1, <3>2 DEF MinerThread, MinerStep, MinerScan
  <2>3. ASSUME NEW s \in Shares, SubmitThread(s)
        PROVE  Sequences!SequenceNext \/ UNCHANGED Sequences!sequenceVars
    BY <2>3, SubmissionRejects DEF SubmitThread
  <2>4. CASE Main \/ Interrupt
    BY <2>4, OthersKeepSequences
       DEF AmInv, SeqInv, OffBeforeStart, MinerTypeOK, Main, Interrupt, CtrlC,
           MainStep, MainGoto, MainStartUpdate, MainStartMiners, MainLeaveLoop,
           MainFreeDevices, MainStopMiners, MainJoinMiners, MainDestroySubmit,
           MainStopUpdate, MainJoinUpdate, MainCleanup,
           DestroySubmitHandle, subVars, minerVars
  <2> QED
    BY <2>1, <2>2, <2>3, <2>4 DEF Next
<1> QED
  BY <1>1, <1>2, AmInvHolds, SeqInvHolds, PTL
     DEF Spec, SequenceSpec, Sequences!SequenceSpec

-----------------------------------------------------------------------------
(* The shutdown.  A solo miner submits its shares itself, so joining the   *)
(* miners waits for every submission; a pool miner's submissions are       *)
(* threads of their own that nothing waits for, and only a build without   *)
(* ctrlCHandler never destroys the connection under them.                  *)
UnderWay == {s \in Shares : subPc[s] \notin {"unused", "skipped", "done"}}

(* Where the miners are joined, and where the connection is destroyed.     *)
PastJoin    == {"destroySubmit", "stopUpdate", "joinUpdate", "cleanup", "exit"}
PastDestroy == PastJoin \ {"destroySubmit"}

(* Only ctrlCHandler takes main out of its loop. *)
RunsUntilCtrlC ==
  /\ ~CtrlCHandled => s_run
  /\ mainPc \notin {"startUpdate", "startMiners", "loop"} => ~s_run

MinersJoined == mainPc \in PastJoin => \A m \in Miners : minerPc[m] \in {"off", "exited"}

(* Who is where while a share of its own is under way. *)
SubmitsInTurn == SoloMine => \A s \in UnderWay : minerPc[share[s].miner] = "submit"

(* The life of the two kinds of connections. *)
SubmitHandleLife ==
  /\ s_httpHandleSubmit = "destroyed" => mainPc \in PastDestroy
  /\ SoloMine /\ mainPc \in PastDestroy => s_httpHandleSubmit # "open"
  /\ \A s \in Shares : subPc[s] = "post" => s_httpHandleSubmit # "null"

UpdateJoined ==
  /\ mainPc \in {"cleanup", "exit"} => updPc = "done"
  /\ updPc = "done" => s_httpHandles = {}

StopInv ==
  RunsUntilCtrlC /\ MinersJoined /\ SubmitsInTurn /\ SubmitHandleLife /\ UpdateJoined

LEMMA StopInitInv == Init => StopInv
BY DEF Init, UpdInit, SubInit, StopInv, RunsUntilCtrlC, MinersJoined, SubmitsInTurn,
       SubmitHandleLife, UpdateJoined, UnderWay, PastJoin, PastDestroy

(* No share of a solo miner is under way once the miners are joined. *)
LEMMA NoneUnderWay ==
  ASSUME AmInv, StopInv, SoloMine, mainPc \in PastJoin
  PROVE  UnderWay = {}
<1> SUFFICES ASSUME NEW s \in UnderWay PROVE FALSE
  OBVIOUS
<1>1. s \in Shares /\ share[s].miner \in Miners
  BY DEF AmInv, SubInv, ShareArgs, UnderWay
<1> QED
  BY <1>1 DEF StopInv, MinersJoined, SubmitsInTurn

(* The update thread and the pool: the connections of the polls are closed *)
(* by the step that ends the thread.                                       *)
LEMMA UpdateKeepsStopInv ==
  ASSUME StopInv, UpdStep \/ (\E w \in Works : NewBlock(w)),
         UNCHANGED <<subVars, mainVars, minerVars>>
  PROVE  StopInv'
<1>1. RunsUntilCtrlC' /\ MinersJoined' /\ SubmitsInTurn' /\ SubmitHandleLife'
  BY DEF StopInv, RunsUntilCtrlC, MinersJoined, SubmitsInTurn, SubmitHandleLife,
         UnderWay, subVars, mainVars, minerVars
<1>2. updPc # "done" /\ updPc' = "done" => s_httpHandles' = {}
  BY DEF UpdStep, UpdCheck, PollOk, PollFail, PollAbort, PollReturns, UpdCount,
         UpdPublish, UpdInfo, InfoAbort, InfoReturns, UpdSleep, UpdExit, NewBlock
<1>3. updPc = "done" => updPc' = "done" /\ s_httpHandles' = s_httpHandles
  BY DEF UpdStep, UpdCheck, PollOk, PollFail, PollAbort, PollReturns, UpdCount,
         UpdPublish, UpdInfo, InfoAbort, InfoReturns, UpdSleep, UpdExit, NewBlock
<1>4. UpdateJoined'
  BY <1>2, <1>3 DEF StopInv, UpdateJoined, mainVars
<1> QED
  BY <1>1, <1>4 DEF StopInv

(* A submission: it posts through a connection it finds or creates. *)
LEMMA SubmissionKeepsStopInv ==
  ASSUME AmInv, StopInv, NEW s \in Shares, SubmitStep(s),
         UNCHANGED <<updVars, mainVars, minerVars>>
  PROVE  StopInv'
<1>1. RunsUntilCtrlC' /\ MinersJoined' /\ UpdateJoined'
  BY DEF StopInv, RunsUntilCtrlC, MinersJoined, UpdateJoined, updVars, mainVars,
         minerVars
<1>2. share' = share /\ s \in UnderWay /\ UnderWay' \subseteq UnderWay
  BY DEF AmInv, SubInv, SubTypeOK, SubmitStep, SubmitBegin, SubmitLock, SubmitPost,
         SubmitVerdict, SubmitCount, SubGoto, UnderWay
<1>3. SubmitsInTurn'
  BY <1>2 DEF StopInv, SubmitsInTurn, minerVars
<1>4. SubmitHandleLife'
  <2>1. ~(SoloMine /\ mainPc \in PastDestroy)
    BY <1>2, NoneUnderWay DEF PastDestroy
  <2>2. CASE SubmitLock(s)
    BY <2>1, <2>2
       DEF StopInv, SubmitHandleLife, SubmitLock, SubGoto, mainVars, AmInv, SubInv,
           SubTypeOK
  <2>3. CASE ~SubmitLock(s)
    <3>1. s_httpHandleSubmit' = s_httpHandleSubmit
      BY <2>3 DEF SubmitStep, SubmitBegin, SubmitPost, SubmitVerdict, SubmitCount
    <3>2. \A x \in Shares : subPc'[x] = "post" => subPc[x] = "post"
      BY <2>3 DEF AmInv, SubInv, SubTypeOK, SubmitStep, SubmitBegin, SubmitPost,
                  SubmitVerdict, SubmitCount, SubGoto
    <3> QED
      BY <2>1, <3>1, <3>2 DEF StopInv, SubmitHandleLife, mainVars
  <2> QED
    BY <2>2, <2>3
<1> QED
  BY <1>1, <1>3, <1>4 DEF StopInv

(* A miner: a solo miner leaves its submission when that has ended. *)
LEMMA MinerStepKeepsStopInv ==
  ASSUME AmInv, StopInv, NEW m \in Miners, MinerStep(m)
  PROVE  StopInv'
<1> USE DEF MinerStep, MinerInit, MinerCheck, MinerFetch, MinerNewWork, MinerRegen,
            MinerClear, MinerResume, MinerContinue, MinerScan, MinerScanNothing,
            MinerScanFound, MinerSubmitted, MinerFails, Goto
<1>1. UNCHANGED <<updVars, mainVars>> /\ minerPc[m] \notin {"off", "exited"}
  OBVIOUS
<1>2. mainPc \notin PastJoin
  BY <1>1 DEF StopInv, MinersJoined
<1>3. RunsUntilCtrlC' /\ MinersJoined' /\ UpdateJoined'
  BY <1>1, <1>2 DEF StopInv, RunsUntilCtrlC, MinersJoined, UpdateJoined, updVars, mainVars
<1>4. SubmitsInTurn'
  <2> SUFFICES ASSUME SoloMine, NEW s \in UnderWay'
               PROVE  minerPc'[share'[s].miner] = "submit"
    BY DEF SubmitsInTurn
  <2> USE DEF AmInv, MinerTypeOK
  <2>1. CASE \E x \in Shares : MinerScanFound(m, x)
    <3>1. PICK x \in Shares : MinerScanFound(m, x)
      BY <2>1
    <3>2. CASE s = x
      BY <3>1, <3>2 DEF Launch, SubInv, SubTypeOK
    <3>3. CASE s # x
      <4>1. s \in UnderWay /\ share'[s] = share[s] /\ share[s].miner \in Miners
        BY <3>1, <3>3 DEF Launch, SubGoto, SubInv, SubTypeOK, UnderWay, ShareArgs
      <4> QED
        BY <3>1, <4>1 DEF StopInv, SubmitsInTurn
    <3> QED
      BY <3>2, <3>3
  <2>2. CASE ~\E x \in Shares : MinerScanFound(m, x)
    <3>1. s \in UnderWay /\ share' = share
      BY <2>2 DEF UnderWay, subVars, ClearNeedRegenSeed
    <3>2. minerPc[share[s].miner] = "submit" /\ share[s].miner \in Miners
      BY <3>1 DEF StopInv, SubmitsInTurn, SubInv, ShareArgs, UnderWay
    <3>3. ~(share[s].miner = m /\ MinerSubmitted(m))
      BY <3>1 DEF SharesOf, UnderWay
    <3>4. minerPc'[share[s].miner] = "submit"
      BY <2>2, <3>2, <3>3
    <3> QED
      BY <3>1, <3>4
  <2> QED
    BY <2>1, <2>2
<1>5. SubmitHandleLife'
  <2>1. s_httpHandleSubmit' = s_httpHandleSubmit
    BY DEF Launch, subVars, ClearNeedRegenSeed
  <2>2. \A x \in Shares : subPc'[x] = "post" => subPc[x] = "post"
    BY DEF Launch, SubGoto, subVars, ClearNeedRegenSeed, AmInv, SubInv, SubTypeOK
  <2> QED
    BY <1>1, <1>2, <2>1, <2>2 DEF StopInv, SubmitHandleLife, PastDestroy, mainVars
<1> QED
  BY <1>3, <1>4, <1>5 DEF StopInv

(* Main: it joins before it destroys, and starts the miners when they have *)
(* not found a share yet.                                                  *)
LEMMA MainKeepsStopInv ==
  ASSUME AmInv, StopInv, OffBeforeStart, MainStep \/ CtrlC
  PROVE  StopInv'
<1> USE DEF MainStep, CtrlC, MainGoto, MainStartUpdate, MainStartMiners, MainLeaveLoop,
            MainFreeDevices, MainStopMiners, MainJoinMiners, MainDestroySubmit,
            MainStopUpdate, MainJoinUpdate, MainCleanup, PastJoin, PastDestroy
<1>1. RunsUntilCtrlC'
  BY DEF StopInv, RunsUntilCtrlC
<1>2. MinersJoined'
  BY DEF StopInv, MinersJoined, minerVars
<1>3. UNCHANGED <<subPc, share>>
  BY DEF DestroySubmitHandle, subVars
<1>4. SubmitsInTurn'
  <2>1. CASE MainStartMiners
    <3>1. \A s \in UnderWay : share[s].miner \in Miners
      BY DEF AmInv, SubInv, ShareArgs, UnderWay
    <3>2. SoloMine => UnderWay = {}
      BY <2>1, <3>1 DEF OffBeforeStart, StopInv, SubmitsInTurn
    <3> QED
      BY <1>3, <3>2 DEF SubmitsInTurn, UnderWay
  <2>2. CASE ~MainStartMiners
    BY <1>3, <2>2 DEF StopInv, SubmitsInTurn, UnderWay, minerVars
  <2> QED
    BY <2>1, <2>2
<1>5. SubmitHandleLife'
  BY <1>3 DEF StopInv, SubmitHandleLife, DestroySubmitHandle, subVars
<1>6. UpdateJoined'
  BY DEF StopInv, UpdateJoined, StartUpdateThread, StopUpdateThread, updVars
<1> QED
  BY <1>1, <1>2, <1>4, <1>5, <1>6 DEF StopInv

LEMMA StopInvHolds == Spec => []StopInv
<1>1. AmInv /\ SeqInv /\ StopInv /\ [Next]_vars => StopInv'
  <2> SUFFICES ASSUME AmInv, SeqInv, StopInv, [Next]_vars PROVE StopInv'
    OBVIOUS
  <2>1. CASE UpdateThread \/ Pool
    BY <2>1, UpdateKeepsStopInv DEF UpdateThread, Pool
  <2>2. ASSUME NEW m \in Miners, MinerThread(m) PROVE StopInv'
    BY <2>2, MinerStepKeepsStopInv DEF MinerThread
  <2>3. ASSUME NEW s \in Shares, SubmitThread(s) PROVE StopInv'
    BY <2>3, SubmissionKeepsStopInv DEF SubmitThread
  <2>4. CASE Main \/ Interrupt
    BY <2>4, MainKeepsStopInv DEF Main, Interrupt, SeqInv
  <2>5. CASE Terminated \/ UNCHANGED vars
    BY <2>5 DEF Terminated, vars, updVars, subVars, mainVars, minerVars, StopInv,
         RunsUntilCtrlC, MinersJoined, SubmitsInTurn, SubmitHandleLife, UpdateJoined,
         UnderWay
  <2> QED
    BY <2>1, <2>2, <2>3, <2>4, <2>5 DEF Next
<1> QED
  BY <1>1, StopInitInv, AmInvHolds, SeqInvHolds, PTL DEF Spec

(* Where nothing that main does not wait for is left to submit, no share   *)
(* is posted through a destroyed connection (miner.cpp 358-368, 837).      *)
THEOREM SubmitHandleLives ==
  ASSUME SoloMine \/ ~CtrlCHandled
  PROVE  Spec => []SubmitHandleLive
<1>1. AmInv /\ StopInv => SubmitHandleLive
  <2> SUFFICES ASSUME AmInv, StopInv, NEW s \in Shares, subPc[s] = "post",
                      s_httpHandleSubmit # "open"
               PROVE  FALSE
    BY DEF SubmitHandleLive
  <2>1. s_httpHandleSubmit = "destroyed"
    BY DEF AmInv, SubInv, SubTypeOK, StopInv, SubmitHandleLife
  <2>2. mainPc \in PastDestroy
    BY <2>1 DEF StopInv, SubmitHandleLife
  <2>3. SoloMine
    BY <2>2 DEF StopInv, RunsUntilCtrlC, PastDestroy, PastJoin
  <2> QED
    BY <2>2, <2>3, NoneUnderWay DEF PastDestroy, UnderWay
<1> QED
  BY <1>1, AmInvHolds, StopInvHolds, PTL

(* A solo miner that is stopped has closed every connection and ended      *)
(* every submission when main returns (main.cpp 233-238); without          *)
(* ctrlCHandler main does not come that far.                               *)
THEOREM HandlesCloseAtExit ==
  ASSUME SoloMine \/ ~CtrlCHandled
  PROVE  Spec => []HandlesClosedAtExit
<1>1. AmInv /\ StopInv => HandlesClosedAtExit
  <2> SUFFICES ASSUME AmInv, StopInv, mainPc \in {"cleanup", "exit"}
               PROVE  /\ s_httpHandles = {}
                      /\ s_httpHandleSubmit # "open"
                      /\ \A s \in Shares : subPc[s] \in {"unused", "skipped", "done"}
    BY DEF HandlesClosedAtExit
  <2>1. SoloMine
    BY DEF StopInv, RunsUntilCtrlC
  <2>2. UnderWay = {}
    BY <2>1, NoneUnderWay DEF PastJoin
  <2>3. s_httpHandles = {}
    BY DEF StopInv, UpdateJoined
  <2>4. s_httpHandleSubmit # "open"
    BY <2>1 DEF StopInv, SubmitHandleLife, PastDestroy, PastJoin
  <2> QED
    BY <2>2, <2>3, <2>4 DEF UnderWay
<1> QED
  BY <1>1, AmInvHolds, StopInvHolds, PTL
-----------------------------------------------------------------------------
(* Waiting.  The flags the threads look at, and the places of the update   *)
(* thread, follow from where main is: it starts the update thread before   *)
(* the miners and stops it after them.                                     *)
ThreadFlags ==
  /\ s_bMinerThreadsRun <=> mainPc \notin PastJoin \cup {"joinMiners"}
  /\ s_bUpdateThreadRun <=> mainPc \notin {"joinUpdate", "cleanup", "exit"}
  /\ s_bUpdateThreadRun => updPc \notin {"exit", "done"}
  /\ updPc = "off" <=> mainPc = "startUpdate"

LEMMA UpdateKeepsThreadFlags ==
  ASSUME ThreadFlags, UpdStep \/ (\E w \in Works : NewBlock(w)), UNCHANGED mainVars
  PROVE  ThreadFlags'
<1>1. s_bUpdateThreadRun' = s_bUpdateThreadRun
  BY DEF UpdStep, UpdCheck, PollOk, PollFail, PollAbort, PollReturns, UpdCount,
         UpdPublish, UpdInfo, InfoAbort, InfoReturns, UpdSleep, UpdExit, NewBlock
<1>2. updPc' = "off" <=> updPc = "off"
  BY DEF UpdStep, UpdCheck, PollOk, PollFail, PollAbort, PollReturns, UpdCount,
         UpdPublish, UpdInfo, InfoAbort, InfoReturns, UpdSleep, UpdExit, NewBlock
<1>3. s_bUpdateThreadRun /\ updPc \notin {"exit", "done"} => updPc' \notin {"exit", "done"}
  BY DEF UpdStep, UpdCheck, PollOk, PollFail, PollAbort, PollReturns, UpdCount,
         UpdPublish, UpdInfo, InfoAbort, InfoReturns, UpdSleep, UpdExit, NewBlock
<1> QED
  BY <1>1, <1>2, <1>3 DEF ThreadFlags, mainVars

LEMMA MainKeepsThreadFlags ==
  ASSUME ThreadFlags, MainStep \/ CtrlC
  PROVE  ThreadFlags'
BY DEF ThreadFlags, PastJoin, MainStep, CtrlC, MainGoto, MainStartUpdate,
       MainStartMiners, MainLeaveLoop, MainFreeDevices, MainStopMiners, MainJoinMiners,
       MainDestroySubmit, MainStopUpdate, MainJoinUpdate, MainCleanup,
       StartUpdateThread, StopUpdateThread, updVars

LEMMA ThreadFlagsHold == Spec => []ThreadFlags
<1>1. Init => ThreadFlags
  BY DEF Init, UpdInit, ThreadFlags, PastJoin
<1>2. ThreadFlags /\ [Next]_vars => ThreadFlags'
  <2> SUFFICES ASSUME ThreadFlags, [Next]_vars PROVE ThreadFlags'
    OBVIOUS
  <2>1. CASE UpdateThread \/ Pool
    BY <2>1, UpdateKeepsThreadFlags DEF UpdateThread, Pool
  <2>2. ASSUME NEW m \in Miners, MinerThread(m) PROVE UNCHANGED <<updVars, mainVars>>
    BY <2>2 DEF MinerThread, MinerStep, MinerInit, MinerCheck, MinerFetch, MinerNewWork,
         MinerRegen, MinerClear, MinerResume, MinerContinue, MinerScan, MinerScanNothing,
         MinerScanFound, MinerSubmitted, MinerFails
  <2>3. ASSUME NEW s \in Shares, SubmitThread(s) PROVE UNCHANGED <<updVars, mainVars>>
    BY <2>3 DEF SubmitThread
  <2>4. CASE Main \/ Interrupt
    BY <2>4, MainKeepsThreadFlags DEF Main, Interrupt
  <2>5. Terminated \/ UNCHANGED vars => UNCHANGED <<updVars, mainVars>>
    BY DEF Terminated, vars
  <2>6. UNCHANGED <<updVars, mainVars>> => ThreadFlags'
    BY DEF ThreadFlags, updVars, mainVars
  <2> QED
    BY <2>1, <2>2, <2>3, <2>4, <2>5, <2>6 DEF Next
<1> QED
  BY <1>1, <1>2, PTL DEF Spec

(* Whoever waits, waits for a thread that is not ended and does not wait   *)
(* for it: a miner for the update thread or a submission, a submission for *)
(* the one that posts, main for threads that were told to end (miner.cpp   *)
(* 355, 704, 833, updateThread.cpp 282, main.cpp 233-236).                 *)
THEOREM NobodyWaitsInVain == Spec => []WaitsAreServed
<1>1. AmInv /\ SeqInv /\ StopInv /\ ThreadFlags => WaitsAreServed
  <2> SUFFICES ASSUME AmInv, SeqInv, StopInv, ThreadFlags
               PROVE  WaitsAreServed
    OBVIOUS
  <2>1. ASSUME NEW m \in Miners, minerPc[m] = "wait"
        PROVE  s_bUpdateThreadRun /\ updPc \notin {"off", "exit", "done"}
    <3>1. mainPc \notin PastJoin
      BY <2>1 DEF StopInv, MinersJoined
    <3>2. mainPc # "startUpdate"
      BY <2>1 DEF SeqInv, OffBeforeStart
    <3> QED
      BY <3>1, <3>2 DEF ThreadFlags, PastJoin
  <2>2. ASSUME s_submit_mutex # NoShare PROVE subPc[s_submit_mutex] = "post"
    BY <2>2 DEF AmInv, SubInv, SubTypeOK, PostsExclusive
  <2>3. mainPc = "joinMiners" => ~s_bMinerThreadsRun
    BY DEF ThreadFlags
  <2>4. mainPc = "joinUpdate" => ~s_bUpdateThreadRun /\ updPc # "off"
    BY DEF ThreadFlags
  <2> QED
    BY <2>1, <2>2, <2>3, <2>4 DEF WaitsAreServed
<1> QED
  BY <1>1, AmInvHolds, SeqInvHolds, StopInvHolds, ThreadFlagsHold, PTL

-----------------------------------------------------------------------------
(* The components keep their promises in the running program.  Its steps   *)
(* are the update thread's, or leave that alone: main starts and stops the *)
(* thread once and nothing else writes what it owns (updateThread.cpp      *)
(* 278-387).                                                               *)
THEOREM RunsUpdateThread == Spec => UpdSpec
<1>1. Init => UpdInit
  BY DEF Init
<1>2. [Next]_vars => [UpdNext]_updVars
  <2> SUFFICES ASSUME [Next]_vars PROVE UpdNext \/ UNCHANGED updVars
    OBVIOUS
  <2>1. CASE UpdateThread \/ Pool
    BY <2>1 DEF UpdateThread, Pool, UpdNext
  <2>2. ASSUME NEW m \in Miners, MinerThread(m) PROVE UNCHANGED updVars
    BY <2>2 DEF MinerThread, MinerStep, MinerInit, MinerCheck, MinerFetch, MinerNewWork,
         MinerRegen, MinerClear, MinerResume, MinerContinue, MinerScan, MinerScanNothing,
         MinerScanFound, MinerSubmitted, MinerFails
  <2>3. ASSUME NEW s \in Shares, SubmitThread(s) PROVE UNCHANGED updVars
    BY <2>3 DEF SubmitThread
  <2>4. CASE Main \/ Interrupt
    BY <2>4 DEF Main, Interrupt, CtrlC, MainStep, MainStartUpdate, MainStartMiners,
         MainLeaveLoop, MainFreeDevices, MainStopMiners, MainJoinMiners,
         MainDestroySubmit, MainStopUpdate, MainJoinUpdate, MainCleanup, UpdNext
  <2>5. CASE Terminated \/ UNCHANGED vars
    BY <2>5 DEF Terminated, vars
  <2> QED
    BY <2>1, <2>2, <2>3, <2>4, <2>5 DEF Next
<1> QED
  BY <1>1, <1>2, PTL DEF Spec, UpdSpec

(* What a miner fetches is the work of the last successful getWork,        *)
(* outside the window between counting a poll and publishing its work      *)
(* (updateThread.cpp 306-325, miner.cpp 670).                          *)
COROLLARY ProgramPublishes == Spec => []PublishedIsLastServed
BY RunsUpdateThread, UpdPublishes, PTL

(* In the program shares are found by miners, in the middle of everything  *)
(* else, flags are cleared and the connection is destroyed: still every    *)
(* share is settled once and counted with its verdict (miner.cpp 323-407,  *)
(* 435-450, 837).                                                          *)
THEOREM ProgramImplementsLedger == Spec => LedgerSpec
<1>1. Init => Ledger!LedgerInit
  BY LedgerInitially DEF Init
<1>2. AmInv /\ [Next]_vars => [Ledger!LedgerNext]_(Ledger!ledgerVars)
  <2> SUFFICES ASSUME AmInv, [Next]_vars
               PROVE  Ledger!LedgerNext \/ UNCHANGED Ledger!ledgerVars
    OBVIOUS
  <2>1. ASSUME NEW m \in Miners, NEW s \in Shares, MinerScanFound(m, s)
        PROVE  Ledger!LedgerNext
    BY <2>1, LaunchFinds DEF AmInv, MinerScanFound, Ledger!LedgerNext
  <2>2. ASSUME NEW s \in Shares, SubmitThread(s)
        PROVE  Ledger!LedgerNext \/ UNCHANGED Ledger!ledgerVars
    BY <2>2, SubmitStepInLedger DEF AmInv, SubmitThread
  <2>3. ASSUME NEW m \in Miners, MinerThread(m), ~\E s \in Shares : MinerScanFound(m, s)
        PROVE  UNCHANGED Ledger!ledgerVars
    <3>1. UNCHANGED <<subPc, reply, s_nSharesFound, s_nSharesAccepted>>
      BY <2>3 DEF MinerThread, MinerStep, MinerInit, MinerCheck, MinerFetch,
           MinerNewWork, MinerRegen, MinerClear, ClearNeedRegenSeed, MinerResume,
           MinerContinue, MinerScan, MinerScanNothing, MinerSubmitted, MinerFails, subVars
    <3> QED
      BY <3>1, ElsewhereStutters
  <2>4. CASE Main \/ Interrupt
    <3>1. UNCHANGED <<subPc, reply, s_nSharesFound, s_nSharesAccepted>>
      BY <2>4 DEF Main, Interrupt, CtrlC, MainStep, MainStartUpdate, MainStartMiners,
           MainLeaveLoop, MainFreeDevices, MainStopMiners, MainJoinMiners,
           MainDestroySubmit, DestroySubmitHandle, MainStopUpdate, MainJoinUpdate,
           MainCleanup, subVars
    <3> QED
      BY <3>1, ElsewhereStutters
  <2>5. CASE UpdateThread \/ Pool \/ Terminated \/ UNCHANGED vars
    <3>1. UNCHANGED <<subPc, reply, s_nSharesFound, s_nSharesAccepted>>
      BY <2>5 DEF UpdateThread, Pool, Terminated, vars, subVars
    <3> QED
      BY <3>1, ElsewhereStutters
  <2> QED
    BY <2>1, <2>2, <2>3, <2>4, <2>5 DEF Next, MinerThread
<1> QED
  BY <1>1, <1>2, AmInvHolds, PTL DEF Spec, LedgerSpec, Ledger!LedgerSpec

(* One submission at a time posts through the connection and the counters  *)
(* stay exact, whoever submits and whenever main stops the miners          *)
(* (miner.cpp 355-406, 837).                                               *)
COROLLARY ProgramSubmits == Spec => [](PostsExclusive /\ CountersExact)
<1>1. AmInv => PostsExclusive /\ CountersExact
  BY DEF AmInv, SubInv
<1> QED
  BY <1>1, AmInvHolds, PTL
=============================================================================
