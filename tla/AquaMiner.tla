------------------------------ MODULE AquaMiner -----------------------------
(***************************************************************************)
(* The running program: main (main.cpp 166-245), the miner threads         *)
(* (minerThreadFn, startMinerThreads and stopMinerThreads in miner.cpp),   *)
(* the update thread (WorkUpdate) and the submissions (ShareSubmit), with  *)
(* the state they share: the published work, the getWork counter, the      *)
(* needRegenSeed flags, the run flags, the connection handles.             *)
(***************************************************************************)
EXTENDS WorkUpdate, ShareSubmit

CONSTANTS
  CtrlCHandled,  (* ctrlCHandler is installed: only in the Windows build    *)
  FirstDevices   (* the miners whose device pointer is the array of its     *)
                 (* platform, and not yet freed                             *)

ASSUME CtrlCAssumption == CtrlCHandled \in BOOLEAN
ASSUME FirstDevicesAssumption == FirstDevices \subseteq Miners

VARIABLES
  mainPc,              (* where main is                                      *)
  s_run,               (* cleared by ctrlCHandler                            *)
  s_bMinerThreadsRun,  (* cleared by stopMinerThreads                        *)
  minerPc,             (* where each miner thread is in minerThreadFn        *)
  prms,                (* its copy of the published work                     *)
  s_currentWorkHash,   (* its thread-local hash, the one its seed is of      *)
  waitCount,           (* its getWorkCountOfRejectedShare (0 when dead)      *)
  h_current            (* history: the shares found since their miner last   *)
                       (* drew a nonce                                       *)

mainVars  == <<mainPc, s_run, s_bMinerThreadsRun>>
minerVars == <<minerPc, prms, s_currentWorkHash, waitCount, h_current>>
vars      == <<updVars, subVars, mainVars, minerVars>>

MainPcs  == {"startUpdate", "startMiners", "loop", "freeDevices", "stopMiners",
             "joinMiners", "destroySubmit", "stopUpdate", "joinUpdate", "cleanup",
             "exit", "aborted"}
MinerPcs == {"off", "init", "check", "fetch", "decide", "clear", "wait", "scan",
             "submit", "exited", "failed"}

AmTypeOK ==
  /\ UpdTypeOK
  /\ SubTypeOK
  /\ mainPc \in MainPcs
  /\ s_run \in BOOLEAN
  /\ s_bMinerThreadsRun \in BOOLEAN
  /\ minerPc \in [Miners -> MinerPcs]
  /\ prms \in [Miners -> WorkParams]
  /\ s_currentWorkHash \in [Miners -> Hashes]
  /\ waitCount \in [Miners -> 0..(CountMod - 1)]
  /\ h_current \subseteq Shares

Init ==
  /\ UpdInit
  /\ SubInit
  /\ mainPc = "startUpdate"
  /\ s_run = TRUE
  /\ s_bMinerThreadsRun = TRUE
  /\ minerPc = [m \in Miners |-> "off"]
  /\ prms = [m \in Miners |-> NoWork]
  /\ s_currentWorkHash = [m \in Miners |-> NoHash]
  /\ waitCount = [m \in Miners |-> 0]
  /\ h_current = {}

SharesOf(m) == {s \in Shares : subPc[s] # "unused" /\ share[s].miner = m}

-----------------------------------------------------------------------------
(* A miner thread, one loop turn of minerThreadFn. *)
Goto(m, pc) == minerPc' = [minerPc EXCEPT ![m] = pc]

(* It reads its device id, which main may have freed, and sets up OpenCL.  *)
MinerInit(m) ==
  /\ minerPc[m] = "init"
  /\ Goto(m, "check")
  /\ UNCHANGED <<updVars, subVars, mainVars, prms, s_currentWorkHash,
                 waitCount, h_current>>

MinerCheck(m) ==
  /\ minerPc[m] = "check"
  /\ Goto(m, IF s_bMinerThreadsRun THEN "fetch" ELSE "exited")
  /\ UNCHANGED <<updVars, subVars, mainVars, prms, s_currentWorkHash,
                 waitCount, h_current>>

(* currentWorkParams: a copy under s_workParams_mutex, ignored while empty. *)
MinerFetch(m) ==
  /\ minerPc[m] = "fetch"
  /\ prms' = [prms EXCEPT ![m] = s_workParams]
  /\ Goto(m, IF Hash(s_workParams) = NoHash THEN "check" ELSE "decide")
  /\ UNCHANGED <<updVars, subVars, mainVars, s_currentWorkHash, waitCount,
                 h_current>>

(* The work's hash has changed: a new nonce and a new seed.  A pending     *)
(* needRegenSeed stays set.  (A hash that is not 64 hexadecimal digits     *)
(* fails an assertion of generateAquaSeed; such hashes are left out.)      *)
MinerNewWork(m) ==
  /\ minerPc[m] = "decide"
  /\ Hash(prms[m]) # s_currentWorkHash[m]
  /\ s_currentWorkHash' = [s_currentWorkHash EXCEPT ![m] = Hash(prms[m])]
  /\ h_current' = h_current \ SharesOf(m)
  /\ Goto(m, "scan")
  /\ UNCHANGED <<updVars, subVars, mainVars, prms, waitCount>>

(* Mutant of MinerRegen: the scan goes on from the nonce it was at. *)
RegenKeepsNonce(m) ==
  /\ minerPc[m] = "decide"
  /\ Hash(prms[m]) = s_currentWorkHash[m]
  /\ needRegenSeed[m]
  /\ waitCount' = [waitCount EXCEPT ![m] = IF SoloMine THEN 0 ELSE s_poolGetWorkCount]
  /\ Goto(m, "clear")
  /\ UNCHANGED <<updVars, subVars, mainVars, prms, s_currentWorkHash, h_current>>

(* Same work, but a share was rejected: the getWork count is recorded and  *)
(* a new nonce drawn; the flag is cleared by the next step.                *)
MinerRegen(m) ==
  /\ minerPc[m] = "decide"
  /\ Hash(prms[m]) = s_currentWorkHash[m]
  /\ needRegenSeed[m]
  /\ waitCount' = [waitCount EXCEPT ![m] = IF SoloMine THEN 0 ELSE s_poolGetWorkCount]
  /\ h_current' = h_current \ SharesOf(m)
  /\ Goto(m, "clear")
  /\ UNCHANGED <<updVars, subVars, mainVars, prms, s_currentWorkHash>>

(* Mutant of MinerClear: the flag stays set. *)
FlagStays(m) ==
  /\ minerPc[m] = "clear"
  /\ Goto(m, IF SoloMine THEN "scan" ELSE "wait")
  /\ UNCHANGED <<updVars, subVars, mainVars, prms, s_currentWorkHash, waitCount, h_current>>

MinerClear(m) ==
  /\ minerPc[m] = "clear"
  /\ ClearNeedRegenSeed(m)
  /\ Goto(m, IF SoloMine THEN "scan" ELSE "wait")
  /\ UNCHANGED <<updVars, mainVars, prms, s_currentWorkHash, waitCount, h_current>>

(* Mutant of MinerResume: the work is read again, the seed is not. *)
ResumeOnLatestWork(m) ==
  /\ minerPc[m] = "wait"
  /\ s_poolGetWorkCount # waitCount[m]
  /\ waitCount' = [waitCount EXCEPT ![m] = 0]
  /\ prms' = [prms EXCEPT ![m] = s_workParams]
  /\ Goto(m, "scan")
  /\ UNCHANGED <<updVars, subVars, mainVars, s_currentWorkHash, h_current>>

(* A paused pool miner looks every 5 s whether another getWork has         *)
(* succeeded, and nothing else; it goes on with the prms it had.           *)
MinerResume(m) ==
  /\ minerPc[m] = "wait"
  /\ s_poolGetWorkCount # waitCount[m]
  /\ waitCount' = [waitCount EXCEPT ![m] = 0]
  /\ Goto(m, "scan")
  /\ UNCHANGED <<updVars, subVars, mainVars, prms, s_currentWorkHash, h_current>>

(* Same work, no rejection: the nonce is incremented. *)
MinerContinue(m) ==
  /\ minerPc[m] = "decide"
  /\ Hash(prms[m]) = s_currentWorkHash[m]
  /\ ~needRegenSeed[m]
  /\ Goto(m, "scan")
  /\ UNCHANGED <<updVars, subVars, mainVars, prms, s_currentWorkHash,
                 waitCount, h_current>>

(* The GPU batch finds nothing that the CPU check confirms... *)
MinerScanNothing(m) ==
  /\ minerPc[m] = "scan"
  /\ Goto(m, "check")
  /\ UNCHANGED <<updVars, subVars, mainVars, prms, s_currentWorkHash,
                 waitCount, h_current>>

(* Mutant of MinerScanFound: a pool miner waits for its submission too. *)
SubmitInTurn(m, s) ==
  /\ minerPc[m] = "scan"
  /\ Launch(s, m, Hash(prms[m]), s_currentWorkHash[m])
  /\ h_current' = h_current \cup {s}
  /\ Goto(m, "submit")
  /\ UNCHANGED <<updVars, mainVars, prms, s_currentWorkHash, waitCount>>

(* ... or a share: submitThreadFn gets prms.hash for a nonce found with    *)
(* the seed.  A pool miner goes on at once, a solo miner submits itself.   *)
MinerScanFound(m, s) ==
  /\ minerPc[m] = "scan"
  /\ Launch(s, m, Hash(prms[m]), s_currentWorkHash[m])
  /\ h_current' = h_current \cup {s}
  /\ Goto(m, IF SoloMine THEN "submit" ELSE "check")
  /\ UNCHANGED <<updVars, mainVars, prms, s_currentWorkHash, waitCount>>

MinerSubmitted(m) ==
  /\ minerPc[m] = "submit"
  /\ \A s \in SharesOf(m) : subPc[s] \in {"skipped", "done"}
  /\ Goto(m, "check")
  /\ UNCHANGED <<updVars, subVars, mainVars, prms, s_currentWorkHash,
                 waitCount, h_current>>

(* An OpenCL call fails, on a GPU in trouble or for a device id that is    *)
(* freed memory: the thread ends the program with exit(1).                 *)
MinerFails(m) ==
  /\ minerPc[m] \in {"init", "scan"}
  /\ Goto(m, "failed")
  /\ UNCHANGED <<updVars, subVars, mainVars, prms, s_currentWorkHash,
                 waitCount, h_current>>

MinerScan(m) == MinerScanNothing(m) \/ \E s \in Shares : MinerScanFound(m, s)

MinerStep(m) ==
  \/ MinerInit(m) \/ MinerCheck(m) \/ MinerFetch(m)
  \/ MinerNewWork(m) \/ MinerRegen(m) \/ MinerClear(m) \/ MinerResume(m)
  \/ MinerContinue(m) \/ MinerScan(m) \/ MinerSubmitted(m)
  \/ MinerFails(m)

-----------------------------------------------------------------------------
(* ctrlCHandler, on a thread of its own. *)
CtrlC ==
  /\ CtrlCHandled
  /\ s_run
  /\ s_run' = FALSE
  /\ UNCHANGED <<updVars, subVars, mainPc, s_bMinerThreadsRun, minerVars>>

MainGoto(from, to) == mainPc = from /\ mainPc' = to

MainStartUpdate ==
  /\ MainGoto("startUpdate", "startMiners")
  /\ StartUpdateThread
  /\ UNCHANGED <<subVars, s_run, s_bMinerThreadsRun, minerVars>>

MainStartMiners ==
  /\ MainGoto("startMiners", "loop")
  /\ minerPc' = IF s_run THEN [m \in Miners |-> "init"] ELSE minerPc
  /\ UNCHANGED <<updVars, subVars, s_run, s_bMinerThreadsRun,
                 prms, s_currentWorkHash, waitCount, h_current>>

MainLeaveLoop ==
  /\ MainGoto("loop", "freeDevices")
  /\ ~s_run
  /\ UNCHANGED <<updVars, subVars, s_run, s_bMinerThreadsRun, minerVars>>

(* The device ids are freed one by one while the miner threads run.  Those *)
(* of a platform lead into one array, so all but the first are pointers    *)
(* into its middle: free is undefined there, and the C library may end the *)
(* program or not notice.                                                  *)
MainFreeDevices ==
  /\ \/ MainGoto("freeDevices", "stopMiners")
     \/ FirstDevices # Miners /\ MainGoto("freeDevices", "aborted")
  /\ UNCHANGED <<updVars, subVars, s_run, s_bMinerThreadsRun, minerVars>>

(* Mutant of MainStopMiners: the update thread is told to stop as well. *)
StopAllThreads ==
  /\ MainGoto("stopMiners", "joinMiners")
  /\ s_bMinerThreadsRun' = FALSE
  /\ s_bUpdateThreadRun' = FALSE
  /\ UNCHANGED <<updPc, newWork, s_workParams, s_poolGetWorkCount,
                 s_httpHandles, nodeJob, h_served,
                 subVars, s_run, minerVars>>

(* stopMinerThreads clears its flag, joins every miner thread, destroys    *)
(* the connection of the submissions.                                      *)
MainStopMiners ==
  /\ MainGoto("stopMiners", "joinMiners")
  /\ s_bMinerThreadsRun' = FALSE
  /\ UNCHANGED <<updVars, subVars, s_run, minerVars>>

(* Mutant of MainJoinMiners: one thread is joined, not all. *)
JoinFirstMiner ==
  /\ MainGoto("joinMiners", "destroySubmit")
  /\ \E m \in Miners : minerPc[m] \in {"off", "exited"}
  /\ UNCHANGED <<updVars, subVars, s_run, s_bMinerThreadsRun, minerVars>>

MainJoinMiners ==
  /\ MainGoto("joinMiners", "destroySubmit")
  /\ \A m \in Miners : minerPc[m] \in {"off", "exited"}
  /\ UNCHANGED <<updVars, subVars, s_run, s_bMinerThreadsRun, minerVars>>

MainDestroySubmit ==
  /\ MainGoto("destroySubmit", "stopUpdate")
  /\ DestroySubmitHandle
  /\ UNCHANGED <<updVars, s_run, s_bMinerThreadsRun, minerVars>>

MainStopUpdate ==
  /\ MainGoto("stopUpdate", "joinUpdate")
  /\ StopUpdateThread
  /\ UNCHANGED <<subVars, s_run, s_bMinerThreadsRun, minerVars>>

(* Mutant of MainJoinUpdate: the thread is detached instead of joined. *)
DetachUpdate ==
  /\ MainGoto("joinUpdate", "cleanup")
  /\ UNCHANGED <<updVars, subVars, s_run, s_bMinerThreadsRun, minerVars>>

MainJoinUpdate ==
  /\ MainGoto("joinUpdate", "cleanup")
  /\ updPc = "done"
  /\ UNCHANGED <<updVars, subVars, s_run, s_bMinerThreadsRun, minerVars>>

(* curl_global_cleanup, then main returns and every thread left is gone. *)
MainCleanup ==
  /\ MainGoto("cleanup", "exit")
  /\ UNCHANGED <<updVars, subVars, s_run, s_bMinerThreadsRun, minerVars>>

MainStep ==
  \/ MainStartUpdate \/ MainStartMiners \/ MainLeaveLoop \/ MainFreeDevices
  \/ MainStopMiners \/ MainJoinMiners \/ MainDestroySubmit \/ MainStopUpdate
  \/ MainJoinUpdate \/ MainCleanup

-----------------------------------------------------------------------------
(* Nothing runs once main has returned or the program was ended. *)
Failed == \E m \in Miners : minerPc[m] = "failed"
Alive  == mainPc \notin {"exit", "aborted"} /\ updPc # "aborted" /\ ~Failed

UpdateThread    == Alive /\ UpdStep /\ UNCHANGED <<subVars, mainVars, minerVars>>
PollSucceeds    == Alive /\ PollOk /\ UNCHANGED <<subVars, mainVars, minerVars>>
MinerThread(m)  == Alive /\ MinerStep(m)
MinerResumes(m) == Alive /\ MinerResume(m)
SubmitThread(s) == Alive /\ SubmitStep(s) /\ UNCHANGED <<updVars, mainVars, minerVars>>
Main            == Alive /\ MainStep
Interrupt       == Alive /\ CtrlC
Pool            == /\ Alive
                   /\ \E w \in Works : NewBlock(w)
                   /\ UNCHANGED <<subVars, mainVars, minerVars>>
Terminated      == ~Alive /\ UNCHANGED vars

Next ==
  \/ UpdateThread
  \/ \E m \in Miners : MinerThread(m)
  \/ \E s \in Shares : SubmitThread(s)
  \/ Main
  \/ Interrupt
  \/ Pool
  \/ Terminated

Spec == Init /\ [][Next]_vars

SubmitGoesOn(s) ==
  /\ Alive
  /\ SubmitRuns(s)
  /\ UNCHANGED <<updVars, mainVars, minerVars>>

(* Every thread keeps running: the GPU finishes its batches, and a getWork *)
(* request returns.  No transfer has a timeout, so a share that is posted  *)
(* in the background may never be answered, and then keeps the mutex; only *)
(* of a solo miner, which posts itself, it is assumed that it is.          *)
ThreadsRun ==
  /\ WF_vars(UpdateThread)
  /\ \A m \in Miners : WF_vars(MinerThread(m))
  /\ \A s \in Shares : WF_vars(SubmitGoesOn(s)) /\ (SoloMine => WF_vars(SubmitThread(s)))
  /\ WF_vars(Main)

(* A pool that is polled again and again does answer.  A paused miner      *)
(* looks every 5 s, far more often than 2^32 polls can bring the counter   *)
(* back to the value it waits to leave.                                    *)
PoolAnswers == SF_vars(PollSucceeds)
MinersLook  == \A m \in Miners : SF_vars(MinerResumes(m))

FairSpec == Spec /\ ThreadsRun /\ PoolAnswers /\ MinersLook

-----------------------------------------------------------------------------
(* The hash a share is submitted with is the one its seed was made from,   *)
(* whatever was published between fetching the work, pausing after a       *)
(* rejection and finding the share (miner.cpp 670-715, 441, 445).          *)
ShareConsistent ==
  \A s \in Shares : subPc[s] # "unused" => share[s].hash = share[s].seed

(* A rejection is not lost: while a miner goes on in the nonce sequence    *)
(* that produced a rejected share its flag is set, although submit threads *)
(* set it and the miner clears it without a lock (miner.cpp 403, 685-692). *)
NoRejectionLost ==
  \A s \in h_current :
    subPc[s] \in {"tally", "done"} /\ reply[s] = "rejected"
      => needRegenSeed[share[s].miner]

(* The miners implement NonceSequences: needRegenSeed is the debt, which a *)
(* miner acknowledges by clearing it after it has drawn a nonce, whatever  *)
(* the submissions do meanwhile (miner.cpp 403, 670-692).                  *)
FinderOf == [s \in {x \in Shares : subPc[x] # "unused"} |-> share[s].miner]
Rejected == {s \in Shares : subPc[s] \in {"tally", "done"} /\ reply[s] = "rejected"}
Owed     == {m \in Miners : needRegenSeed[m]}
Leaving  == {m \in Miners : minerPc[m] = "clear"}

Sequences == INSTANCE NonceSequences
               WITH work <- s_currentWorkHash, open <- h_current, finder <- FinderOf,
                    rejected <- Rejected, owed <- Owed, leaving <- Leaving

SequenceSpec == Sequences!SequenceSpec

(* No submission posts through a destroyed connection: stopMinerThreads    *)
(* destroys it without s_submit_mutex (miner.cpp 358-368, 837).            *)
SubmitHandleLive ==
  \A s \in Shares : subPc[s] = "post" => s_httpHandleSubmit = "open"

(* When main shuts libcurl down and returns no connection is open, and no  *)
(* share is still being submitted (main.cpp 233-238).                      *)
HandlesClosedAtExit ==
  mainPc \in {"cleanup", "exit"} =>
    /\ s_httpHandles = {}
    /\ s_httpHandleSubmit # "open"
    /\ \A s \in Shares : subPc[s] \in {"unused", "skipped", "done"}

(* Nobody waits for a thread that is not coming: a paused miner, even one  *)
(* that main joins, waits for an update thread that polls on; a submission *)
(* for a mutex that is free or held across a post; main for threads that   *)
(* have been told to end (miner.cpp 355, 704, 833, updateThread.cpp 282,   *)
(* main.cpp 233-236).                                                      *)
WaitsAreServed ==
  Alive =>
    /\ \A m \in Miners : minerPc[m] = "wait" =>
         s_bUpdateThreadRun /\ updPc \notin {"off", "exit", "done"}
    /\ \A s \in Shares : subPc[s] = "lock" =>
         s_submit_mutex = NoShare \/ subPc[s_submit_mutex] = "post"
    /\ mainPc = "joinMiners" => ~s_bMinerThreadsRun
    /\ mainPc = "joinUpdate" => ~s_bUpdateThreadRun /\ updPc # "off"

(* After a rejection the miner leaves the nonce sequence of the rejected   *)
(* share, unless it ends first (miner.cpp 403, 685-690).                   *)
RejectionRedraws ==
  \A s \in Shares :
    s \in h_current /\ reply[s] = "rejected"
      ~> \/ s \notin h_current
         \/ minerPc[share[s].miner] = "exited"
         \/ ~Alive

(* As long as the pool answers polls a miner comes to scan, and to scan    *)
(* again, whatever its shares meet: rejections that pause it, posts that   *)
(* fail, a post that never returns with the mutex in hand and the shares   *)
(* queued behind it (miner.cpp 358-374, 668-811, updateThread.cpp 314-325).*)
MiningGoesOn ==
  \A m \in Miners :
    minerPc[m] # "off" ~> minerPc[m] \in {"scan", "exited"} \/ ~Alive

(* After Ctrl+C main returns, unless a GPU fails or, where two devices are *)
(* of one platform or the pointer of a device was freed before, the        *)
(* program ends in the free of the device ids (main.cpp 52-57, 227-245).   *)
ShutdownCompletes ==
  ~s_run ~> \/ mainPc = "exit"
            \/ Failed
            \/ mainPc = "aborted" /\ FirstDevices # Miners

(* A miner that resumes after a rejection has new work: not the work that  *)
(* was rejected (miner.cpp 696-709).                                       *)
ResumesOnNewWork ==
  [][\A m \in Miners :
       minerPc[m] = "wait" /\ minerPc'[m] = "scan" =>
         \A s \in SharesOf(m) :
           reply[s] = "rejected" => share[s].hash # Hash(prms'[m])]_vars
=============================================================================
