----------------------------- MODULE WorkUpdate -----------------------------
(***************************************************************************)
(* The update thread (updateThread.cpp): it polls aqua_getWork, publishes  *)
(* the work in s_workParams when its hash changes and counts the           *)
(* successful polls in s_poolGetWorkCount, which a paused miner watches.   *)
(* The pool (or node) is its environment: it holds a current job, and may  *)
(* answer any poll or fail to.                                             *)
(***************************************************************************)
EXTENDS MinerTypes

CONSTANTS
  CountMod,      (* s_poolGetWorkCount wraps at this value (2^32 in the code) *)
  HasFullNode,   (* a full node url is configured                             *)
  BadReplies     (* the requests that may be answered by JSON of a shape the  *)
                 (* code dereferences without checking it                     *)

ASSUME WorkUpdateAssumption ==
  /\ CountMod \in Nat /\ CountMod > 1
  /\ HasFullNode \in BOOLEAN
  /\ BadReplies \subseteq {"getWork", "blocksInfo"}

VARIABLES
  updPc,               (* where the update thread is in updateThreadFn       *)
  newWork,             (* its local newWork                                  *)
  s_workParams,        (* the published work, under s_workParams_mutex       *)
  s_poolGetWorkCount,  (* successful getWork polls (pool mode)               *)
  s_bUpdateThreadRun,  (* cleared by stopUpdateThread                        *)
  s_httpHandles,       (* the urls with an open connection handle            *)
  nodeJob,             (* the pool's current job                             *)
  h_served             (* history: the work of the last successful getWork   *)

updVars == <<updPc, newWork, s_workParams, s_poolGetWorkCount,
             s_bUpdateThreadRun, s_httpHandles, nodeJob, h_served>>

UpdPcs == {"off", "check", "poll", "count", "publish", "info", "sleep",
           "exit", "done", "aborted"}
Urls   == {"getWork", "fullNode"}

UpdTypeOK ==
  /\ updPc \in UpdPcs
  /\ newWork \in WorkParams
  /\ s_workParams \in WorkParams
  /\ s_poolGetWorkCount \in 0..(CountMod - 1)
  /\ s_bUpdateThreadRun \in BOOLEAN
  /\ s_httpHandles \subseteq Urls
  /\ nodeJob \in Works
  /\ h_served \in WorkParams

UpdInit ==
  /\ updPc = "off"
  /\ newWork = NoWork
  /\ s_workParams = NoWork
  /\ s_poolGetWorkCount = 0
  /\ s_bUpdateThreadRun = TRUE
  /\ s_httpHandles = {}
  /\ nodeJob \in Works
  /\ h_served = NoWork

-----------------------------------------------------------------------------
(* The environment: the pool moves to another job (a new block, a new      *)
(* share target for the same block, or back after a chain reorganisation). *)
NewBlock(w) ==
  /\ w # nodeJob
  /\ nodeJob' = w
  /\ UNCHANGED <<updPc, newWork, s_workParams, s_poolGetWorkCount,
                 s_bUpdateThreadRun, s_httpHandles, h_served>>

(* The two calls main makes. *)
StartUpdateThread ==
  /\ updPc = "off"
  /\ updPc' = "check"
  /\ UNCHANGED <<newWork, s_workParams, s_poolGetWorkCount,
                 s_bUpdateThreadRun, s_httpHandles, nodeJob, h_served>>

StopUpdateThread ==
  /\ updPc # "off"
  /\ s_bUpdateThreadRun
  /\ s_bUpdateThreadRun' = FALSE
  /\ UNCHANGED <<updPc, newWork, s_workParams, s_poolGetWorkCount,
                 s_httpHandles, nodeJob, h_served>>

-----------------------------------------------------------------------------
(* One turn of updateThreadFn's loop; in the mutant of its first step the  *)
(* flag is no longer looked at once there is work.                         *)
CheckBeforeFirstWorkOnly ==
  /\ updPc = "check"
  /\ updPc' = IF s_bUpdateThreadRun \/ s_workParams # NoWork THEN "poll" ELSE "exit"
  /\ newWork' = NoWork
  /\ UNCHANGED <<s_workParams, s_poolGetWorkCount, s_bUpdateThreadRun,
                 s_httpHandles, nodeJob, h_served>>

UpdCheck ==
  /\ updPc = "check"
  /\ updPc' = IF s_bUpdateThreadRun THEN "poll" ELSE "exit"
  /\ newWork' = NoWork
  /\ UNCHANGED <<s_workParams, s_poolGetWorkCount, s_bUpdateThreadRun,
                 s_httpHandles, nodeJob, h_served>>

(* requestPoolParams: the poll opens its handle on first use.  It is       *)
(* answered with the job of that moment, or the request fails, or the      *)
(* reply is not an object or has no result.                                *)
PollReturns(w, next) ==
  /\ updPc = "poll"
  /\ updPc' = next
  /\ newWork' = w
  /\ s_httpHandles' = s_httpHandles \cup {"getWork"}
  /\ UNCHANGED <<s_workParams, s_poolGetWorkCount, s_bUpdateThreadRun, nodeJob>>

PollOk    == PollReturns(nodeJob, "count") /\ h_served' = nodeJob
PollFail  == PollReturns(NoWork, "sleep") /\ UNCHANGED h_served
(* A result that is not an array stops the program at GetArray(), one of   *)
(* anything but strings at GetString(), one shorter than three where the   *)
(* target is read, and a target of zero where the difficulty is computed.  *)
PollAbort == /\ "getWork" \in BadReplies
             /\ PollReturns(NoWork, "aborted")
             /\ UNCHANGED h_served

(* Mutant of UpdCount: only the first work is published. *)
PublishFirstOnly ==
  /\ updPc = "count"
  /\ s_poolGetWorkCount' = IF SoloMine THEN s_poolGetWorkCount
                           ELSE (s_poolGetWorkCount + 1) % CountMod
  /\ updPc' = IF s_workParams = NoWork THEN "publish" ELSE "sleep"
  /\ UNCHANGED <<newWork, s_workParams, s_bUpdateThreadRun, s_httpHandles,
                 nodeJob, h_served>>

(* Mutant of UpdCount: the counter does not wrap. *)
CountWithoutWrap ==
  /\ updPc = "count"
  /\ s_poolGetWorkCount' = IF SoloMine THEN s_poolGetWorkCount
                           ELSE s_poolGetWorkCount + 1
  /\ updPc' = IF Hash(s_workParams) # Hash(newWork) THEN "publish" ELSE "sleep"
  /\ UNCHANGED <<newWork, s_workParams, s_bUpdateThreadRun, s_httpHandles,
                 nodeJob, h_served>>

(* The poll is counted before its work is compared and published. *)
UpdCount ==
  /\ updPc = "count"
  /\ s_poolGetWorkCount' = IF SoloMine THEN s_poolGetWorkCount
                           ELSE (s_poolGetWorkCount + 1) % CountMod
  /\ updPc' = IF Hash(s_workParams) # Hash(newWork) THEN "publish" ELSE "sleep"
  /\ UNCHANGED <<newWork, s_workParams, s_bUpdateThreadRun, s_httpHandles,
                 nodeJob, h_served>>

UpdPublish ==
  /\ updPc = "publish"
  /\ s_workParams' = newWork
  /\ updPc' = "info"
  /\ UNCHANGED <<newWork, s_poolGetWorkCount, s_bUpdateThreadRun,
                 s_httpHandles, nodeJob, h_served>>

(* getBlocksInfo: its replies are only logged; a reply that is not an      *)
(* object stops the program at HasMember().                                *)
InfoReturns(next) ==
  /\ updPc = "info"
  /\ updPc' = next
  /\ s_httpHandles' = s_httpHandles \cup
                        {IF HasFullNode THEN "fullNode" ELSE "getWork"}
  /\ UNCHANGED <<newWork, s_workParams, s_poolGetWorkCount,
                 s_bUpdateThreadRun, nodeJob, h_served>>

UpdInfo   == InfoReturns("sleep")
InfoAbort == "blocksInfo" \in BadReplies /\ InfoReturns("aborted")

UpdSleep ==
  /\ updPc = "sleep"
  /\ updPc' = "check"
  /\ UNCHANGED <<newWork, s_workParams, s_poolGetWorkCount,
                 s_bUpdateThreadRun, s_httpHandles, nodeJob, h_served>>

UpdExit ==
  /\ updPc = "exit"
  /\ updPc' = "done"
  /\ s_httpHandles' = {}
  /\ UNCHANGED <<newWork, s_workParams, s_poolGetWorkCount,
                 s_bUpdateThreadRun, nodeJob, h_served>>

(* The update thread's own steps. *)
UpdStep ==
  \/ UpdCheck \/ PollOk \/ PollFail \/ PollAbort \/ UpdCount \/ UpdPublish
  \/ UpdInfo \/ InfoAbort \/ UpdSleep \/ UpdExit

UpdNext ==
  \/ StartUpdateThread
  \/ StopUpdateThread
  \/ UpdStep
  \/ \E w \in Works : NewBlock(w)

UpdSpec == UpdInit /\ [][UpdNext]_updVars

(* The thread keeps running (an HTTP call returns), and a pool that is     *)
(* polled again and again does answer.                                     *)
UpdFairness == WF_updVars(UpdStep) /\ SF_updVars(PollOk)
UpdFairSpec == UpdSpec /\ WF_updVars(StartUpdateThread) /\ UpdFairness

-----------------------------------------------------------------------------
(* What the miners can read is the work of the last successful getWork,    *)
(* except between counting a poll and publishing its work                  *)
(* (updateThread.cpp 315-325); a failed poll never disturbs it.            *)
PublishedIsLastServed ==
  updPc \notin {"count", "publish"} => Hash(s_workParams) = Hash(h_served)

(* If the pool stays on one job and the update thread is not stopped, the  *)
(* published hash becomes and stays that job's (updateThread.cpp 278-367). *)
FreshWork ==
  \A w \in Works :
    <>[](nodeJob = w /\ s_bUpdateThreadRun /\ updPc # "aborted")
      => <>[](Hash(s_workParams) = Hash(w))

(* stopUpdateThread's join returns: once the flag is cleared the thread    *)
(* ends, whatever the pool answers (updateThread.cpp 282, 383-387).        *)
UpdateStops == ~s_bUpdateThreadRun ~> updPc \in {"done", "aborted"}

(* The update thread outlives every reply: it keeps polling until it is    *)
(* stopped.                                                                *)
UpdateThreadSurvives == updPc # "aborted"
=============================================================================
