----------------------------- MODULE ShareSubmit ----------------------------
(***************************************************************************)
(* Submitting shares (submitThreadFn in miner.cpp).  A pool miner starts a *)
(* detached thread for each share, a solo miner calls the function itself; *)
(* all of them post through one connection handle under s_submit_mutex and *)
(* update the counters main reports and the flag that makes the miner draw *)
(* a new nonce after a rejection.                                          *)
(***************************************************************************)
EXTENDS MinerTypes

VARIABLES
  subPc,               (* where the submission of each share is              *)
  share,               (* what submitThreadFn was called with                *)
  reply,               (* what httpPost returned                             *)
  s_submit_mutex,      (* its holder                                         *)
  s_httpHandleSubmit,  (* the connection of all submits, created on demand   *)
  s_nSharesFound,
  s_nSharesAccepted,
  needRegenSeed        (* of each miner's MinerInfo                          *)

subVars == <<subPc, share, reply, s_submit_mutex, s_httpHandleSubmit,
             s_nSharesFound, s_nSharesAccepted, needRegenSeed>>

SubPcs  == {"unused", "start", "skipped", "lock", "post", "reply", "tally", "done"}
Replies == {"failed", "accepted", "rejected"}

(* A share: its miner, the hash submitted with it (prms.hash) and the hash *)
(* its seed was made from (s_currentWorkHash).                             *)
ShareArgs == [miner : Miners, hash : Hashes, seed : Hashes]

SubTypeOK ==
  /\ subPc \in [Shares -> SubPcs]
  /\ share \in [Shares -> ShareArgs \cup {NoShare}]
  /\ reply \in [Shares -> Replies \cup {"none"}]
  /\ s_submit_mutex \in Shares \cup {NoShare}
  /\ s_httpHandleSubmit \in {"null", "open", "destroyed"}
  /\ s_nSharesFound \in Nat
  /\ s_nSharesAccepted \in Nat
  /\ needRegenSeed \in [Miners -> BOOLEAN]

SubInit ==
  /\ subPc = [s \in Shares |-> "unused"]
  /\ share = [s \in Shares |-> NoShare]
  /\ reply = [s \in Shares |-> "none"]
  /\ s_submit_mutex = NoShare
  /\ s_httpHandleSubmit = "null"
  /\ s_nSharesFound = 0
  /\ s_nSharesAccepted = 0
  /\ needRegenSeed = [m \in Miners |-> FALSE]

-----------------------------------------------------------------------------
SubGoto(s, pc) == subPc' = [subPc EXCEPT ![s] = pc]

(* hash() found a result below the target and calls submitThreadFn. *)
Launch(s, m, h, seed) ==
  /\ subPc[s] = "unused"
  /\ SubGoto(s, "start")
  /\ share' = [share EXCEPT ![s] = [miner |-> m, hash |-> h, seed |-> seed]]
  /\ UNCHANGED <<reply, s_submit_mutex, s_httpHandleSubmit, s_nSharesFound,
                 s_nSharesAccepted, needRegenSeed>>

(* Nothing is submitted, or counted, while argon parameters are tested. *)
SubmitBegin(s) ==
  /\ subPc[s] = "start"
  /\ SubGoto(s, IF SubmitEnabled THEN "lock" ELSE "skipped")
  /\ UNCHANGED <<share, reply, s_submit_mutex, s_httpHandleSubmit,
                 s_nSharesFound, s_nSharesAccepted, needRegenSeed>>

(* Mutant of SubmitLock: the mutex guards only the creation of the handle. *)
LockForCreationOnly(s) ==
  /\ subPc[s] = "lock"
  /\ SubGoto(s, "post")
  /\ s_submit_mutex' = s
  /\ s_httpHandleSubmit' =
       IF s_httpHandleSubmit = "null" THEN "open" ELSE s_httpHandleSubmit
  /\ UNCHANGED <<share, reply, s_nSharesFound, s_nSharesAccepted, needRegenSeed>>

(* The lock is taken, the handle created if there is none, the post begun. *)
SubmitLock(s) ==
  /\ subPc[s] = "lock"
  /\ s_submit_mutex = NoShare
  /\ s_submit_mutex' = s
  /\ SubGoto(s, "post")
  /\ s_httpHandleSubmit' =
       IF s_httpHandleSubmit = "null" THEN "open" ELSE s_httpHandleSubmit
  /\ UNCHANGED <<share, reply, s_nSharesFound, s_nSharesAccepted, needRegenSeed>>

(* Mutant of SubmitPost: a failed post leaves before the unlock. *)
UnlockOnReplyOnly(s, r) ==
  /\ subPc[s] = "post"
  /\ SubGoto(s, "reply")
  /\ reply' = [reply EXCEPT ![s] = r]
  /\ s_submit_mutex' = IF r = "failed" THEN s_submit_mutex ELSE NoShare
  /\ UNCHANGED <<share, s_httpHandleSubmit, s_nSharesFound, s_nSharesAccepted,
                 needRegenSeed>>

(* httpPost returns and the mutex is released.  Every reply that is not an *)
(* object whose result is true counts as a rejection.                      *)
SubmitPost(s, r) ==
  /\ subPc[s] = "post"
  /\ SubGoto(s, "reply")
  /\ reply' = [reply EXCEPT ![s] = r]
  /\ s_submit_mutex' = NoShare
  /\ UNCHANGED <<share, s_httpHandleSubmit, s_nSharesFound, s_nSharesAccepted,
                 needRegenSeed>>

(* Mutant of SubmitVerdict: a rejection is logged and nothing else. *)
LogRejection(s) ==
  /\ subPc[s] = "reply"
  /\ SubGoto(s, "tally")
  /\ s_nSharesAccepted' =
       IF reply[s] = "accepted" THEN s_nSharesAccepted + 1 ELSE s_nSharesAccepted
  /\ UNCHANGED <<share, reply, s_submit_mutex, s_httpHandleSubmit,
                 s_nSharesFound, needRegenSeed>>

(* A share whose post failed is lost: it is not retried and the miner is   *)
(* not told.                                                               *)
SubmitVerdict(s) ==
  /\ subPc[s] = "reply"
  /\ SubGoto(s, "tally")
  /\ s_nSharesAccepted' =
       IF reply[s] = "accepted" THEN s_nSharesAccepted + 1 ELSE s_nSharesAccepted
  /\ needRegenSeed' =
       IF reply[s] = "rejected"
         THEN [needRegenSeed EXCEPT ![share[s].miner] = TRUE] ELSE needRegenSeed
  /\ UNCHANGED <<share, reply, s_submit_mutex, s_httpHandleSubmit, s_nSharesFound>>

(* Mutant of SubmitCount: only a share that was answered is counted. *)
CountAnswered(s) ==
  /\ subPc[s] = "tally"
  /\ SubGoto(s, "done")
  /\ s_nSharesFound' =
       IF reply[s] = "failed" THEN s_nSharesFound ELSE s_nSharesFound + 1
  /\ UNCHANGED <<share, reply, s_submit_mutex, s_httpHandleSubmit,
                 s_nSharesAccepted, needRegenSeed>>

(* The share is counted last, after it was counted as accepted. *)
SubmitCount(s) ==
  /\ subPc[s] = "tally"
  /\ SubGoto(s, "done")
  /\ s_nSharesFound' = s_nSharesFound + 1
  /\ UNCHANGED <<share, reply, s_submit_mutex, s_httpHandleSubmit,
                 s_nSharesAccepted, needRegenSeed>>

SubmitStep(s) ==
  \/ SubmitBegin(s)
  \/ SubmitLock(s)
  \/ \E r \in Replies : SubmitPost(s, r)
  \/ SubmitVerdict(s)
  \/ SubmitCount(s)

(* A submission, where it does not wait for an answer: httpPost has no     *)
(* timeout and may never return.                                           *)
SubmitRuns(s) == SubmitBegin(s) \/ SubmitLock(s) \/ SubmitVerdict(s) \/ SubmitCount(s)

-----------------------------------------------------------------------------
(* The two other writers of this state: a miner thread clears its flag     *)
(* when it draws a new nonce; stopMinerThreads destroys the handle without *)
(* the mutex and leaves the pointer as it is.                              *)
ClearNeedRegenSeed(m) ==
  /\ needRegenSeed' = [needRegenSeed EXCEPT ![m] = FALSE]
  /\ UNCHANGED <<subPc, share, reply, s_submit_mutex, s_httpHandleSubmit,
                 s_nSharesFound, s_nSharesAccepted>>

DestroySubmitHandle ==
  /\ s_httpHandleSubmit' =
       IF s_httpHandleSubmit = "null" THEN "null" ELSE "destroyed"
  /\ UNCHANGED <<subPc, share, reply, s_submit_mutex, s_nSharesFound,
                 s_nSharesAccepted, needRegenSeed>>

(* Submitting by itself, for miners that find shares at any time. *)
SubNext ==
  \/ \E s \in Shares, m \in Miners, w \in Works : Launch(s, m, Hash(w), Hash(w))
  \/ \E s \in Shares : SubmitStep(s)
  \/ \E m \in Miners : needRegenSeed[m] /\ ClearNeedRegenSeed(m)

SubSpec == SubInit /\ [][SubNext]_subVars

-----------------------------------------------------------------------------
(* libcurl forbids the use of a handle by two threads at once (http.cpp    *)
(* 61-62): at most one post is under way, by the holder of the mutex, and  *)
(* the mutex is held only for a post (miner.cpp 355-368).                  *)
PostsExclusive ==
  \A s \in Shares : subPc[s] = "post" <=> s_submit_mutex = s

(* The counters main reads are exact: a share is in s_nSharesFound once    *)
(* its submission has ended, whatever the outcome, and in                  *)
(* s_nSharesAccepted as soon as its verdict is (miner.cpp 370-406).        *)
Settled  == {s \in Shares : subPc[s] = "done"}
Accepted == {s \in Shares : subPc[s] \in {"tally", "done"} /\ reply[s] = "accepted"}

CountersExact ==
  /\ s_nSharesFound = Cardinality(Settled)
  /\ s_nSharesAccepted = Cardinality(Accepted)

(* Submitting implements the ledger, where settling a share is one step:   *)
(* the step that counts it.  A share accepted but not yet counted is still *)
(* pending there, so it is taken off the accepted count.                   *)
LedgerOf(s) ==
  CASE subPc[s] = "unused"  -> "none"
    [] subPc[s] = "skipped" -> "discarded"
    [] subPc[s] = "done"    -> IF reply[s] = "failed" THEN "lost" ELSE reply[s]
    [] OTHER                -> "pending"

AcceptedUncounted == {s \in Shares : subPc[s] = "tally" /\ reply[s] = "accepted"}

Ledger == INSTANCE ShareLedger
            WITH ledger     <- [s \in Shares |-> LedgerOf(s)],
                 nSubmitted <- s_nSharesFound,
                 nAccepted  <- s_nSharesAccepted - Cardinality(AcceptedUncounted)

LedgerSpec == Ledger!LedgerSpec
=============================================================================
