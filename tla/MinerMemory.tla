----------------------------- MODULE MinerMemory -----------------------------
(***************************************************************************)
(* The program (AquaMiner) with the memory its threads give to the CPU's   *)
(* argon2 (myAlloc and freeCurrentThreadMiningMemory, miner.cpp 172-214):  *)
(* one block per thread, kept in the map threadBlocks from the thread's    *)
(* first hash to its end.  Main has one during the self test (main.cpp     *)
(* 153-164), a miner for the nonces its GPU reports.  A mutex is held for  *)
(* insertions, but not for lookups and erasures.  A change of the map is   *)
(* two steps; what a thread does to it between those of another thread is  *)
(* a data race.  The outcome of a race is undefined, and so is that of     *)
(* every later access to the map: a lookup may give no node or that of any *)
(* thread, an insertion or erasure may lose any nodes, and any access may  *)
(* end the program.  What else a race may corrupt is left out.             *)
(***************************************************************************)
EXTENDS AquaMiner

CONSTANTS
  MainThread,  (* main, which runs the self test                            *)
  NoThread,
  MaxBlocks    (* bound: blocks allocated at a time                         *)

ASSUME MemoryAssumption ==
  /\ MainThread \notin Miners
  /\ NoThread \notin Miners \cup {MainThread}
  /\ MaxBlocks \in Nat

VARIABLES
  threadBlocks,   (* the map: a block, Absent, or Null                      *)
  changing,       (* the threads in the middle of an insertion or erasure   *)
  s_alloc_mutex,  (* who holds it                                           *)
  heap,           (* the blocks that are allocated                          *)
  block,          (* what myAlloc returned to the thread                    *)
  allocPc,        (* where each thread is in myAlloc or                     *)
                  (* freeCurrentThreadMiningMemory                          *)
  h_raced         (* history: two accesses to the map were a data race      *)

memVars == <<threadBlocks, changing, s_alloc_mutex, heap, block, allocPc, h_raced>>
allVars == <<vars, memVars>>

Threads == Miners \cup {MainThread}
Absent  == 0
Null    == MaxBlocks + 1
Blocks  == 1..MaxBlocks

(* The self test runs with the default argon parameters only. *)
MemInit ==
  /\ Init
  /\ threadBlocks = [t \in Threads |-> Absent]
  /\ changing = {}
  /\ s_alloc_mutex = NoThread
  /\ heap = {}
  /\ block = [t \in Threads |-> Null]
  /\ \E pc \in {"find", "freed"} :
       allocPc = [t \in Threads |-> IF t = MainThread THEN pc ELSE "idle"]
  /\ h_raced = FALSE

-----------------------------------------------------------------------------
AllocGoto(t, pc) == allocPc' = [allocPc EXCEPT ![t] = pc]
MemAt(t, pc)     == allocPc[t] = pc

(* An access to the map races if another thread changes it; one after a    *)
(* race is as undefined.                                                   *)
Racing(t) == h_raced \/ changing \ {t} # {}
Access(t) == h_raced' = Racing(t)

(* The key of a thread's block: this_thread::get_id. *)
tId(t) == t

(* What a lookup in the map may give, *)
Nodes(t, map) ==
  IF Racing(t) THEN {map[o] : o \in Threads} \cup {Absent} ELSE {map[tId(t)]}

(* and what an insertion or erasure may leave of it. *)
WhatIsLeft(t, map) ==
  IF Racing(t)
    THEN {[o \in Threads |-> IF o \in lost THEN Absent ELSE map[o]] : lost \in SUBSET Threads}
    ELSE {map}

(* argon2_ctx calls myAlloc: for the self test, and in hash() for a nonce  *)
(* the GPU has reported.                                                   *)
HashStarts(m) ==
  /\ minerPc[m] = "scan"
  /\ MemAt(m, "idle")
  /\ AllocGoto(m, "find")
  /\ UNCHANGED <<threadBlocks, changing, s_alloc_mutex, heap, block, h_raced>>

AllocFind(t) ==
  /\ MemAt(t, "find")
  /\ Access(t)
  /\ \E node \in Nodes(t, threadBlocks) :
       AllocGoto(t, IF node = Absent THEN "lock" ELSE "get")
  /\ UNCHANGED <<threadBlocks, changing, s_alloc_mutex, heap, block>>

AllocLock(t) ==
  /\ MemAt(t, "lock")
  /\ s_alloc_mutex = NoThread
  /\ s_alloc_mutex' = t
  /\ changing' = changing \cup {t}
  /\ Access(t)
  /\ AllocGoto(t, "insert")
  /\ UNCHANGED <<threadBlocks, heap, block>>

(* The assertion on the result (miner.cpp 193) stops the program. *)
Returns(t, b) ==
  /\ block' = [block EXCEPT ![t] = b]
  /\ AllocGoto(t, IF b = Null THEN "aborted" ELSE "ready")

(* operator[], which inserts a null pointer for a key it does not find. *)
LookUp(t, map) ==
  \E node \in Nodes(t, map) :
    IF node = Absent
      THEN threadBlocks' = [map EXCEPT ![tId(t)] = Null] /\ Returns(t, Null)
      ELSE threadBlocks' = map /\ Returns(t, node)

(* The block is allocated, its node inserted and looked up again. *)
AllocInsert(t) ==
  /\ MemAt(t, "insert")
  /\ \E b \in Blocks \ heap :
       /\ \A c \in Blocks \ heap : b <= c
       /\ heap' = heap \cup {b}
       /\ \E map \in WhatIsLeft(t, [threadBlocks EXCEPT ![tId(t)] = b]) : LookUp(t, map)
  /\ changing' = changing \ {t}
  /\ s_alloc_mutex' = NoThread
  /\ Access(t)

AllocGet(t) ==
  /\ MemAt(t, "get")
  /\ Access(t)
  /\ LookUp(t, threadBlocks)
  /\ UNCHANGED <<changing, s_alloc_mutex, heap>>

(* Mutant of myFree: the block is freed after each hash. *)
FreeAfterHash(t) == heap' = heap \ {block[t]}

(* The hash is done: the thread keeps its block for the next one. *)
myFree(t) == UNCHANGED heap

(* Main has tested, a miner has left its loop.                             *)
TestEnds ==
  /\ MemAt(MainThread, "ready")
  /\ AllocGoto(MainThread, "free")
  /\ myFree(MainThread)
  /\ UNCHANGED <<threadBlocks, changing, s_alloc_mutex, block, h_raced>>

(* Mutant of LoopEnds: the thread ends without freeing its block. *)
LoopEndsUnfreed(m) ==
  /\ minerPc[m] = "check" /\ ~s_bMinerThreadsRun
  /\ MemAt(m, "idle")
  /\ AllocGoto(m, "freed")
  /\ UNCHANGED <<threadBlocks, changing, s_alloc_mutex, heap, block, h_raced>>

LoopEnds(m) ==
  /\ minerPc[m] = "check" /\ ~s_bMinerThreadsRun
  /\ MemAt(m, "idle")
  /\ AllocGoto(m, "free")
  /\ UNCHANGED <<threadBlocks, changing, s_alloc_mutex, heap, block, h_raced>>

(* freeCurrentThreadMiningMemory, without the mutex: find, free, erase.    *)
FreeFind(t) ==
  /\ MemAt(t, "free")
  /\ Access(t)
  /\ \E node \in Nodes(t, threadBlocks) :
       IF node = Absent THEN AllocGoto(t, "freed") /\ UNCHANGED <<heap, changing>>
                        ELSE /\ heap' = heap \ {node}
                             /\ changing' = changing \cup {t}
                             /\ AllocGoto(t, "erase")
  /\ UNCHANGED <<threadBlocks, s_alloc_mutex, block>>

(* The node that was found need not be the thread's own. *)
FreeErase(t) ==
  /\ MemAt(t, "erase")
  /\ threadBlocks' \in WhatIsLeft(t, IF Racing(t) THEN threadBlocks
                                     ELSE [threadBlocks EXCEPT ![tId(t)] = Absent])
  /\ changing' = changing \ {t}
  /\ Access(t)
  /\ AllocGoto(t, "freed")
  /\ UNCHANGED <<s_alloc_mutex, heap, block>>

(* A tree that is or was read or written while it changed may also end the *)
(* program.                                                                *)
RaceCrashes(t) ==
  /\ Racing(t)
  /\ allocPc[t] \in {"find", "insert", "get", "free", "erase"}
  /\ h_raced' = TRUE
  /\ AllocGoto(t, "aborted")
  /\ UNCHANGED <<threadBlocks, changing, s_alloc_mutex, heap, block>>

MemStep ==
  \/ \E m \in Miners : HashStarts(m) \/ LoopEnds(m)
  \/ TestEnds
  \/ \E t \in Threads : \/ AllocFind(t) \/ AllocLock(t) \/ AllocInsert(t)
                        \/ AllocGet(t)  \/ FreeFind(t)  \/ FreeErase(t)
                        \/ RaceCrashes(t)

-----------------------------------------------------------------------------
(* The steps of AquaMiner, where they wait for the memory or end its use.  *)
(* A batch that reports nothing needs none.                                *)
ScanEnds(m) ==
  /\ \/ MemAt(m, "idle") /\ MinerScanNothing(m) /\ UNCHANGED heap
     \/ MemAt(m, "ready") /\ MinerScan(m) /\ myFree(m)
  /\ AllocGoto(m, "idle")
  /\ UNCHANGED <<threadBlocks, changing, s_alloc_mutex, block, h_raced>>

MinerGoesOn(m) ==
  /\ MinerStep(m) /\ ~MinerScan(m)
  /\ minerPc[m] = "check" /\ ~s_bMinerThreadsRun => MemAt(m, "freed")
  /\ UNCHANGED memVars

MainGoesOn ==
  /\ MainStep
  /\ mainPc = "startUpdate" => MemAt(MainThread, "freed")
  /\ UNCHANGED memVars

Stopped == ~Alive \/ \E t \in Threads : MemAt(t, "aborted")

MemNext ==
  \/ /\ ~Stopped
     /\ \/ MemStep /\ UNCHANGED vars
        \/ \E m \in Miners : ScanEnds(m) \/ MinerGoesOn(m)
        \/ MainGoesOn
        \/ /\ \/ UpdateThread
              \/ \E s \in Shares : SubmitThread(s)
              \/ Interrupt
              \/ Pool
           /\ UNCHANGED memVars
  \/ Stopped /\ UNCHANGED allVars

MemSpec == MemInit /\ [][MemNext]_allVars

-----------------------------------------------------------------------------
(* Unless accesses to the map raced, a thread that hashes has a block that *)
(* is allocated, from its first hash to its last, and that no other thread *)
(* hashes in or frees (miner.cpp 177-196, 198-214).                        *)
OwnBlock ==
  \A t \in Threads : MemAt(t, "ready") /\ ~h_raced =>
    /\ block[t] \in heap
    /\ \A o \in Threads \ {t} :
         /\ MemAt(o, "ready") => block[o] # block[t]
         /\ MemAt(o, "free")  => threadBlocks[tId(o)] # block[t]

(* Unless accesses to the map raced, every block has been freed when the   *)
(* miner threads are joined, that of the self test and those of miners     *)
(* stopped at any point of a turn included (main.cpp 163, miner.cpp 816).  *)
BlocksFreed ==
  mainPc \in {"destroySubmit", "stopUpdate", "joinUpdate", "cleanup", "exit"} =>
    heap = {} \/ h_raced
=============================================================================
