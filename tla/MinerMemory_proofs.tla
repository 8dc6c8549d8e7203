------------------------- MODULE MinerMemory_proofs -------------------------
(***************************************************************************)
(* The memory the CPU's argon2 hashes in, for any number of threads and    *)
(* blocks: unless accesses to the map raced, every thread hashes in a      *)
(* block of its own and none is left over; and with one miner they never   *)
(* race.  The program with its memory implements the program without, so   *)
(* what is proved of AquaMiner holds of it.                                *)
(***************************************************************************)
EXTENDS MinerMemory, AquaMiner_proofs

(* Where a thread has not begun to free its block.                         *)
LivePcs  == {"idle", "find", "lock", "insert", "get", "ready", "free"}
AllocPcs == LivePcs \cup {"erase", "freed", "aborted"}

MemTypeOK ==
  /\ threadBlocks \in [Threads -> Blocks \cup {Absent, Null}]
  /\ changing \subseteq Threads
  /\ s_alloc_mutex \in Threads \cup {NoThread}
  /\ heap \subseteq Blocks
  /\ block \in [Threads -> Blocks \cup {Null}]
  /\ allocPc \in [Threads -> AllocPcs]
  /\ h_raced \in BOOLEAN

(* The map gives the thread a block, and the thread will free it.          *)
Owns(t) == allocPc[t] \in LivePcs /\ threadBlocks[t] \in Blocks

(* Without a race no two threads' nodes name one block.                    *)
OwnNode ==
  ~h_raced => \A t \in Threads : Owns(t) =>
    /\ threadBlocks[t] \in heap
    /\ \A o \in Threads \ {t} : Owns(o) => threadBlocks[o] # threadBlocks[t]

(* What a thread holds where it hashes, or has found its node.             *)
HoldsNode ==
  ~h_raced => \A t \in Threads :
    /\ MemAt(t, "ready") => block[t] \in Blocks /\ block[t] = threadBlocks[t]
    /\ MemAt(t, "get")   => threadBlocks[t] # Absent

OwnInv == MemTypeOK /\ OwnNode /\ HoldsNode

LEMMA MemInitOwns == MemInit => OwnInv
<1> SUFFICES ASSUME MemInit PROVE OwnInv
  OBVIOUS
<1>1. MemTypeOK
  BY DEF MemInit, MemTypeOK, AllocPcs, LivePcs
<1>2. \A t \in Threads : threadBlocks[t] \notin Blocks /\ allocPc[t] \notin {"ready", "get"}
  BY DEF MemInit, Blocks, Absent
<1> QED
  BY <1>1, <1>2 DEF OwnInv, OwnNode, HoldsNode, Owns, MemAt

(* Absent and Null are no blocks. *)
LEMMA NoBlocks == Absent \notin Blocks /\ Null \notin Blocks /\ Absent # Null
BY MemoryAssumption DEF Absent, Null, Blocks

(* What an access that races, or comes after a race, may do keeps types.   *)
LEMMA NodesTyped ==
  ASSUME NEW t \in Threads, NEW map \in [Threads -> Blocks \cup {Absent, Null}]
  PROVE  /\ Nodes(t, map) \subseteq Blocks \cup {Absent, Null}
         /\ WhatIsLeft(t, map) \subseteq [Threads -> Blocks \cup {Absent, Null}]
BY DEF Nodes, WhatIsLeft, tId

(* One that does not is defined.                                           *)
LEMMA NodesDefined ==
  ASSUME NEW t \in Threads, NEW map, ~Racing(t)
  PROVE  Nodes(t, map) = {map[t]} /\ WhatIsLeft(t, map) = {map}
BY DEF Nodes, WhatIsLeft, tId

(* A step in which one thread moves on within the same node. *)
LEMMA MovesKeepOwnInv ==
  ASSUME OwnInv, NEW t \in Threads, NEW pc \in AllocPcs, AllocGoto(t, pc),
         pc = "get" /\ ~h_raced' => threadBlocks[t] # Absent,
         pc # "ready",
         pc \in LivePcs => allocPc[t] \in LivePcs,
         UNCHANGED <<threadBlocks, heap, block>>,
         changing' \subseteq Threads,
         s_alloc_mutex' \in Threads \cup {NoThread},
         h_raced' \in BOOLEAN,
         h_raced => h_raced'
  PROVE  OwnInv'
<1> USE DEF OwnInv, AllocGoto
<1>1. MemTypeOK'
  BY DEF MemTypeOK
<1>2. \A o \in Threads : Owns(o)' => Owns(o)
  BY DEF Owns, MemTypeOK
<1>3. OwnNode'
  BY <1>2 DEF OwnNode
<1>4. HoldsNode'
  BY DEF HoldsNode, MemAt, MemTypeOK
<1> QED
  BY <1>1, <1>3, <1>4

(* Once accesses have raced only the types are left to keep.               *)
LEMMA RacedKeepsOwnInv ==
  ASSUME MemTypeOK', h_raced'
  PROVE  OwnInv'
BY DEF OwnInv, OwnNode, HoldsNode

LEMMA LookUpTyped ==
  ASSUME MemTypeOK, NEW t \in Threads,
         NEW map \in [Threads -> Blocks \cup {Absent, Null}], LookUp(t, map)
  PROVE  /\ threadBlocks' \in [Threads -> Blocks \cup {Absent, Null}]
         /\ block' \in [Threads -> Blocks \cup {Null}]
         /\ allocPc' \in [Threads -> AllocPcs]
<1>1. PICK node \in Nodes(t, map) :
        IF node = Absent
          THEN threadBlocks' = [map EXCEPT ![t] = Null] /\ Returns(t, Null)
          ELSE threadBlocks' = map /\ Returns(t, node)
  BY DEF LookUp, tId
<1>2. node \in Blocks \cup {Absent, Null}
  BY <1>1, NodesTyped
<1> QED
  BY <1>1, <1>2 DEF Returns, AllocGoto, MemTypeOK, AllocPcs, LivePcs

LEMMA InsertKeepsOwnInv ==
  ASSUME OwnInv, NEW t \in Threads, AllocInsert(t)
  PROVE  OwnInv'
<1> USE DEF OwnInv, AllocInsert, AllocGoto, tId
<1>1. PICK b \in Blocks \ heap :
        /\ heap' = heap \cup {b}
        /\ \E map \in WhatIsLeft(t, [threadBlocks EXCEPT ![t] = b]) : LookUp(t, map)
  OBVIOUS
<1>2. [threadBlocks EXCEPT ![t] = b] \in [Threads -> Blocks \cup {Absent, Null}]
  BY DEF MemTypeOK
<1>3. MemTypeOK'
  <2>1. PICK map \in [Threads -> Blocks \cup {Absent, Null}] : LookUp(t, map)
    BY <1>1, <1>2, NodesTyped
  <2>2. /\ threadBlocks' \in [Threads -> Blocks \cup {Absent, Null}]
        /\ block' \in [Threads -> Blocks \cup {Null}]
        /\ allocPc' \in [Threads -> AllocPcs]
    BY <2>1, LookUpTyped
  <2> QED
    BY <1>1, <2>2 DEF MemTypeOK, Access, Racing
<1>4. CASE h_raced'
  BY <1>3, <1>4, RacedKeepsOwnInv
<1>5. CASE ~h_raced'
  <2>1. ~h_raced /\ ~Racing(t)
    BY <1>5 DEF Access, Racing
  <2>2. LookUp(t, [threadBlocks EXCEPT ![t] = b])
    BY <1>1, <2>1, NodesDefined
  <2>3. /\ threadBlocks' = [threadBlocks EXCEPT ![t] = b]
        /\ Returns(t, b)
    BY <2>1, <2>2, NodesDefined, NoBlocks DEF LookUp, MemTypeOK
  <2>4. \A o \in Threads \ {t} : /\ threadBlocks'[o] = threadBlocks[o]
                                 /\ Owns(o)' = Owns(o)
    BY <2>3 DEF Owns, MemTypeOK, Returns
  <2>5. OwnNode'
    BY <1>1, <2>1, <2>3, <2>4 DEF OwnNode, MemTypeOK
  <2>6. HoldsNode'
    BY <2>1, <2>3, NoBlocks DEF HoldsNode, MemAt, MemTypeOK, Returns
  <2> QED
    BY <1>3, <2>5, <2>6
<1> QED
  BY <1>4, <1>5

LEMMA GetKeepsOwnInv ==
  ASSUME OwnInv, NEW t \in Threads, AllocGet(t)
  PROVE  OwnInv'
<1> USE DEF OwnInv, AllocGet, AllocGoto, tId
<1>1. MemTypeOK'
  <2>1. /\ threadBlocks' \in [Threads -> Blocks \cup {Absent, Null}]
        /\ block' \in [Threads -> Blocks \cup {Null}]
        /\ allocPc' \in [Threads -> AllocPcs]
    BY LookUpTyped DEF MemTypeOK
  <2> QED
    BY <2>1 DEF MemTypeOK, Access, Racing
<1>2. CASE h_raced'
  BY <1>1, <1>2, RacedKeepsOwnInv
<1>3. CASE ~h_raced'
  <2>1. ~h_raced /\ ~Racing(t)
    BY <1>3 DEF Access, Racing
  <2>2. threadBlocks' = threadBlocks /\ Returns(t, threadBlocks[t])
    BY <2>1, NodesDefined DEF LookUp, HoldsNode
  <2>3. \A o \in Threads : Owns(o)' => Owns(o)
    BY <2>2, NoBlocks DEF Owns, MemTypeOK, MemAt, LivePcs, Returns
  <2>4. OwnNode'
    BY <2>1, <2>2, <2>3 DEF OwnNode
  <2>5. HoldsNode'
    BY <2>1, <2>2, NoBlocks DEF HoldsNode, MemAt, MemTypeOK, Returns
  <2> QED
    BY <1>1, <2>4, <2>5
<1> QED
  BY <1>2, <1>3

(* A thread that frees its block is about to give up its node; no other    *)
(* node of a thread that has one names the block.                          *)
LEMMA FreeKeepsOwnInv ==
  ASSUME OwnInv, NEW t \in Threads, FreeFind(t)
  PROVE  OwnInv'
<1> USE DEF OwnInv, FreeFind, AllocGoto, tId
<1>1. PICK pc \in {"erase", "freed"}, node \in Nodes(t, threadBlocks) :
        /\ allocPc' = [allocPc EXCEPT ![t] = pc]
        /\ heap' = heap \/ heap' = heap \ {node}
  OBVIOUS
<1>2. MemTypeOK'
  BY <1>1 DEF MemTypeOK, Access, AllocPcs, Racing
<1>3. CASE h_raced'
  BY <1>2, <1>3, RacedKeepsOwnInv
<1>4. CASE ~h_raced'
  <2>1. ~h_raced /\ node = threadBlocks[t]
    <3>1. ~h_raced /\ ~Racing(t)
      BY <1>4 DEF Access, Racing
    <3>2. Nodes(t, threadBlocks) = {threadBlocks[t]}
      BY <3>1, NodesDefined
    <3> QED
      BY <3>1, <3>2
  <2>2. \A o \in Threads : Owns(o)' => Owns(o) /\ o # t
    BY <1>1 DEF Owns, MemTypeOK, LivePcs
  <2>3. Owns(t) \/ threadBlocks[t] \notin Blocks
    BY DEF Owns, MemAt, LivePcs
  <2>4. OwnNode'
    <3> SUFFICES ASSUME NEW o \in Threads, Owns(o)'
                 PROVE  /\ threadBlocks[o] \in heap'
                        /\ \A x \in Threads \ {o} : Owns(x)' => threadBlocks[x] # threadBlocks[o]
      BY DEF OwnNode
    <3>1. threadBlocks[o] # threadBlocks[t]
      BY <2>1, <2>2, <2>3 DEF OwnNode, Owns
    <3> QED
      BY <1>1, <2>1, <2>2, <3>1 DEF OwnNode
  <2>5. HoldsNode'
    BY <1>1, <2>1 DEF HoldsNode, MemAt, MemTypeOK
  <2> QED
    BY <1>2, <2>4, <2>5
<1> QED
  BY <1>3, <1>4

LEMMA EraseKeepsOwnInv ==
  ASSUME OwnInv, NEW t \in Threads, FreeErase(t)
  PROVE  OwnInv'
<1> USE DEF OwnInv, FreeErase, AllocGoto, tId
<1>1. MemTypeOK'
  <2>1. PICK map \in {threadBlocks, [threadBlocks EXCEPT ![t] = Absent]} :
          threadBlocks' \in WhatIsLeft(t, map)
    OBVIOUS
  <2>2. map \in [Threads -> Blocks \cup {Absent, Null}]
    BY <2>1 DEF MemTypeOK
  <2>3. threadBlocks' \in [Threads -> Blocks \cup {Absent, Null}]
    BY <2>1, <2>2, NodesTyped
  <2> QED
    BY <2>3 DEF MemTypeOK, Access, AllocPcs, Racing
<1>2. CASE h_raced'
  BY <1>1, <1>2, RacedKeepsOwnInv
<1>3. CASE ~h_raced'
  <2>1. ~h_raced /\ ~Racing(t)
    BY <1>3 DEF Access, Racing
  <2>2. threadBlocks' = [threadBlocks EXCEPT ![t] = Absent]
    BY <2>1, NodesDefined
  <2>3. \A o \in Threads : Owns(o)' => Owns(o) /\ o # t /\ threadBlocks'[o] = threadBlocks[o]
    BY <2>2 DEF Owns, MemTypeOK, LivePcs
  <2>4. OwnNode'
    BY <2>1, <2>3 DEF OwnNode
  <2>5. HoldsNode'
    BY <2>1, <2>2 DEF HoldsNode, MemAt, MemTypeOK
  <2> QED
    BY <1>1, <2>4, <2>5
<1> QED
  BY <1>2, <1>3

LEMMA MemStepKeepsOwnInv ==
  ASSUME OwnInv, MemStep
  PROVE  OwnInv'
<1> USE DEF OwnInv, MemAt
<1>1. ASSUME NEW m \in Miners, HashStarts(m) \/ LoopEnds(m) PROVE OwnInv'
  BY <1>1, MovesKeepOwnInv
     DEF HashStarts, LoopEnds, MemTypeOK, AllocPcs, LivePcs, Threads
<1>2. CASE TestEnds
  BY <1>2, MovesKeepOwnInv DEF TestEnds, myFree, MemTypeOK, AllocPcs, LivePcs, Threads
<1>3. ASSUME NEW t \in Threads, AllocFind(t) PROVE OwnInv'
  <2>1. PICK node \in Nodes(t, threadBlocks) :
          AllocGoto(t, IF node = Absent THEN "lock" ELSE "get")
    BY <1>3 DEF AllocFind
  <2>2. ~h_raced' => node = threadBlocks[t]
    BY <1>3, <2>1, NodesDefined DEF AllocFind, Access
  <2> QED
    BY <1>3, <2>1, <2>2, MovesKeepOwnInv
       DEF AllocFind, Access, Racing, MemTypeOK, AllocPcs, LivePcs
<1>4. ASSUME NEW t \in Threads, AllocLock(t) PROVE OwnInv'
  BY <1>4, MovesKeepOwnInv
     DEF AllocLock, Access, Racing, MemTypeOK, AllocPcs, LivePcs
<1>5. ASSUME NEW t \in Threads, RaceCrashes(t) PROVE OwnInv'
  BY <1>5, MovesKeepOwnInv DEF RaceCrashes, MemTypeOK, AllocPcs, LivePcs
<1> QED
  BY <1>1, <1>2, <1>3, <1>4, <1>5, InsertKeepsOwnInv, GetKeepsOwnInv,
     FreeKeepsOwnInv, EraseKeepsOwnInv DEF MemStep

LEMMA OwnInvHolds == MemSpec => []OwnInv
<1>1. OwnInv /\ [MemNext]_allVars => OwnInv'
  <2> SUFFICES ASSUME OwnInv, [MemNext]_allVars PROVE OwnInv'
    OBVIOUS
  <2>1. CASE MemStep
    BY <2>1, MemStepKeepsOwnInv
  <2>2. ASSUME NEW m \in Miners, ScanEnds(m) PROVE OwnInv'
    BY <2>2, MovesKeepOwnInv
       DEF ScanEnds, myFree, MemAt, OwnInv, MemTypeOK, AllocPcs, LivePcs, Threads
  <2>3. CASE UNCHANGED memVars
    BY <2>3 DEF memVars, OwnInv, MemTypeOK, OwnNode, HoldsNode, Owns, MemAt
  <2> QED
    BY <2>1, <2>2, <2>3 DEF MemNext, MinerGoesOn, MainGoesOn, allVars
<1> QED
  BY <1>1, MemInitOwns, PTL DEF MemSpec

(* Unless accesses to the map raced, a thread that hashes has a block that *)
(* is allocated and that no other thread hashes in or frees, for any       *)
(* number of threads (miner.cpp 177-196, 198-214).                         *)
THEOREM BlocksAreOwn == MemSpec => []OwnBlock
<1>1. OwnInv => OwnBlock
  BY DEF OwnInv, OwnNode, HoldsNode, Owns, MemAt, LivePcs, OwnBlock, tId
<1> QED
  BY <1>1, OwnInvHolds, PTL

-----------------------------------------------------------------------------
(* The program with its memory is the program: the memory only makes its   *)
(* threads wait (miner.cpp 153-214, 668-816, main.cpp 153-164).            *)
THEOREM RunsAsAquaMiner == MemSpec => Spec
<1>1. MemInit => Init
  BY DEF MemInit
<1>2. [MemNext]_allVars => [Next]_vars
  <2> SUFFICES ASSUME [MemNext]_allVars PROVE [Next]_vars
    OBVIOUS
  <2>1. ASSUME NEW m \in Miners, Alive, ScanEnds(m) \/ MinerGoesOn(m) PROVE Next
    BY <2>1 DEF ScanEnds, MinerGoesOn, MinerStep, MinerScan, MinerThread, Next
  <2>2. ASSUME Alive, MainGoesOn PROVE Next
    BY <2>2 DEF MainGoesOn, Main, Next
  <2> QED
    BY <2>1, <2>2 DEF MemNext, Stopped, allVars, Next
<1> QED
  BY <1>1, <1>2, PTL DEF MemSpec, Spec

(* So a solo miner shuts down in order with its memory too (miner.cpp      *)
(* 358-368, 837, main.cpp 233-238).                                        *)
COROLLARY StopsInOrder ==
  ASSUME SoloMine \/ ~CtrlCHandled
  PROVE  MemSpec => []SubmitHandleLive /\ []HandlesClosedAtExit
BY RunsAsAquaMiner, SubmitHandleLives, HandlesCloseAtExit, PTL

-----------------------------------------------------------------------------
(* The mutex of the map is held by the thread that inserts, and by one     *)
(* that ends the program in its insertion.                                 *)
InsertsLocked ==
  /\ \A t \in Threads : MemAt(t, "insert") => s_alloc_mutex = t
  /\ s_alloc_mutex # NoThread => allocPc[s_alloc_mutex] \in {"insert", "aborted"}

LEMMA InsertsLockedHolds == MemSpec => []InsertsLocked
<1>1. MemInit => InsertsLocked
  BY DEF MemInit, InsertsLocked, MemAt
<1>2. OwnInv /\ InsertsLocked /\ [MemNext]_allVars => InsertsLocked'
  <2> SUFFICES ASSUME OwnInv, InsertsLocked, [MemNext]_allVars
               PROVE  InsertsLocked'
    OBVIOUS
  <2> USE DEF InsertsLocked, MemAt, AllocGoto
  <2>1. /\ allocPc \in [Threads -> AllocPcs]
        /\ s_alloc_mutex \in Threads \cup {NoThread} /\ NoThread \notin Threads
    BY MemoryAssumption DEF OwnInv, MemTypeOK, Threads
  <2>2. ASSUME NEW t \in Threads, AllocLock(t) PROVE InsertsLocked'
    BY <2>1, <2>2 DEF AllocLock
  <2>3. ASSUME NEW t \in Threads, AllocInsert(t) PROVE InsertsLocked'
    <3>1. PICK pc \in {"aborted", "ready"} : AllocGoto(t, pc)
      BY <2>3 DEF AllocInsert, LookUp, Returns
    <3>2. s_alloc_mutex' = NoThread /\ s_alloc_mutex = t
      BY <2>3 DEF AllocInsert
    <3> QED
      BY <2>1, <3>1, <3>2
  <2>4. ASSUME NEW t \in Threads, RaceCrashes(t) PROVE InsertsLocked'
    BY <2>1, <2>4 DEF RaceCrashes
  <2>5. ASSUME NEW t \in Threads, NEW pc \in AllocPcs, AllocGoto(t, pc), pc # "insert",
               allocPc[t] \notin {"insert", "aborted"}, UNCHANGED s_alloc_mutex
        PROVE  InsertsLocked'
    BY <2>1, <2>5
  <2>6. ASSUME NEW m \in Miners, HashStarts(m) \/ LoopEnds(m) \/ ScanEnds(m)
        PROVE  InsertsLocked'
    BY <2>5, <2>6 DEF HashStarts, LoopEnds, ScanEnds, Threads, AllocPcs, LivePcs
  <2>7. ASSUME TestEnds PROVE InsertsLocked'
    BY <2>5, <2>7 DEF TestEnds, Threads, AllocPcs, LivePcs
  <2>8. ASSUME NEW t \in Threads, AllocFind(t) \/ AllocGet(t) \/ FreeFind(t) \/ FreeErase(t)
        PROVE  InsertsLocked'
    <3>1. PICK pc \in AllocPcs : AllocGoto(t, pc) /\ pc # "insert"
      BY <2>8 DEF AllocFind, AllocGet, LookUp, Returns, FreeFind, FreeErase, AllocPcs,
                  LivePcs
    <3>2. allocPc[t] \notin {"insert", "aborted"} /\ UNCHANGED s_alloc_mutex
      BY <2>8 DEF AllocFind, AllocGet, FreeFind, FreeErase
    <3> QED
      BY <2>5, <3>1, <3>2
  <2>9. CASE UNCHANGED memVars
    BY <2>9 DEF memVars
  <2> QED
    BY <2>2, <2>3, <2>4, <2>6, <2>7, <2>8, <2>9
       DEF MemNext, MemStep, MinerGoesOn, MainGoesOn, allVars
<1> QED
  BY <1>1, <1>2, OwnInvHolds, PTL DEF MemSpec

(* Nobody waits in vain with the memory either: a thread that waits for    *)
(* the mutex of the map waits for one that inserts, which waits for        *)
(* nobody, and the other waits are those of the program (miner.cpp         *)
(* 177-192, 355, 704, 833).                                                *)
InsertionsServed ==
  \A t \in Threads : ~Stopped /\ MemAt(t, "lock") =>
    s_alloc_mutex = NoThread \/ MemAt(s_alloc_mutex, "insert")

THEOREM NobodyWaitsForMemory == MemSpec => [](WaitsAreServed /\ InsertionsServed)
<1>1. MemTypeOK /\ InsertsLocked => InsertionsServed
  BY DEF MemTypeOK, InsertsLocked, InsertionsServed, Stopped, MemAt
<1>2. OwnInv => MemTypeOK
  BY DEF OwnInv
<1> QED
  BY <1>1, <1>2, OwnInvHolds, InsertsLockedHolds, RunsAsAquaMiner, NobodyWaitsInVain, PTL

-----------------------------------------------------------------------------
(* Without a race every block is in the map, under the thread that frees   *)
(* it, ...                                                                 *)
NoneLost ==
  ~h_raced =>
    /\ \A b \in heap : \E t \in Threads : Owns(t) /\ threadBlocks[t] = b
    /\ \A t \in Threads : threadBlocks[t] # Null
    /\ \A t \in Threads : allocPc[t] \in {"lock", "insert"} => threadBlocks[t] = Absent

(* ... which it does before it ends: main after its test, a miner after    *)
(* its loop; a miner that never ran has none.                              *)
FreedAtEnd ==
  /\ \A m \in Miners : minerPc[m] = "off" => MemAt(m, "idle") /\ threadBlocks[m] = Absent
  /\ \A m \in Miners : minerPc[m] = "exited" => MemAt(m, "freed")
  /\ mainPc # "startUpdate" => MemAt(MainThread, "freed")

LEMMA MemInitFreed == MemInit => NoneLost /\ FreedAtEnd
BY MemoryAssumption, NoBlocks
   DEF MemInit, Init, NoneLost, FreedAtEnd, MemAt, Threads

(* A step in which the map and the heap stay as they are. *)
LEMMA MovesKeepNoneLost ==
  ASSUME OwnInv, NoneLost, NEW t \in Threads, NEW pc, AllocGoto(t, pc),
         ~h_raced' => ~h_raced,
         ~h_raced' /\ pc = "lock" => threadBlocks[t] = Absent,
         pc = "insert" => allocPc[t] = "lock",
         ~h_raced' /\ threadBlocks[t] # Absent => pc \in LivePcs,
         UNCHANGED <<threadBlocks, heap>>
  PROVE  NoneLost'
<1> SUFFICES ASSUME ~h_raced' PROVE NoneLost'
  BY DEF NoneLost
<1>1. \A b \in heap : \E o \in Threads : Owns(o)' /\ threadBlocks[o] = b
  BY NoBlocks DEF NoneLost, Owns, AllocGoto, OwnInv, MemTypeOK
<1>2. \A o \in Threads : allocPc'[o] \in {"lock", "insert"} => threadBlocks[o] = Absent
  BY DEF NoneLost, AllocGoto, OwnInv, MemTypeOK
<1> QED
  BY <1>1, <1>2 DEF NoneLost

LEMMA MemStepKeepsNoneLost ==
  ASSUME OwnInv, NoneLost, MemStep
  PROVE  NoneLost'
<1> USE DEF MemAt
<1>1. ASSUME NEW m \in Miners, HashStarts(m) \/ LoopEnds(m) PROVE NoneLost'
  BY <1>1, MovesKeepNoneLost DEF HashStarts, LoopEnds, LivePcs, Threads
<1>2. CASE TestEnds
  BY <1>2, MovesKeepNoneLost DEF TestEnds, myFree, LivePcs, Threads
<1>3. ASSUME NEW t \in Threads, AllocFind(t) PROVE NoneLost'
  <2>1. PICK node \in Nodes(t, threadBlocks) :
          AllocGoto(t, IF node = Absent THEN "lock" ELSE "get")
    BY <1>3 DEF AllocFind
  <2>2. ~h_raced' => node = threadBlocks[t]
    BY <1>3, <2>1, NodesDefined DEF AllocFind, Access
  <2> QED
    BY <1>3, <2>1, <2>2, MovesKeepNoneLost DEF AllocFind, Access, Racing, LivePcs
<1>4. ASSUME NEW t \in Threads, AllocLock(t) PROVE NoneLost'
  BY <1>4, MovesKeepNoneLost DEF AllocLock, Access, Racing, LivePcs
<1>5. ASSUME NEW t \in Threads, RaceCrashes(t) PROVE NoneLost'
  BY <1>5 DEF RaceCrashes, NoneLost
<1>6. ASSUME NEW t \in Threads, AllocInsert(t) PROVE NoneLost'
  <2> SUFFICES ASSUME ~h_raced' PROVE NoneLost'
    BY DEF NoneLost
  <2> USE DEF AllocInsert, Returns, AllocGoto, tId, OwnInv, MemTypeOK
  <2>1. ~h_raced /\ ~Racing(t)
    BY <1>6 DEF Access, Racing
  <2>2. PICK b \in Blocks \ heap :
          /\ heap' = heap \cup {b}
          /\ threadBlocks' = [threadBlocks EXCEPT ![t] = b]
          /\ allocPc' = [allocPc EXCEPT ![t] = "ready"]
    <3>1. PICK b \in Blocks \ heap :
            /\ heap' = heap \cup {b}
            /\ \E map \in WhatIsLeft(t, [threadBlocks EXCEPT ![t] = b]) : LookUp(t, map)
      BY <1>6
    <3>2. LookUp(t, [threadBlocks EXCEPT ![t] = b])
      BY <2>1, <3>1, NodesDefined
    <3> QED
      BY <2>1, <3>1, <3>2, NodesDefined, NoBlocks DEF LookUp
  <2>3. threadBlocks[t] = Absent
    BY <1>6, <2>1 DEF NoneLost
  <2>4. \A x \in heap' : \E o \in Threads : Owns(o)' /\ threadBlocks'[o] = x
    <3> SUFFICES ASSUME NEW x \in heap' PROVE \E o \in Threads : Owns(o)' /\ threadBlocks'[o] = x
      OBVIOUS
    <3>1. CASE x = b
      BY <2>2, <3>1 DEF Owns, LivePcs
    <3>2. CASE x # b
      <4>1. PICK o \in Threads : Owns(o) /\ threadBlocks[o] = x
        BY <2>1, <2>2, <3>2 DEF NoneLost
      <4>2. o # t
        BY <2>3, <4>1, NoBlocks DEF Owns
      <4> QED
        BY <2>2, <4>1, <4>2 DEF Owns
    <3> QED
      BY <3>1, <3>2
  <2> QED
    BY <2>1, <2>2, <2>4, NoBlocks DEF NoneLost
<1>7. ASSUME NEW t \in Threads, AllocGet(t) PROVE NoneLost'
  <2> SUFFICES ASSUME ~h_raced' PROVE NoneLost'
    BY DEF NoneLost
  <2> USE DEF AllocGet, Returns, AllocGoto, tId, OwnInv, MemTypeOK
  <2>1. ~h_raced /\ ~Racing(t) /\ threadBlocks[t] # Null /\ threadBlocks[t] # Absent
    BY <1>7 DEF Access, Racing, NoneLost, HoldsNode
  <2>2. threadBlocks' = threadBlocks /\ allocPc' = [allocPc EXCEPT ![t] = "ready"]
    BY <1>7, <2>1, NodesDefined DEF LookUp
  <2> QED
    BY <1>7, <2>1, <2>2, MovesKeepNoneLost DEF LivePcs
<1>8. ASSUME NEW t \in Threads, FreeFind(t) PROVE NoneLost'
  <2> SUFFICES ASSUME ~h_raced' PROVE NoneLost'
    BY DEF NoneLost
  <2> USE DEF FreeFind, AllocGoto, tId, OwnInv, MemTypeOK
  <2>1. ~h_raced /\ ~Racing(t) /\ threadBlocks' = threadBlocks
    BY <1>8 DEF Access, Racing
  <2>2. Nodes(t, threadBlocks) = {threadBlocks[t]}
    BY <2>1, NodesDefined
  <2>3. \A x \in heap' : \E o \in Threads : Owns(o)' /\ threadBlocks[o] = x
    <3> SUFFICES ASSUME NEW x \in heap' PROVE \E o \in Threads : Owns(o)' /\ threadBlocks[o] = x
      OBVIOUS
    <3>1. x \in heap /\ x # threadBlocks[t]
      BY <1>8, <2>2, NoBlocks
    <3>2. PICK o \in Threads : Owns(o) /\ threadBlocks[o] = x
      BY <2>1, <3>1 DEF NoneLost
    <3> QED
      BY <1>8, <3>1, <3>2 DEF Owns
  <2> QED
    BY <1>8, <2>1, <2>3 DEF NoneLost
<1>9. ASSUME NEW t \in Threads, FreeErase(t) PROVE NoneLost'
  <2> SUFFICES ASSUME ~h_raced' PROVE NoneLost'
    BY DEF NoneLost
  <2> USE DEF FreeErase, AllocGoto, tId, OwnInv, MemTypeOK
  <2>1. ~h_raced /\ threadBlocks' = [threadBlocks EXCEPT ![t] = Absent]
    <3>1. ~h_raced /\ ~Racing(t)
      BY <1>9 DEF Access, Racing
    <3>2. threadBlocks' \in WhatIsLeft(t, [threadBlocks EXCEPT ![t] = Absent])
      BY <1>9, <3>1
    <3> HIDE DEF FreeErase, OwnInv, MemTypeOK
    <3>3. WhatIsLeft(t, [threadBlocks EXCEPT ![t] = Absent])
            = {[threadBlocks EXCEPT ![t] = Absent]}
      BY <3>1, NodesDefined
    <3> QED
      BY <3>1, <3>2, <3>3
  <2>2. \A o \in Threads : Owns(o) => Owns(o)' /\ threadBlocks'[o] = threadBlocks[o]
    BY <1>9, <2>1 DEF Owns, LivePcs
  <2> QED
    BY <1>9, <2>1, <2>2, NoBlocks DEF NoneLost
<1> QED
  BY <1>1, <1>2, <1>3, <1>4, <1>5, <1>6, <1>7, <1>8, <1>9 DEF MemStep

(* A step of the memory is one of a thread that is neither off, nor done.  *)
LEMMA MemStepKeepsFreedAtEnd ==
  ASSUME OwnInv, FreedAtEnd, MemStep, UNCHANGED vars
  PROVE  FreedAtEnd'
<1> USE DEF OwnInv, MemTypeOK, MemAt, AllocGoto
<1> DEFINE Busy(t) == /\ t \in Miners => minerPc[t] \notin {"off", "exited"}
                      /\ t = MainThread => mainPc = "startUpdate"
<1>1. \E t \in Threads :
        /\ Busy(t)
        /\ \A o \in Threads \ {t} : /\ allocPc'[o] = allocPc[o]
                                    /\ threadBlocks'[o] \in {threadBlocks[o], Absent}
  <2>1. ASSUME NEW m \in Miners, HashStarts(m) \/ LoopEnds(m)
        PROVE  /\ Busy(m)
               /\ \A o \in Threads \ {m} : /\ allocPc'[o] = allocPc[o]
                                           /\ threadBlocks'[o] \in {threadBlocks[o], Absent}
    BY <2>1, MemoryAssumption DEF HashStarts, LoopEnds, Threads
  <2>2. ASSUME TestEnds
        PROVE  /\ Busy(MainThread)
               /\ \A o \in Threads \ {MainThread} :
                    /\ allocPc'[o] = allocPc[o]
                    /\ threadBlocks'[o] \in {threadBlocks[o], Absent}
    BY <2>2, MemoryAssumption DEF TestEnds, Threads, FreedAtEnd
  <2>3. ASSUME NEW t \in Threads,
               \/ AllocFind(t) \/ AllocLock(t) \/ AllocInsert(t)
               \/ AllocGet(t)  \/ FreeFind(t)  \/ FreeErase(t)
               \/ RaceCrashes(t)
        PROVE  /\ Busy(t)
               /\ \A o \in Threads \ {t} : /\ allocPc'[o] = allocPc[o]
                                           /\ threadBlocks'[o] \in {threadBlocks[o], Absent}
    <3>1. Busy(t)
      BY <2>3 DEF AllocFind, AllocLock, AllocInsert, AllocGet, FreeFind, FreeErase,
                  RaceCrashes, FreedAtEnd
    <3>2. \A o \in Threads \ {t} : allocPc'[o] = allocPc[o]
      BY <2>3 DEF AllocFind, AllocLock, AllocInsert, LookUp, Returns, AllocGet, FreeFind,
                  FreeErase, RaceCrashes
    <3>3. ASSUME NEW map, NEW left \in WhatIsLeft(t, map), NEW o \in Threads
          PROVE  left[o] \in {map[o], Absent}
      BY <3>3 DEF WhatIsLeft
    <3>4. ASSUME NEW map, LookUp(t, map), NEW o \in Threads \ {t},
                 map = threadBlocks \/ map \in [Threads -> Blocks \cup {Absent, Null}]
          PROVE  threadBlocks'[o] = map[o]
      BY <3>4 DEF LookUp, tId
    <3>5. ASSUME AllocInsert(t), NEW o \in Threads \ {t}
          PROVE  threadBlocks'[o] \in {threadBlocks[o], Absent}
      <4>1. PICK b \in Blocks \ heap :
              \E map \in WhatIsLeft(t, [threadBlocks EXCEPT ![t] = b]) : LookUp(t, map)
        BY <3>5 DEF AllocInsert, tId
      <4>2. [threadBlocks EXCEPT ![t] = b] \in [Threads -> Blocks \cup {Absent, Null}]
        OBVIOUS
      <4>3. PICK map \in WhatIsLeft(t, [threadBlocks EXCEPT ![t] = b]) : LookUp(t, map)
        BY <4>1
      <4>4. map \in [Threads -> Blocks \cup {Absent, Null}]
        BY <4>2, NodesTyped
      <4>5. threadBlocks'[o] = map[o]
        BY <3>4, <4>3, <4>4
      <4>6. map[o] \in {[threadBlocks EXCEPT ![t] = b][o], Absent}
        BY <3>3
      <4> QED
        BY <4>5, <4>6
    <3>6. ASSUME FreeErase(t), NEW o \in Threads \ {t}
          PROVE  threadBlocks'[o] \in {threadBlocks[o], Absent}
      BY <3>3, <3>6 DEF FreeErase, tId
    <3>7. ASSUME AllocFind(t) \/ AllocLock(t) \/ FreeFind(t) \/ RaceCrashes(t)
          PROVE  threadBlocks' = threadBlocks
      BY <3>7 DEF AllocFind, AllocLock, FreeFind, RaceCrashes
    <3>8. ASSUME AllocGet(t), NEW o \in Threads \ {t}
          PROVE  threadBlocks'[o] = threadBlocks[o]
      BY <3>4, <3>8 DEF AllocGet
    <3> QED
      BY <2>3, <3>1, <3>2, <3>5, <3>6, <3>7, <3>8
  <2>4. MainThread \in Threads /\ Miners \subseteq Threads
    BY DEF Threads
  <2> QED
    BY <2>1, <2>2, <2>3, <2>4 DEF MemStep
<1>2. Miners \subseteq Threads /\ MainThread \in Threads
  BY DEF Threads
<1> QED
  BY <1>1, <1>2 DEF FreedAtEnd, vars, mainVars, minerVars

LEMMA MinerGoesOnKeepsFreedAtEnd ==
  ASSUME AmInv, FreedAtEnd, NEW m \in Miners, MinerGoesOn(m)
  PROVE  FreedAtEnd'
<1>1. /\ mainPc' = mainPc
      /\ minerPc'[m] # "off"
      /\ minerPc'[m] = "exited" => MemAt(m, "freed")
      /\ \A o \in Miners \ {m} : minerPc'[o] = minerPc[o]
  BY DEF MinerGoesOn, MinerStep, MinerInit, MinerCheck, MinerFetch, MinerNewWork,
         MinerRegen, MinerClear, MinerResume, MinerContinue, MinerSubmitted, MinerFails,
         Goto, AmInv, MinerTypeOK, mainVars
<1> QED
  BY <1>1 DEF FreedAtEnd, MinerGoesOn, memVars, MemAt

LEMMA MainGoesOnKeepsFreedAtEnd ==
  ASSUME AmInv, FreedAtEnd, MainGoesOn
  PROVE  FreedAtEnd'
<1>1. \A m \in Miners : minerPc'[m] = minerPc[m] \/ minerPc'[m] = "init"
  BY DEF MainGoesOn, MainStep, MainGoto, MainStartUpdate, MainStartMiners, MainLeaveLoop,
         MainFreeDevices, MainStopMiners, MainJoinMiners, MainDestroySubmit,
         MainStopUpdate, MainJoinUpdate, MainCleanup, minerVars
<1> QED
  BY <1>1 DEF FreedAtEnd, MainGoesOn, memVars, MemAt

LEMMA FreedInvHolds == MemSpec => [](NoneLost /\ FreedAtEnd)
<1>1. OwnInv /\ AmInv /\ NoneLost /\ FreedAtEnd /\ [MemNext]_allVars
        => NoneLost' /\ FreedAtEnd'
  <2> SUFFICES ASSUME OwnInv, AmInv, NoneLost, FreedAtEnd, [MemNext]_allVars
               PROVE  NoneLost' /\ FreedAtEnd'
    OBVIOUS
  <2>1. CASE MemStep /\ UNCHANGED vars
    BY <2>1, MemStepKeepsNoneLost, MemStepKeepsFreedAtEnd
  <2>2. ASSUME NEW m \in Miners, ScanEnds(m) PROVE NoneLost' /\ FreedAtEnd'
    <3>1. NoneLost'
      BY <2>2, MovesKeepNoneLost DEF ScanEnds, myFree, LivePcs, Threads
    <3>2. /\ minerPc[m] = "scan" /\ mainPc' = mainPc
          /\ minerPc'[m] \notin {"off", "exited"}
          /\ \A o \in Miners \ {m} : minerPc'[o] = minerPc[o]
      BY <2>2 DEF ScanEnds, MinerScan, MinerScanNothing, MinerScanFound, Goto, mainVars,
                  AmInv, MinerTypeOK
    <3>3. \A o \in Threads \ {m} : allocPc'[o] = allocPc[o]
      BY <2>2 DEF ScanEnds, AllocGoto, OwnInv, MemTypeOK
    <3>4. Miners \subseteq Threads /\ MainThread \in Threads \ {m}
      BY MemoryAssumption DEF Threads
    <3>5. threadBlocks' = threadBlocks
      BY <2>2 DEF ScanEnds
    <3>6. FreedAtEnd'
      BY <3>2, <3>3, <3>4, <3>5 DEF FreedAtEnd, MemAt
    <3> QED
      BY <3>1, <3>6
  <2>3. CASE UNCHANGED memVars
    <3>1. NoneLost'
      BY <2>3 DEF memVars, NoneLost, Owns
    <3>2. CASE \E m \in Miners : MinerGoesOn(m)
      BY <3>1, <3>2, MinerGoesOnKeepsFreedAtEnd
    <3>3. CASE MainGoesOn
      BY <3>1, <3>3, MainGoesOnKeepsFreedAtEnd
    <3>4. CASE UNCHANGED <<mainPc, minerPc>>
      BY <2>3, <3>1, <3>4 DEF memVars, FreedAtEnd, MemAt
    <3>5. CASE \/ UpdateThread \/ Interrupt \/ Pool
               \/ \E s \in Shares : SubmitThread(s)
      <4>1. UNCHANGED <<mainPc, minerPc>>
        BY <3>5 DEF UpdateThread, SubmitThread, Interrupt, CtrlC, Pool, mainVars, minerVars
      <4> QED
        BY <3>4, <4>1
    <3>6. CASE UNCHANGED allVars
      BY <3>4, <3>6 DEF allVars, vars, mainVars, minerVars
    <3>7. CASE (\E m \in Miners : ScanEnds(m)) \/ (MemStep /\ UNCHANGED vars)
      BY <2>1, <2>2, <3>7
    <3> QED
      BY <3>2, <3>3, <3>5, <3>6, <3>7 DEF MemNext
  <2> QED
    BY <2>1, <2>2, <2>3 DEF MemNext, MinerGoesOn, MainGoesOn, allVars
<1>2. MemSpec => []AmInv
  BY RunsAsAquaMiner, AmInvHolds
<1> QED
  BY <1>1, <1>2, MemInitFreed, OwnInvHolds, PTL DEF MemSpec

(* Unless accesses to the map raced, every block has been freed when the   *)
(* miner threads are joined, for any number of threads stopped anywhere    *)
(* (main.cpp 163, miner.cpp 816).                                          *)
THEOREM AllBlocksFreed == MemSpec => []BlocksFreed
<1>1. OwnInv /\ NoneLost /\ FreedAtEnd /\ StopInv => BlocksFreed
  <2> SUFFICES ASSUME OwnInv, NoneLost, FreedAtEnd, StopInv, ~h_raced,
                      mainPc \in PastJoin, NEW b \in heap
               PROVE  FALSE
    BY DEF BlocksFreed, PastJoin
  <2>1. PICK t \in Threads : Owns(t) /\ threadBlocks[t] = b
    BY DEF NoneLost
  <2>2. b \in Blocks
    BY DEF OwnInv, MemTypeOK
  <2>3. CASE t = MainThread
    BY <2>1, <2>3 DEF FreedAtEnd, MemAt, Owns, LivePcs, PastJoin
  <2>4. CASE t \in Miners
    <3>1. minerPc[t] = "off" \/ minerPc[t] = "exited"
      BY <2>4 DEF StopInv, MinersJoined
    <3> QED
      BY <2>1, <2>2, <2>4, <3>1, NoBlocks DEF FreedAtEnd, MemAt, Owns, LivePcs
  <2> QED
    BY <2>3, <2>4 DEF Threads
<1>2. MemSpec => []StopInv
  BY RunsAsAquaMiner, StopInvHolds
<1> QED
  BY <1>1, <1>2, OwnInvHolds, FreedInvHolds, PTL

-----------------------------------------------------------------------------
(* With one miner no accesses race: main has freed its block before it     *)
(* starts the miner's thread, and a thread changes the map in a step of    *)
(* its own only between its lookups.                                       *)
ChangesAlone ==
  /\ ~h_raced
  /\ \A t \in changing : allocPc[t] \in {"insert", "erase"}
  /\ mainPc = "startUpdate" => \A m \in Miners : minerPc[m] = "off"

LEMMA OneMinerAlone ==
  ASSUME \A a, b \in Miners : a = b, MemTypeOK, FreedAtEnd, ChangesAlone,
         NEW t \in Threads, allocPc[t] \notin {"idle", "freed"}
  PROVE  changing \ {t} = {}
<1> SUFFICES ASSUME NEW o \in changing, o # t PROVE FALSE
  OBVIOUS
<1>1. o \in Threads /\ allocPc[o] \in {"insert", "erase"}
  BY DEF MemTypeOK, ChangesAlone
<1>2. PICK m \in Miners : {o, t} = {m, MainThread}
  BY <1>1 DEF Threads
<1>3. allocPc[m] # "idle" /\ allocPc[MainThread] # "freed"
  BY <1>1, <1>2
<1> QED
  BY <1>3 DEF FreedAtEnd, ChangesAlone, MemAt

(* A program with one GPU never has two accesses to the map of blocks in a *)
(* race, although only insertions take its mutex (miner.cpp 176-214,       *)
(* main.cpp 153-164).                                                      *)
THEOREM OneMinerNeverRaces ==
  ASSUME \A a, b \in Miners : a = b
  PROVE  MemSpec => []~h_raced
<1>1. MemInit => ChangesAlone
  BY DEF MemInit, Init, ChangesAlone
<1>2. OwnInv /\ AmInv /\ FreedAtEnd /\ ChangesAlone /\ [MemNext]_allVars => ChangesAlone'
  <2> SUFFICES ASSUME OwnInv, AmInv, FreedAtEnd, ChangesAlone, [MemNext]_allVars
               PROVE  ChangesAlone'
    OBVIOUS
  <2> USE DEF MemAt, AllocGoto
  <2>1. /\ allocPc \in [Threads -> AllocPcs]
        /\ changing \subseteq Threads
    BY DEF OwnInv, MemTypeOK
  <2>2. ASSUME NEW t \in Threads, UNCHANGED vars,
               \/ AllocFind(t) \/ AllocLock(t) \/ AllocInsert(t)
               \/ AllocGet(t)  \/ FreeFind(t)  \/ FreeErase(t)
               \/ RaceCrashes(t)
        PROVE  ChangesAlone'
    <3>1. allocPc[t] \notin {"idle", "freed"}
      BY <2>2 DEF AllocFind, AllocLock, AllocInsert, AllocGet, FreeFind, FreeErase, RaceCrashes
    <3>2. ~Racing(t)
      BY <3>1, OneMinerAlone DEF OwnInv, ChangesAlone, Racing
    <3>3. ~h_raced'
      BY <2>2, <3>2 DEF AllocFind, AllocLock, AllocInsert, AllocGet, FreeFind, FreeErase,
                        RaceCrashes, Access
    <3>4. /\ \A o \in Threads \ {t} : allocPc'[o] = allocPc[o]
          /\ changing' \subseteq changing \cup {t}
          /\ t \in changing' => allocPc'[t] \in {"insert", "erase"}
      <4>1. CASE AllocFind(t) \/ AllocGet(t)
        BY <2>1, <4>1 DEF AllocFind, AllocGet, LookUp, Returns, ChangesAlone
      <4>2. CASE AllocLock(t) \/ FreeFind(t)
        BY <2>1, <4>2 DEF AllocLock, FreeFind, ChangesAlone
      <4>3. CASE AllocInsert(t) \/ FreeErase(t)
        BY <2>1, <4>3 DEF AllocInsert, LookUp, Returns, FreeErase
      <4> QED
        BY <2>2, <3>2, <4>1, <4>2, <4>3 DEF RaceCrashes
    <3>5. (mainPc = "startUpdate" => \A m \in Miners : minerPc[m] = "off")'
      BY <2>2 DEF ChangesAlone, vars, mainVars, minerVars
    <3> QED
      BY <2>1, <3>3, <3>4, <3>5 DEF ChangesAlone
  <2>3. ASSUME NEW t \in Threads, NEW pc, AllocGoto(t, pc),
               allocPc[t] \notin {"insert", "erase"}, UNCHANGED <<changing, h_raced>>
        PROVE  ~h_raced' /\ \A o \in changing' : allocPc'[o] \in {"insert", "erase"}
    BY <2>1, <2>3 DEF ChangesAlone
  <2>4. ASSUME UNCHANGED vars,
               TestEnds \/ \E m \in Miners : HashStarts(m) \/ LoopEnds(m)
        PROVE  ChangesAlone'
    BY <2>3, <2>4 DEF TestEnds, HashStarts, LoopEnds, Threads, ChangesAlone, vars, mainVars,
                      minerVars
  <2>5. ASSUME NEW m \in Miners, ScanEnds(m) PROVE ChangesAlone'
    <3>1. mainPc' = mainPc /\ minerPc[m] = "scan"
      BY <2>5 DEF ScanEnds, MinerScan, MinerScanNothing, MinerScanFound, mainVars
    <3>2. mainPc # "startUpdate"
      BY <3>1 DEF ChangesAlone
    <3> QED
      BY <2>3, <2>5, <3>1, <3>2 DEF ScanEnds, Threads, ChangesAlone
  <2>6. CASE UNCHANGED memVars
    <3>1. ~h_raced' /\ \A o \in changing' : allocPc'[o] \in {"insert", "erase"}
      BY <2>6 DEF memVars, ChangesAlone
    <3>2. ASSUME NEW m \in Miners, MinerGoesOn(m) PROVE mainPc' = mainPc /\ mainPc # "startUpdate"
      BY <3>2 DEF MinerGoesOn, MinerStep, MinerInit, MinerCheck, MinerFetch, MinerNewWork,
                  MinerRegen, MinerClear, MinerResume, MinerContinue, MinerSubmitted,
                  MinerFails, mainVars, ChangesAlone
    <3>3. ASSUME MainGoesOn PROVE mainPc' # "startUpdate"
      BY <3>3 DEF MainGoesOn, MainStep, MainGoto, MainStartUpdate, MainStartMiners,
                  MainLeaveLoop, MainFreeDevices, MainStopMiners, MainJoinMiners,
                  MainDestroySubmit, MainStopUpdate, MainJoinUpdate, MainCleanup
    <3>4. ASSUME \/ UpdateThread \/ Interrupt \/ Pool
                 \/ \E s \in Shares : SubmitThread(s)
          PROVE  UNCHANGED <<mainPc, minerPc>>
      BY <3>4 DEF UpdateThread, SubmitThread, Interrupt, CtrlC, Pool, mainVars, minerVars
    <3>5. CASE UNCHANGED allVars
      BY <3>1, <3>5 DEF ChangesAlone, allVars, vars, mainVars, minerVars
    <3> QED
      BY <2>2, <2>4, <2>5, <3>1, <3>2, <3>3, <3>4, <3>5 DEF MemNext, MemStep, ChangesAlone
  <2> QED
    BY <2>2, <2>4, <2>5, <2>6 DEF MemNext, MemStep, MinerGoesOn, MainGoesOn, allVars
<1>3. MemSpec => []AmInv
  BY RunsAsAquaMiner, AmInvHolds
<1>4. ChangesAlone => ~h_raced
  BY DEF ChangesAlone
<1> QED
  BY <1>1, <1>2, <1>3, <1>4, OwnInvHolds, FreedInvHolds, PTL DEF MemSpec

(* So where one device is mined on every hash has an allocated block, and  *)
(* none is left, without exception (miner.cpp 177-214, main.cpp 153-164).  *)
COROLLARY OneMinerOwnsAndFrees ==
  ASSUME \A a, b \in Miners : a = b
  PROVE  MemSpec => [](/\ \A t \in Threads : MemAt(t, "ready") => block[t] \in heap
                       /\ mainPc \in PastJoin => heap = {})
<1>1. OwnBlock /\ ~h_raced => \A t \in Threads : MemAt(t, "ready") => block[t] \in heap
  BY DEF OwnBlock
<1>2. BlocksFreed /\ ~h_raced => (mainPc \in PastJoin => heap = {})
  BY DEF BlocksFreed, PastJoin
<1> QED
  BY <1>1, <1>2, OneMinerNeverRaces, BlocksAreOwn, AllBlocksFreed, PTL
=============================================================================
