------------------------- MODULE FillMemory_proofs -------------------------
(***************************************************************************)
(* Every invariant of FillMemory, for any number of jobs and any width of  *)
(* the words.  The inductive invariant ties the block a job computes next  *)
(* to its loop variables, and says of every block whether it is written.   *)
(***************************************************************************)
EXTENDS FillMemory, TLAPS

(* The block a job computes next, from its loop variables. *)
Current(s, o) == IF s = 0 THEN 2 ELSE 2 * s + o

Looping(j) == jobPc[j] \in {"step", "barrier"}

LoopInv(j) ==
  /\ Looping(j) =>
       /\ kernel = "search1"
       /\ slice[j] \in 0..3
       /\ offset[j] \in 0..2
       /\ jobPc[j] = "step" <=> offset[j] < 2
       /\ mem_curr[j] = Current(slice[j], offset[j])
       /\ prev[j] = mem_curr[j] - 1
  /\ kernel = "search1" /\ jobPc[j] = "done" => prev[j] = 7

RefInv(j) ==
  kernel = "search1" /\ jobPc[j] # "todo" /\ ref[j] # NoBlock
    => ref[j] \in 0..(prev[j] - 2)

AddrInv(j) ==
  Looping(j) =>
    /\ sliceInput[j] = slice[j]
    /\ offset[j] = 0 => counter[j] = 0
    /\ offset[j] > 0 /\ slice[j] < 2 => addr[j] = <<slice[j], 1>>

(* How many blocks of a job are written, its first ones. *)
Written(j) ==
  IF kernel = "search" THEN IF jobPc[j] = "done" THEN 2 ELSE 0
  ELSE IF kernel = "search1"
    THEN IF jobPc[j] = "todo" THEN 2
         ELSE IF jobPc[j] = "done" THEN 8 ELSE mem_curr[j]
    ELSE 8

ContentInv(j) ==
  \A i \in 0..7 : memory[Block(j, i)] = IF i < Written(j) THEN 1 ELSE 0

JobInv(j) == LoopInv(j) /\ RefInv(j) /\ AddrInv(j) /\ ContentInv(j)

FillInv == FillTypeOK /\ \A j \in Jobs : JobInv(j)

-----------------------------------------------------------------------------
(* The sizes the kernel computes with. *)
LEMMA Sizes == segment_blocks = 2 /\ ARGON2_SYNC_POINTS = 4 /\ lane_blocks = 8
BY DEF segment_blocks, ARGON2_SYNC_POINTS, lane_blocks

(* The upper half of a product is below each factor. *)
LEMMA MulHiBound ==
  ASSUME NEW a \in Nat, a > 0, NEW b \in Words
  PROVE  MulHi(a, b) \in 0..(a - 1)
<1>1. WordMod \in Nat /\ WordMod > 0
  BY FillMemoryAssumption, Sizes
<1>2. b \in Nat /\ b < WordMod
  BY <1>1 DEF Words
<1>3. a * b \in Nat /\ a * b < a * WordMod
  BY <1>1, <1>2
<1>4. DEFINE q == (a * b) \div WordMod
<1>5. q \in Nat /\ q * WordMod <= a * b
  BY <1>1, <1>3
<1>6. q < a
  <2>1. SUFFICES ASSUME q >= a PROVE FALSE
    BY <1>5
  <2>2. q * WordMod >= a * WordMod
    BY <2>1, <1>1, <1>5
  <2> QED BY <2>2, <1>3, <1>5, <1>1
<1> QED BY <1>5, <1>6 DEF MulHi

(* compute_ref_pos: a reference is to a block below the predecessor. *)
LEMMA RefIndexBound ==
  ASSUME NEW s \in 1..3, NEW o \in 0..1, NEW word \in Words
  PROVE  RefIndex(s, o, word) \in 0..(2 * s + o - 2)
<1>1. WordMod \in Nat /\ WordMod > 8
  BY FillMemoryAssumption, Sizes
<1>2. RefArea(s, o) = 2 * s + o - 1
  BY <1>1, Sizes DEF RefArea, Minus
<1>3. MulHi(word, word) \in Words
  <2>1. CASE word = 0
    BY <2>1, <1>1 DEF MulHi, Words
  <2>2. CASE word > 0
    <3>1. word \in Nat
      BY DEF Words
    <3>2. MulHi(word, word) \in 0..(word - 1)
      BY <3>1, <2>2, MulHiBound
    <3> QED BY <3>1, <3>2, <1>1 DEF Words
  <2> QED BY <2>1, <2>2, <1>1 DEF Words
<1>4. MulHi(RefArea(s, o), MulHi(word, word)) \in 0..(RefArea(s, o) - 1)
  <2>1. RefArea(s, o) \in Nat /\ RefArea(s, o) > 0
    BY <1>2
  <2> QED BY <2>1, <1>3, MulHiBound
<1>5. Minus(RefArea(s, o), 1) = 2 * s + o - 2
  BY <1>2 DEF Minus
<1> QED BY <1>2, <1>4, <1>5 DEF RefIndex

(* Different jobs, and different places, have different blocks. *)
LEMMA BlocksDiffer ==
  ASSUME NEW j \in Jobs, NEW k \in Jobs, NEW i \in 0..7, NEW n \in 0..7
  PROVE  /\ Block(j, i) \in Buffer
         /\ Block(j, i) = Block(k, n) => j = k /\ i = n
BY Sizes, FillMemoryAssumption DEF Block, Buffer, Jobs

(* Every place in the buffer is a block of some job. *)
LEMMA BlockOfPlace ==
  ASSUME NEW b \in Buffer
  PROVE  \E j \in Jobs : \E i \in 0..7 : b = Block(j, i)
<1>1. b \in Nat /\ b < 8 * NumJobs /\ NumJobs \in Nat
  BY Sizes, FillMemoryAssumption DEF Buffer
<1>2. b \div 8 \in Jobs /\ b % 8 \in 0..7
  BY <1>1 DEF Jobs
<1>3. b = Block(b \div 8, b % 8)
  BY <1>1, Sizes DEF Block
<1> QED BY <1>2, <1>3

-----------------------------------------------------------------------------
LEMMA InitEstablishes == FillInit => FillInv
<1> SUFFICES ASSUME FillInit PROVE FillInv
  OBVIOUS
<1>1. FillTypeOK
  BY Sizes DEF FillInit, FillTypeOK, Buffer, NoBlock, NoAddr
<1>2. ASSUME NEW j \in Jobs PROVE JobInv(j)
  <2>1. ContentInv(j)
    <3> SUFFICES ASSUME NEW i \in 0..7 PROVE memory[Block(j, i)] = 0
      BY DEF ContentInv, Written, FillInit
    <3> QED BY BlocksDiffer DEF FillInit
  <2> QED BY <2>1 DEF FillInit, JobInv, LoopInv, RefInv, AddrInv, Looping
<1> QED BY <1>1, <1>2 DEF FillInv

LEMMA SearchJobKeeps ==
  ASSUME FillInv, NEW j \in Jobs, SearchJob(j)
  PROVE  FillInv'
<1> USE DEF FillInv
<1>1. Block(j, 0) \in Buffer /\ Block(j, 1) \in Buffer /\ Block(j, 0) # Block(j, 1)
  BY BlocksDiffer
<1>2. FillTypeOK'
  BY <1>1 DEF FillTypeOK, SearchJob, jobVars
<1>3. ASSUME NEW k \in Jobs PROVE JobInv(k)'
  <2>1. ContentInv(k)'
    <3> SUFFICES ASSUME NEW i \in 0..7
                 PROVE  memory'[Block(k, i)] = IF i < Written(k)' THEN 1 ELSE 0
      BY DEF ContentInv, Block
    <3>1. memory[Block(k, i)] = IF i < Written(k) THEN 1 ELSE 0
      BY DEF JobInv, ContentInv
    <3>2. Block(k, i) \in Buffer
      BY BlocksDiffer
    <3>3. CASE k = j /\ i \in {0, 1}
      BY <3>1, <3>2, <3>3, <1>1 DEF SearchJob, Written, FillTypeOK
    <3>4. CASE k = j /\ i \notin {0, 1}
      <4>1. Block(k, i) # Block(j, 0) /\ Block(k, i) # Block(j, 1)
        BY <3>4, BlocksDiffer
      <4> QED BY <3>1, <3>2, <3>4, <4>1 DEF SearchJob, Written, FillTypeOK
    <3>5. CASE k # j
      <4>1. Block(k, i) # Block(j, 0) /\ Block(k, i) # Block(j, 1)
        BY <3>5, BlocksDiffer
      <4> QED BY <3>1, <3>2, <3>5, <4>1 DEF SearchJob, Written, FillTypeOK
    <3> QED BY <3>3, <3>4, <3>5
  <2>2. LoopInv(k)' /\ RefInv(k)' /\ AddrInv(k)'
    BY DEF SearchJob, jobVars, JobInv, LoopInv, RefInv, AddrInv, Looping, FillTypeOK
  <2> QED BY <2>1, <2>2 DEF JobInv
<1> QED BY <1>2, <1>3

LEMMA FillStartKeeps ==
  ASSUME FillInv, NEW j \in Jobs, FillStart(j)
  PROVE  FillInv'
<1> USE DEF FillInv
<1>1. FillTypeOK'
  BY Sizes DEF FillTypeOK, FillStart, NoBlock
<1>2. ASSUME NEW k \in Jobs PROVE JobInv(k)'
  <2>1. LoopInv(k)' /\ RefInv(k)' /\ AddrInv(k)'
    <3>1. CASE k = j
      BY <3>1 DEF FillStart, LoopInv, RefInv, AddrInv, Looping, FillTypeOK, Current
    <3>2. CASE k # j
      BY <3>2 DEF FillStart, JobInv, LoopInv, RefInv, AddrInv, Looping, FillTypeOK
    <3> QED BY <3>1, <3>2
  <2>2. Written(k)' = Written(k)
    BY DEF FillStart, Written, FillTypeOK
  <2>3. ContentInv(k)'
    BY <2>2 DEF FillStart, JobInv, ContentInv, Block
  <2> QED BY <2>1, <2>3 DEF JobInv
<1> QED BY <1>1, <1>2

(* A step of the first slice writes nothing; any other step writes the     *)
(* block after those that are written.                                     *)
LEMMA FillStepKeeps ==
  ASSUME FillInv, NEW j \in Jobs, NEW word \in Words, FillStep(j, word)
  PROVE  FillInv'
<1> USE DEF FillInv
<1>1. /\ kernel = "search1" /\ jobPc[j] = "step"
      /\ slice[j] \in 0..3 /\ offset[j] \in 0..1
      /\ mem_curr[j] = Current(slice[j], offset[j])
      /\ prev[j] = mem_curr[j] - 1
  BY DEF FillStep, JobInv, LoopInv, Looping
<1>2. slice[j] # 0 => /\ RefIndex(slice[j], offset[j], word) \in 0..(mem_curr[j] - 2)
                      /\ mem_curr[j] \in 2..7
  BY <1>1, RefIndexBound DEF Current
<1>3. Block(j, mem_curr[j]) \in Buffer \/ slice[j] = 0
  BY <1>2, BlocksDiffer
<1>4. FillTypeOK'
  <2>1. /\ jobPc' \in [Jobs -> {"todo", "step", "barrier", "done"}]
        /\ offset' \in [Jobs -> 0..segment_blocks]
        /\ kernel' = kernel /\ slice' = slice /\ sliceInput' = sliceInput
    BY <1>1, Sizes DEF FillStep, FillTypeOK
  <2>2. counter' \in [Jobs -> Nat] /\ addr' \in [Jobs -> Int \X Int]
    <3>1. slice[j] \in Int /\ sliceInput[j] \in Int /\ counter[j] + 1 \in Nat
      BY <1>1 DEF FillTypeOK
    <3> QED BY <3>1 DEF FillStep, NextAddresses, FillTypeOK
  <2>3. /\ mem_curr' \in [Jobs -> 0..lane_blocks] /\ prev' \in [Jobs -> 0..(lane_blocks - 1)]
        /\ ref' \in [Jobs -> Int] /\ memory' \in [Buffer -> Nat]
    <3>1. CASE slice[j] = 0
      BY <3>1 DEF FillStep, Compute, FillTypeOK
    <3>2. CASE slice[j] # 0
      <4>1. /\ ref' = [ref EXCEPT ![j] = RefIndex(slice[j], offset[j], word)]
            /\ prev' = [prev EXCEPT ![j] = mem_curr[j]]
            /\ memory' = [memory EXCEPT ![Block(j, mem_curr[j])] = @ + 1]
            /\ mem_curr' = [mem_curr EXCEPT ![j] = mem_curr[j] + 1]
        BY <3>2 DEF FillStep, Compute
      <4>2. mem_curr[j] \in 2..7 /\ RefIndex(slice[j], offset[j], word) \in Int
        BY <3>2, <1>2
      <4>3. mem_curr' \in [Jobs -> 0..lane_blocks] /\ prev' \in [Jobs -> 0..(lane_blocks - 1)]
        BY <4>1, <4>2, Sizes DEF FillTypeOK
      <4>4. ref' \in [Jobs -> Int]
        BY <4>1, <4>2 DEF FillTypeOK
      <4>5. memory' \in [Buffer -> Nat]
        <5>1. memory \in [Buffer -> Nat] /\ Block(j, mem_curr[j]) \in Buffer
          BY <1>3, <3>2 DEF FillTypeOK
        <5> QED BY <5>1, <4>1
      <4> QED BY <4>3, <4>4, <4>5
    <3> QED BY <3>1, <3>2
  <2> QED BY <2>1, <2>2, <2>3 DEF FillTypeOK
<1>5. ASSUME NEW k \in Jobs PROVE JobInv(k)'
  <2>1. LoopInv(k)'
    <3>1. CASE k = j
      BY <3>1, <1>1, Sizes DEF FillStep, Compute, LoopInv, Looping, FillTypeOK, Current
    <3>2. CASE k # j
      BY <3>2 DEF FillStep, Compute, JobInv, LoopInv, Looping, FillTypeOK
    <3> QED BY <3>1, <3>2
  <2>2. RefInv(k)'
    <3>1. CASE k = j
      BY <3>1, <1>1, <1>2 DEF FillStep, Compute, JobInv, RefInv, FillTypeOK
    <3>2. CASE k # j
      BY <3>2 DEF FillStep, Compute, JobInv, RefInv, FillTypeOK
    <3> QED BY <3>1, <3>2
  <2>3. AddrInv(k)'
    <3>1. CASE k = j
      <4>1. sliceInput[j] = slice[j]
        BY <1>1 DEF JobInv, AddrInv, Looping
      <4>2. CASE slice[j] < 2 /\ offset[j] = 0
        <5>1. counter[j] = 0
          BY <4>2, <1>1 DEF JobInv, AddrInv, Looping
        <5> QED BY <3>1, <4>1, <4>2, <5>1, <1>1, Sizes
                DEF FillStep, NextAddresses, AddrInv, FillTypeOK
      <4>3. CASE slice[j] < 2 /\ offset[j] = 1
        <5>1. addr[j] = <<slice[j], 1>>
          BY <4>3, <1>1 DEF JobInv, AddrInv, Looping
        <5> QED BY <3>1, <4>1, <4>3, <5>1, <1>1, Sizes
                DEF FillStep, NextAddresses, AddrInv, FillTypeOK
      <4>4. CASE slice[j] >= 2
        BY <3>1, <4>1, <4>4, <1>1, Sizes
           DEF FillStep, NextAddresses, AddrInv, FillTypeOK
      <4> QED BY <4>2, <4>3, <4>4, <1>1
    <3>2. CASE k # j
      BY <3>2 DEF FillStep, NextAddresses, JobInv, AddrInv, Looping, FillTypeOK
    <3> QED BY <3>1, <3>2
  <2>4. ContentInv(k)'
    <3> SUFFICES ASSUME NEW i \in 0..7
                 PROVE  memory'[Block(k, i)] = IF i < Written(k)' THEN 1 ELSE 0
      BY DEF ContentInv, Block
    <3>1. memory[Block(k, i)] = IF i < Written(k) THEN 1 ELSE 0
      BY DEF JobInv, ContentInv
    <3>2. Block(k, i) \in Buffer
      BY BlocksDiffer
    <3>3. Written(j) = mem_curr[j] /\ Written(j)' = mem_curr'[j]
      BY <1>1 DEF Written, FillStep, FillTypeOK
    <3>4. k # j => Written(k)' = Written(k)
      BY <1>1 DEF Written, FillStep, Compute, FillTypeOK
    <3>5. CASE slice[j] = 0
      BY <3>1, <3>3, <3>4, <3>5 DEF FillStep, Compute
    <3>6. CASE slice[j] # 0
      <4>1. /\ mem_curr'[j] = mem_curr[j] + 1
            /\ memory' = [memory EXCEPT ![Block(j, mem_curr[j])] = @ + 1]
        BY <3>6 DEF FillStep, Compute, FillTypeOK
      <4>2. CASE k = j /\ i = mem_curr[j]
        BY <3>1, <3>2, <3>3, <4>1, <4>2 DEF FillTypeOK
      <4>3. CASE ~(k = j /\ i = mem_curr[j])
        <5>1. Block(k, i) # Block(j, mem_curr[j])
          BY <4>3, <3>6, <1>2, BlocksDiffer
        <5>2. memory'[Block(k, i)] = memory[Block(k, i)]
          BY <5>1, <4>1, <3>2 DEF FillTypeOK
        <5>3. i < Written(k) <=> i < Written(k)'
          BY <4>3, <4>1, <3>3, <3>4, <3>6, <1>2
        <5> QED BY <5>2, <5>3, <3>1
      <4> QED BY <4>2, <4>3
    <3> QED BY <3>5, <3>6
  <2> QED BY <2>1, <2>2, <2>3, <2>4 DEF JobInv
<1> QED BY <1>4, <1>5

LEMMA SliceEndKeeps ==
  ASSUME FillInv, NEW j \in Jobs, SliceEnd(j)
  PROVE  FillInv'
<1> USE DEF FillInv
<1>1. /\ kernel = "search1" /\ jobPc[j] = "barrier"
      /\ slice[j] \in 0..3 /\ offset[j] = 2
      /\ mem_curr[j] = Current(slice[j], 2) /\ prev[j] = mem_curr[j] - 1
      /\ sliceInput[j] = slice[j]
  BY DEF SliceEnd, JobInv, LoopInv, AddrInv, Looping
<1>2. FillTypeOK'
  <2>1. slice' \in [Jobs -> 0..ARGON2_SYNC_POINTS] /\ offset' \in [Jobs -> 0..segment_blocks]
    BY <1>1, Sizes DEF SliceEnd, FillTypeOK
  <2>2. mem_curr' \in [Jobs -> 0..lane_blocks]
    BY Sizes DEF SliceEnd, FillTypeOK
  <2>3. jobPc' \in [Jobs -> {"todo", "step", "barrier", "done"}]
    BY DEF SliceEnd, FillTypeOK
  <2>4. sliceInput' \in [Jobs -> Nat] /\ counter' \in [Jobs -> Nat]
    BY DEF SliceEnd, FillTypeOK
  <2> QED BY <2>1, <2>2, <2>3, <2>4 DEF SliceEnd, FillTypeOK
<1>3. ASSUME NEW k \in Jobs PROVE JobInv(k)'
  <2>1. CASE k = j
    <3>1. LoopInv(k)' /\ AddrInv(k)'
      BY <2>1, <1>1, Sizes DEF SliceEnd, LoopInv, AddrInv, Looping, FillTypeOK, Current
    <3>2. RefInv(k)'
      BY <2>1, <1>1 DEF SliceEnd, JobInv, RefInv, FillTypeOK
    <3>3. Written(k)' = Written(k)
      BY <2>1, <1>1, Sizes DEF SliceEnd, Written, FillTypeOK, Current
    <3>4. ContentInv(k)'
      BY <3>3 DEF SliceEnd, JobInv, ContentInv, Block
    <3> QED BY <3>1, <3>2, <3>4 DEF JobInv
  <2>2. CASE k # j
    <3>1. LoopInv(k)' /\ RefInv(k)' /\ AddrInv(k)'
      BY <2>2 DEF SliceEnd, JobInv, LoopInv, RefInv, AddrInv, Looping, FillTypeOK
    <3>2. Written(k)' = Written(k)
      BY <2>2 DEF SliceEnd, Written, FillTypeOK
    <3>3. ContentInv(k)'
      BY <3>2 DEF SliceEnd, JobInv, ContentInv, Block
    <3> QED BY <3>1, <3>3 DEF JobInv
  <2> QED BY <2>1, <2>2
<1> QED BY <1>2, <1>3

LEMMA FinalJobKeeps ==
  ASSUME FillInv, NEW j \in Jobs, FinalJob(j)
  PROVE  FillInv'
<1> USE DEF FillInv
<1>1. FillTypeOK'
  BY DEF FinalJob, jobVars, FillTypeOK
<1>2. ASSUME NEW k \in Jobs PROVE JobInv(k)'
  <2>1. LoopInv(k)' /\ RefInv(k)' /\ AddrInv(k)'
    BY DEF FinalJob, jobVars, JobInv, LoopInv, RefInv, AddrInv, Looping, FillTypeOK
  <2>2. ContentInv(k)'
    BY DEF FinalJob, jobVars, JobInv, ContentInv, Block, Written
  <2> QED BY <2>1, <2>2 DEF JobInv
<1> QED BY <1>1, <1>2

LEMMA HostNextKeeps ==
  ASSUME FillInv, HostNext
  PROVE  FillInv'
<1> USE DEF FillInv
<1>1. FillTypeOK'
  BY DEF HostNext, jobVars, FillTypeOK
<1>2. ASSUME NEW k \in Jobs PROVE JobInv(k)'
  <2>1. jobPc[k] = "done" /\ jobPc'[k] = "todo"
    BY DEF HostNext
  <2>2. LoopInv(k)' /\ RefInv(k)' /\ AddrInv(k)'
    BY <2>1 DEF LoopInv, RefInv, AddrInv, Looping
  <2>3. ContentInv(k)'
    <3> SUFFICES ASSUME NEW i \in 0..7
                 PROVE  memory'[Block(k, i)] = IF i < Written(k)' THEN 1 ELSE 0
      BY DEF ContentInv, Block
    <3>1. memory[Block(k, i)] = IF i < Written(k) THEN 1 ELSE 0
      BY DEF JobInv, ContentInv
    <3>2. Block(k, i) \in Buffer
      BY BlocksDiffer
    <3>3. CASE kernel = "search2"
      BY <3>2, <3>3, <2>1 DEF HostNext, Written
    <3>4. CASE kernel # "search2"
      BY <3>1, <3>4, <2>1 DEF HostNext, Written
    <3> QED BY <3>3, <3>4
  <2> QED BY <2>2, <2>3 DEF JobInv
<1> QED BY <1>1, <1>2

LEMMA StepKeeps == FillInv /\ [FillNext]_fillVars => FillInv'
<1> SUFFICES ASSUME FillInv, [FillNext]_fillVars PROVE FillInv'
  OBVIOUS
<1>1. CASE UNCHANGED fillVars
  BY <1>1 DEF fillVars, jobVars, FillInv, FillTypeOK, JobInv, LoopInv, RefInv,
              AddrInv, ContentInv, Looping, Written, Block
<1>2. CASE HostNext
  BY <1>2, HostNextKeeps
<1>3. ASSUME NEW j \in Jobs,
             \/ SearchJob(j) \/ FillStart(j) \/ SliceEnd(j) \/ FinalJob(j)
             \/ \E word \in Words : FillStep(j, word)
      PROVE  FillInv'
  BY <1>3, SearchJobKeeps, FillStartKeeps, FillStepKeeps, SliceEndKeeps, FinalJobKeeps
<1> QED BY <1>1, <1>2, <1>3 DEF FillNext

LEMMA FillInvariant == FillSpec => []FillInv
BY InitEstablishes, StepKeeps, PTL DEF FillSpec

-----------------------------------------------------------------------------
(* The loop variables, the blocks and the addresses keep their types: in   *)
(* particular no job moves beyond its own blocks (_kernel.h 1670-1746).    *)
THEOREM FillTyping == FillSpec => []FillTypeOK
<1>1. FillInv => FillTypeOK
  BY DEF FillInv
<1> QED BY <1>1, FillInvariant, PTL

(* References are to written blocks below the predecessor, for every word  *)
(* and every width of it: compute_ref_pos (_kernel.h 1535-1562).           *)
THEOREM ReferencesAreFilled == FillSpec => []RefsAreFilled
<1>1. FillInv => RefsAreFilled
  <2> SUFFICES ASSUME FillInv, NEW j \in Jobs, Filling(j)
               PROVE  ref[j] \in 0..(prev[j] - 2) /\ memory[Block(j, ref[j])] > 0
    BY DEF RefsAreFilled
  <2>1. ref[j] \in 0..(prev[j] - 2) /\ prev[j] \in 0..7
    BY Sizes DEF FillInv, FillTypeOK, JobInv, RefInv, Filling
  <2>2. Written(j) \in Nat /\ Written(j) > prev[j]
    BY <2>1, Sizes DEF FillInv, FillTypeOK, JobInv, LoopInv, Looping, Written, Filling
  <2>3. ref[j] \in 0..7 /\ ref[j] < Written(j)
    BY <2>1, <2>2
  <2> QED BY <2>1, <2>3 DEF FillInv, JobInv, ContentInv
<1> QED BY <1>1, FillInvariant, PTL

(* The block in registers is always the one before the next: search1       *)
(* (_kernel.h 1715-1746).                                                  *)
THEOREM ChainHolds == FillSpec => []ChainUnbroken
<1>1. FillInv => ChainUnbroken
  BY Sizes DEF FillInv, FillTypeOK, JobInv, LoopInv, Looping, ChainUnbroken
<1> QED BY <1>1, FillInvariant, PTL

(* search2 starts on memory in which every block was written once in this  *)
(* batch (_kernel.h 1267, 1681, 1846).                                     *)
THEOREM FillsOnce == FillSpec => []FilledOnce
<1>1. FillInv => FilledOnce
  <2> SUFFICES ASSUME FillInv, kernel = "search2", NEW b \in Buffer
               PROVE  memory[b] = 1
    BY DEF FilledOnce
  <2>1. PICK j \in Jobs : \E i \in 0..7 : b = Block(j, i)
    BY BlockOfPlace
  <2>2. PICK i \in 0..7 : b = Block(j, i)
    BY <2>1
  <2>3. Written(j) = 8
    BY DEF Written
  <2> QED BY <2>2, <2>3 DEF FillInv, JobInv, ContentInv
<1> QED BY <1>1, FillInvariant, PTL

(* The addresses in use are the first of the slice: next_addresses         *)
(* (_kernel.h 1631-1651, 1739-1744).                                       *)
THEOREM AddressesAreOfSlice == FillSpec => []AddressesOfSlice
<1>1. FillInv => AddressesOfSlice
  BY Sizes DEF FillInv, JobInv, AddrInv, Looping, AddressesOfSlice
<1> QED BY <1>1, FillInvariant, PTL
=============================================================================
