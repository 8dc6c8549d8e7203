----------------------------- MODULE FillMemory -----------------------------
(***************************************************************************)
(* How the GPU fills the argon2 memory of a batch (_kernel.h, launched by  *)
(* minerThreadFn in miner.cpp).  Three kernels run one after the other,    *)
(* each with one job for each nonce: search writes the first two blocks of *)
(* its job, search1 computes the others, each from its predecessor and     *)
(* from a block at a pseudo-random place, search2 hashes the last one.     *)
(* The memory of all jobs is one buffer.  The 32 work items of a job in    *)
(* search1 are one group that meets at barriers: they are one process.     *)
(***************************************************************************)
EXTENDS Integers

CONSTANTS
  NumJobs,   (* jobs in a batch: throughput                                 *)
  WordMod    (* uint wraps at this value: 2^32                              *)

(* What the host passes to search1, and the constants of the kernel. *)
segment_blocks     == 2
ARGON2_SYNC_POINTS == 4
lane_blocks        == ARGON2_SYNC_POINTS * segment_blocks

ASSUME FillMemoryAssumption ==
  /\ NumJobs \in Nat
  /\ WordMod \in Nat /\ WordMod > lane_blocks

VARIABLES
  kernel,     (* the kernel that runs: "search", "search1" or "search2"      *)
  jobPc,      (* each job: "todo", in search1 "step" or "barrier", "done"    *)
  slice,      (* the loop variables of search1                               *)
  offset,
  mem_curr,   (* the block search1 computes next                             *)
  prev,       (* the block it holds in registers                             *)
  ref,        (* the block it last mixed in (NoBlock before the first)       *)
  sliceInput, (* thread_input of thread 2 and of thread 6: which addresses   *)
  counter,    (* next_addresses generates                                    *)
  addr,       (* the inputs of the addresses it generated last               *)
  memory      (* how often each block was written in this batch; a block     *)
              (* not written yet holds the data of the batch before          *)

jobVars  == <<slice, offset, mem_curr, prev, ref, sliceInput, counter, addr>>
fillVars == <<kernel, jobPc, jobVars, memory>>

Jobs    == 0..(NumJobs - 1)
Words   == 0..(WordMod - 1)
NoBlock == -1
NoAddr  == <<-1, -1>>

(* The place of a job's i-th block in the buffer. *)
Block(j, i) == lane_blocks * j + i
Buffer      == 0..(lane_blocks * NumJobs - 1)

FillTypeOK ==
  /\ kernel \in {"search", "search1", "search2"}
  /\ jobPc \in [Jobs -> {"todo", "step", "barrier", "done"}]
  /\ slice \in [Jobs -> 0..ARGON2_SYNC_POINTS]
  /\ offset \in [Jobs -> 0..segment_blocks]
  /\ mem_curr \in [Jobs -> 0..lane_blocks]
  /\ prev \in [Jobs -> 0..(lane_blocks - 1)]
  /\ ref \in [Jobs -> Int]
  /\ sliceInput \in [Jobs -> Nat]
  /\ counter \in [Jobs -> Nat]
  /\ addr \in [Jobs -> Int \X Int]
  /\ memory \in [Buffer -> Nat]

FillInit ==
  /\ kernel = "search"
  /\ jobPc = [j \in Jobs |-> "todo"]
  /\ slice = [j \in Jobs |-> 0]
  /\ offset = [j \in Jobs |-> 0]
  /\ mem_curr = [j \in Jobs |-> 0]
  /\ prev = [j \in Jobs |-> 0]
  /\ ref = [j \in Jobs |-> NoBlock]
  /\ sliceInput = [j \in Jobs |-> 0]
  /\ counter = [j \in Jobs |-> 0]
  /\ addr = [j \in Jobs |-> NoAddr]
  /\ memory = [b \in Buffer |-> 0]

-----------------------------------------------------------------------------
(* uint arithmetic: what a - b is, and the upper half of a product.        *)
Minus(a, b) == IF a >= b THEN a - b ELSE a - b + WordMod
MulHi(a, b) == (a * b) \div WordMod

(* The number of blocks a reference can be to: all that are filled but the *)
(* one before the current; mutated, that one is counted too.               *)
RefAreaWithPrev(s, o) == s * segment_blocks + o

RefArea(s, o) == Minus(s * segment_blocks + o, 1)

(* compute_ref_pos of the only pass in the only lane. *)
RefIndex(s, o, word) ==
  Minus(RefArea(s, o), 1) - MulHi(RefArea(s, o), MulHi(word, word))

(* search: fillFirstBlock writes two blocks of the job. *)
SearchJob(j) ==
  /\ kernel = "search"
  /\ jobPc[j] = "todo"
  /\ jobPc' = [jobPc EXCEPT ![j] = "done"]
  /\ memory' = [memory EXCEPT ![Block(j, 0)] = @ + 1, ![Block(j, 1)] = @ + 1]
  /\ UNCHANGED <<kernel, jobVars>>

(* search1: the second block is loaded, the loops start.  With segments of *)
(* two blocks no addresses are generated before them.                      *)
FillStart(j) ==
  /\ kernel = "search1"
  /\ jobPc[j] = "todo"
  /\ jobPc' = [jobPc EXCEPT ![j] = "step"]
  /\ slice' = [slice EXCEPT ![j] = 0]
  /\ offset' = [offset EXCEPT ![j] = 0]
  /\ mem_curr' = [mem_curr EXCEPT ![j] = 2]
  /\ prev' = [prev EXCEPT ![j] = 1]
  /\ ref' = [ref EXCEPT ![j] = NoBlock]
  /\ sliceInput' = [sliceInput EXCEPT ![j] = 0]
  /\ counter' = [counter EXCEPT ![j] = 0]
  /\ UNCHANGED <<kernel, addr, memory>>

(* The first half of the slices takes its references from addresses that   *)
(* are generated at the first offset of a slice.                           *)
NextAddresses(j) ==
  IF slice[j] < ARGON2_SYNC_POINTS \div 2 /\ offset[j] = 0
    THEN /\ counter' = [counter EXCEPT ![j] = @ + 1]
         /\ addr' = [addr EXCEPT ![j] = <<sliceInput[j], counter[j] + 1>>]
    ELSE UNCHANGED <<counter, addr>>

(* Mutant of Compute: the first slice moves mem_curr as well. *)
ComputeMovesAlways(j, word) ==
  /\ mem_curr' = [mem_curr EXCEPT ![j] = @ + 1]
  /\ IF slice[j] = 0 THEN UNCHANGED <<prev, ref, memory>>
     ELSE /\ ref' = [ref EXCEPT ![j] = RefIndex(slice[j], offset[j], word)]
          /\ prev' = [prev EXCEPT ![j] = mem_curr[j]]
          /\ memory' = [memory EXCEPT ![Block(j, mem_curr[j])] = @ + 1]

(* argon2_core and the move of mem_curr: nothing in the first slice, whose *)
(* blocks search has written.                                              *)
Compute(j, word) ==
  IF slice[j] = 0 THEN UNCHANGED <<mem_curr, prev, ref, memory>>
  ELSE /\ ref' = [ref EXCEPT ![j] = RefIndex(slice[j], offset[j], word)]
       /\ prev' = [prev EXCEPT ![j] = mem_curr[j]]
       /\ memory' = [memory EXCEPT ![Block(j, mem_curr[j])] = @ + 1]
       /\ mem_curr' = [mem_curr EXCEPT ![j] = @ + 1]

(* argon2_step: word is the pseudo-random one, of the addresses or of the  *)
(* previous block.                                                         *)
FillStep(j, word) ==
  /\ kernel = "search1"
  /\ jobPc[j] = "step"
  /\ NextAddresses(j)
  /\ Compute(j, word)
  /\ offset' = [offset EXCEPT ![j] = @ + 1]
  /\ jobPc' = [jobPc EXCEPT ![j] = IF offset[j] + 1 < segment_blocks
                                     THEN "step" ELSE "barrier"]
  /\ UNCHANGED <<kernel, slice, sliceInput>>

(* Mutant of SliceEnd: thread 6 goes on counting. *)
SliceEndKeepsCounter(j) ==
  /\ kernel = "search1"
  /\ jobPc[j] = "barrier"
  /\ slice' = [slice EXCEPT ![j] = @ + 1]
  /\ offset' = [offset EXCEPT ![j] = 0]
  /\ sliceInput' = [sliceInput EXCEPT ![j] = @ + 1]
  /\ IF slice[j] + 1 < ARGON2_SYNC_POINTS
       THEN jobPc' = [jobPc EXCEPT ![j] = "step"] /\ UNCHANGED mem_curr
       ELSE /\ jobPc' = [jobPc EXCEPT ![j] = "done"]
            /\ mem_curr' = [mem_curr EXCEPT ![j] = 0]
  /\ UNCHANGED <<kernel, prev, ref, counter, addr, memory>>

(* The end of a slice, and of the pass. *)
SliceEnd(j) ==
  /\ kernel = "search1"
  /\ jobPc[j] = "barrier"
  /\ slice' = [slice EXCEPT ![j] = @ + 1]
  /\ offset' = [offset EXCEPT ![j] = 0]
  /\ sliceInput' = [sliceInput EXCEPT ![j] = @ + 1]
  /\ counter' = [counter EXCEPT ![j] = 0]
  /\ IF slice[j] + 1 < ARGON2_SYNC_POINTS
       THEN jobPc' = [jobPc EXCEPT ![j] = "step"] /\ UNCHANGED mem_curr
       ELSE /\ jobPc' = [jobPc EXCEPT ![j] = "done"]
            /\ mem_curr' = [mem_curr EXCEPT ![j] = 0]
  /\ UNCHANGED <<kernel, prev, ref, addr, memory>>

(* search2 reads the last block of its job. *)
FinalJob(j) ==
  /\ kernel = "search2"
  /\ jobPc[j] = "todo"
  /\ jobPc' = [jobPc EXCEPT ![j] = "done"]
  /\ UNCHANGED <<kernel, jobVars, memory>>

(* The host: clFinish, the next kernel; after the last one, the next batch *)
(* starts, and what memory counts starts again.                            *)
HostNext ==
  /\ \A j \in Jobs : jobPc[j] = "done"
  /\ jobPc' = [j \in Jobs |-> "todo"]
  /\ \/ kernel = "search"  /\ kernel' = "search1" /\ UNCHANGED memory
     \/ kernel = "search1" /\ kernel' = "search2" /\ UNCHANGED memory
     \/ kernel = "search2" /\ kernel' = "search"  /\ memory' = [b \in Buffer |-> 0]
  /\ UNCHANGED jobVars

FillNext ==
  \/ \E j \in Jobs :
       \/ SearchJob(j)
       \/ FillStart(j)
       \/ \E word \in Words : FillStep(j, word)
       \/ SliceEnd(j)
       \/ FinalJob(j)
  \/ HostNext

FillSpec == FillInit /\ [][FillNext]_fillVars

-----------------------------------------------------------------------------
(* A job that has computed a block of its own and not left search1.        *)
Filling(j) == kernel = "search1" /\ jobPc[j] # "todo" /\ ref[j] # NoBlock

(* Every reference is to a block of the job that this batch has filled     *)
(* before, and never to the predecessor, whatever the pseudo-random word:  *)
(* the subtractions of compute_ref_pos do not wrap where they are used     *)
(* (_kernel.h 1550-1555, 1660-1667).                                       *)
RefsAreFilled ==
  \A j \in Jobs : Filling(j) =>
    /\ ref[j] \in 0..(prev[j] - 2)
    /\ memory[Block(j, ref[j])] > 0

(* Each block is computed from its predecessor: the block in registers is  *)
(* the one before mem_curr, through the slice that computes nothing, and   *)
(* the last one at the end (_kernel.h 1715-1746).                          *)
ChainUnbroken ==
  \A j \in Jobs : kernel = "search1" /\ jobPc[j] # "todo" =>
    IF jobPc[j] = "done" THEN prev[j] = lane_blocks - 1
                         ELSE prev[j] = mem_curr[j] - 1

(* When search2 hashes the last block of a job every block of the buffer   *)
(* was written once in this batch: none is skipped, none belongs to two    *)
(* jobs, none is of the batch before (_kernel.h 1267, 1681, 1846).         *)
FilledOnce == kernel = "search2" => \A b \in Buffer : memory[b] = 1

(* The addresses a data-independent step uses were generated for its own   *)
(* slice, as its first ones (_kernel.h 1631-1651, 1739-1744).              *)
AddressesOfSlice ==
  \A j \in Jobs :
    kernel = "search1" /\ offset[j] > 0 /\ slice[j] < ARGON2_SYNC_POINTS \div 2
      /\ jobPc[j] \in {"step", "barrier"}
      => addr[j] = <<slice[j], 1>>
=============================================================================
