------------------------------- MODULE Shuffle -------------------------------
(***************************************************************************)
(* How the 32 work items of a job mix one block in search1 (argon2_step    *)
(* and shuffle_block, _kernel.h 1309-1533).  Each item holds four words of *)
(* the block in registers, applies the argon2 mixing g to them, and        *)
(* between two mixings trades words with the other items through one slot  *)
(* of local memory per item: write your slot, barrier, read another slot.  *)
(* No barrier separates a read from the write of the next shuffle.  What   *)
(* holds the items of a job together there is the hardware: a warp of      *)
(* width items executes in lockstep.                                       *)
(* A word is named by its place in the block, the arithmetic of g left out.*)
(***************************************************************************)
EXTENDS Integers, Sequences

CONSTANT Widths  (* how many items a warp of the device may have *)

THREADS_PER_LANE  == 32
QWORDS_PER_THREAD == 4

Threads   == 0..(THREADS_PER_LANE - 1)
Registers == 0..(QWORDS_PER_THREAD - 1)

ASSUME WidthsAssumption ==
  Widths \subseteq {n \in 1..THREADS_PER_LANE : THREADS_PER_LANE % n = 0}

VARIABLES
  width,    (* items in a warp                                              *)
  at,       (* each warp: the operation of Program it executes              *)
  arrived,  (* each warp: it has written its slots and is at the barrier    *)
  regs,     (* each item: a, b, c, d of its block_th                        *)
  ref_word, (* each item: the word it takes the reference block from        *)
  buf,      (* each slot: its word, and for which operation it was written  *)
  mixed     (* history: the quadruples each of the four calls of g mixed    *)

shufVars == <<width, at, arrived, regs, ref_word, buf, mixed>>

NoWord == -1
Warps  == 0..(THREADS_PER_LANE \div width - 1)
Items(u) == (u * width)..(u * width + width - 1)

(* One step of search1 on a block: the shuffle that spreads the            *)
(* pseudo-random word, then shuffle_block.                                 *)
Each(kind, numbers) == [n \in 1..Len(numbers) |-> [kind |-> kind, i |-> numbers[n]]]

Program ==
  Each("broadcast", <<0>>)
    \o Each("transpose", <<1, 2, 3>>)      \o Each("g", <<1>>)
    \o Each("shift1", <<0, 1, 2, 3>>)      \o Each("g", <<2>>)
    \o Each("unshift1", <<0, 1, 2, 3>>)
    \o Each("transpose", <<1, 2, 3>>)      \o Each("g", <<3>>)
    \o Each("shift2", <<0, 1, 2, 3>>)      \o Each("g", <<4>>)
    \o Each("unshift2", <<0, 1, 2, 3>>)

(* The bits of a thread number, and exclusive or of numbers of two bits. *)
Bit(t, b) == (t \div 2^b) % 2
Xor(x, y) == 2 * ((Bit(x, 1) + Bit(y, 1)) % 2) + ((Bit(x, 0) + Bit(y, 0)) % 2)

apply_shuffle_shift1(t, i) == 4 * (t \div 4) + ((t + i) % 4)

(* Mutant of apply_shuffle_shift2: the low bits are those of shift1. *)
shift2_of_low_bits(t, i) ==
  LET lo == (t + i) % 4
  IN  16 * Bit(lo, 1) + 2 * ((t \div 2) % 8) + Bit(lo, 0)

(* The two bits that move are the lowest and the highest. *)
apply_shuffle_shift2(t, i) ==
  LET lo == (Bit(t, 0) + 2 * Bit(t, 4) + i) % 4
  IN  16 * Bit(lo, 1) + 2 * ((t \div 2) % 8) + Bit(lo, 0)

Unshift(i) == (QWORDS_PER_THREAD - i) % QWORDS_PER_THREAD

(* The slot an item reads, and the register it gives and receives. *)
Source(op, t) ==
  CASE op.kind = "broadcast" -> 0
    [] op.kind = "transpose" ->
         16 * (t \div 16) + 4 * Xor((t \div 4) % 4, op.i) + (t % 4)
    [] op.kind = "shift1"    -> apply_shuffle_shift1(t, op.i)
    [] op.kind = "unshift1"  -> apply_shuffle_shift1(t, Unshift(op.i))
    [] op.kind = "shift2"    -> apply_shuffle_shift2(t, op.i)
    [] op.kind = "unshift2"  -> apply_shuffle_shift2(t, Unshift(op.i))

Register(op, t) ==
  IF op.kind = "transpose" THEN Xor((t \div 4) % 4, op.i) ELSE op.i

-----------------------------------------------------------------------------
(* load_block: register k of item t is word 32 * k + t. *)
Loaded == [t \in Threads |-> [k \in Registers |-> THREADS_PER_LANE * k + t]]

ShufInit ==
  /\ width \in Widths
  /\ at = [u \in Warps |-> 1]
  /\ arrived = [u \in Warps |-> FALSE]
  /\ regs = Loaded
  /\ ref_word = [t \in Threads |-> NoWord]
  /\ buf = [t \in Threads |-> [word |-> NoWord, op |-> 0]]
  /\ mixed = [n \in 1..4 |-> {}]

Running(u) == at[u] <= Len(Program)
Op(u)      == Program[at[u]]

Mix(u) ==
  /\ Running(u)
  /\ Op(u).kind = "g"
  /\ mixed' = [mixed EXCEPT ![Op(u).i] = @ \cup
                 {<<regs[t][0], regs[t][1], regs[t][2], regs[t][3]>> : t \in Items(u)}]
  /\ at' = [at EXCEPT ![u] = @ + 1]
  /\ UNCHANGED <<width, arrived, regs, ref_word, buf>>

(* u64_shuffle up to its barrier. *)
Write(u) ==
  /\ Running(u)
  /\ Op(u).kind # "g"
  /\ ~arrived[u]
  /\ buf' = [t \in Threads |->
               IF t \in Items(u)
                 THEN [word |-> regs[t][Register(Op(u), t)], op |-> at[u]]
                 ELSE buf[t]]
  /\ arrived' = [arrived EXCEPT ![u] = TRUE]
  /\ UNCHANGED <<width, at, regs, ref_word, mixed>>

(* Mutant of BarrierOpen: no barrier. *)
NoBarrier(u) == TRUE

(* All warps of the group have come to the barrier, some may have left it. *)
BarrierOpen(u) ==
  \A v \in Warps : at[v] > at[u] \/ (at[v] = at[u] /\ arrived[v])

(* u64_shuffle after its barrier, and block_th_set; the first shuffle only *)
(* tells every item which block to take as reference.                      *)
Read(u) ==
  /\ Running(u)
  /\ arrived[u]
  /\ BarrierOpen(u)
  /\ LET word(t) == buf[Source(Op(u), t)].word
     IN  IF Op(u).kind = "broadcast"
           THEN /\ ref_word' = [t \in Threads |->
                                  IF t \in Items(u) THEN word(t) ELSE ref_word[t]]
                /\ UNCHANGED regs
           ELSE /\ regs' = [t \in Threads |->
                              IF t \in Items(u)
                                THEN [regs[t] EXCEPT ![Register(Op(u), t)] = word(t)]
                                ELSE regs[t]]
                /\ UNCHANGED ref_word
  /\ at' = [at EXCEPT ![u] = @ + 1]
  /\ arrived' = [arrived EXCEPT ![u] = FALSE]
  /\ UNCHANGED <<width, buf, mixed>>

WarpStep == \E u \in Warps : Mix(u) \/ Write(u) \/ Read(u)

(* Every warp is through the step: store_block comes next. *)
StepDone == \A u \in Warps : ~Running(u)

ShufSpec == ShufInit /\ [][WarpStep]_shufVars

-----------------------------------------------------------------------------
(* The shuffle after operation k. *)
NextShuffle(k) == IF Program[k + 1].kind = "g" THEN k + 2 ELSE k + 1

(* The one barrier of a shuffle keeps the warps within one shuffle of each *)
(* other: a slot about to be read was written for this shuffle, or already *)
(* for the next one; the latter only by another warp, so never where the   *)
(* 32 items are one warp (_kernel.h 1318-1322).                            *)
ReadsThisOrNext ==
  \A u \in Warps : Running(u) /\ arrived[u] /\ BarrierOpen(u) =>
    \A t \in Items(u) :
      LET src == Source(Op(u), t)
      IN  \/ buf[src].op = at[u]
          \/ /\ src \notin Items(u)
             /\ at[u] < Len(Program) /\ buf[src].op = NextShuffle(at[u])

(* What argon2 mixes: the columns, then the diagonals, of the eight rows   *)
(* of sixteen words of a block, then of its eight columns of word pairs.   *)
Row(n)  == [k \in 0..15 |-> 16 * n + k]
Pair(n) == [k \in 0..15 |-> 16 * (k \div 2) + 2 * n + (k % 2)]

Columns(v)   == {<<v[k], v[4 + k], v[8 + k], v[12 + k]>> : k \in 0..3}
Diagonals(v) == {<<v[k], v[4 + ((k + 1) % 4)], v[8 + ((k + 2) % 4)], v[12 + ((k + 3) % 4)]>> :
                   k \in 0..3}

Argon2Mixes ==
  << UNION {Columns(Row(n)) : n \in 0..7},  UNION {Diagonals(Row(n)) : n \in 0..7},
     UNION {Columns(Pair(n)) : n \in 0..7}, UNION {Diagonals(Pair(n)) : n \in 0..7} >>

(* Where the 32 items are one warp they compute the argon2 permutation:    *)
(* all agree on the reference block, every call of g mixes the words       *)
(* argon2 does, and at the end each word is back in the register that      *)
(* store_block writes to its place (_kernel.h 1364-1386, 1438-1533).       *)
MixesAsArgon2 ==
  width = THREADS_PER_LANE /\ StepDone =>
    /\ \A t \in Threads : ref_word[t] = 0
    /\ mixed = Argon2Mixes
    /\ regs = Loaded
=============================================================================
