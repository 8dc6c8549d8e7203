------------------------------ MODULE BlockHash ------------------------------
(***************************************************************************)
(* What the kernels of a job hash with blake2b, besides the blocks search1 *)
(* mixes (_kernel.h).  search hashes the parameters and the seed, and from *)
(* that digest fills the first two blocks, each by a chain of 31 hashes    *)
(* whose compression is unrolled by hand.  search2 hashes the last block   *)
(* in nine compressions over a local copy whose first words it uses twice. *)
(* A word is named by where it comes from; a digest by the number of its   *)
(* compression.  The four work items of search2 are one process: they are  *)
(* part of one warp on every device.                                       *)
(***************************************************************************)
EXTENDS Integers, Sequences

VARIABLES
  hashPc,  (* what the job does next                                        *)
  buffer,  (* search: its private buffer of 32 words                        *)
  block,   (* search: which of the two blocks it fills                      *)
  chain,   (* search: the iteration of blake2b_compress_loop_1w             *)
  memory,  (* the two blocks, by words of 64 bits                           *)
  input,   (* search2: the local copy of the last block behind its length   *)
  step,    (* search2: the compressions done                                *)
  call     (* history: message and byte count of the last compression       *)

hashVars == <<hashPc, buffer, block, chain, memory, input, step, call>>

Number(n)    == <<"number", n, 0>>
Zero         == Number(0)
Param(k)     == <<"param", k, 0>>   (* lanes, outlen, mcost, passes, version, type *)
Seed(k)      == <<"seed", k, 0>>    (* 32 bytes of work hash, 8 of nonce           *)
Last(k)      == <<"last block", k, 0>>
Digest(d, k) == <<"digest", d, k>>

(* Digest 0 is that of the parameters; each block has a chain of 31. *)
ChainLength == 31
Link(b, n)  == ChainLength * b + n

HashInit ==
  /\ hashPc = "initial"
  /\ buffer = [k \in 0..31 |-> Zero]
  /\ block = 0
  /\ chain = 0
  /\ memory = [b \in 0..1 |-> [w \in 0..127 |-> Zero]]
  /\ input = [k \in 0..256 |-> Zero]
  /\ step = 0
  /\ call = [message |-> <<>>, bytes |-> 0]

-----------------------------------------------------------------------------
(* The message words each round takes: sigma, one byte for each word, and  *)
(* the rounds of blake2b_compress_loop_1w as they are written out (X where *)
(* no message word is added, for the message has eight words).             *)
sigma ==
  << << 0, 1, 2, 3, 4, 5, 6, 7, 8, 9,10,11,12,13,14,15>>,
     <<14,10, 4, 8, 9,15,13, 6, 1,12, 0, 2,11, 7, 5, 3>>,
     <<11, 8,12, 0, 5, 2,15,13,10,14, 3, 6, 7, 1, 9, 4>>,
     << 7, 9, 3, 1,13,12,11,14, 2, 6, 5,10, 4, 0,15, 8>>,
     << 9, 0, 5, 7, 2, 4,10,15,14, 1,11,12, 6, 8, 3,13>>,
     << 2,12, 6,10, 0,11, 8, 3, 4,13, 7, 5,15,14, 1, 9>>,
     <<12, 5, 1,15,14,13, 4,10, 0, 7, 6, 3, 9, 2, 8,11>>,
     <<13,11, 7,14,12, 1, 3, 9, 5, 0,15, 4, 8, 6, 2,10>>,
     << 6,15,14, 9,11, 3, 0, 8,12, 2,13, 7, 1, 4,10, 5>>,
     <<10, 2, 8, 4, 7, 6, 1, 5,15,11, 9,14, 3,12,13, 0>>,
     << 0, 1, 2, 3, 4, 5, 6, 7, 8, 9,10,11,12,13,14,15>>,
     <<14,10, 4, 8, 9,15,13, 6, 1,12, 0, 2,11, 7, 5, 3>> >>

X == -1
LoopRound1  == <<0, 1, 2, 3, 4, 5, 6, 7, X, X, X, X, X, X, X, X>>
LoopRound2  == <<X, X, 4, X, X, X, X, 6, 1, X, 0, 2, X, 7, 5, 3>>
LoopRound3  == <<X, X, X, 0, 5, 2, X, X, X, X, 3, 6, 7, 1, X, 4>>
LoopRound4  == <<7, X, 3, 1, X, X, X, X, 2, 6, 5, X, 4, 0, X, X>>
LoopRound5  == <<X, 0, 5, 7, 2, 4, X, X, X, 1, X, X, 6, X, 3, X>>
LoopRound6  == <<2, X, 6, X, 0, X, X, 3, 4, X, 7, 5, X, X, 1, X>>
LoopRound7  == <<X, 5, 1, X, X, X, 4, X, 0, 7, 6, 3, X, 2, X, X>>
(* Mutant of LoopRound8: two of its words swapped. *)
SwappedRound == <<X, X, 7, X, X, 1, 3, X, 0, 5, X, 4, X, 6, 2, X>>
LoopRound8  == <<X, X, 7, X, X, 1, 3, X, 5, 0, X, 4, X, 6, 2, X>>
LoopRound9  == <<6, X, X, X, X, 3, 0, X, X, 2, X, 7, 1, 4, X, 5>>
LoopRound10 == <<X, 2, X, 4, 7, 6, 1, 5, X, X, X, X, 3, X, X, 0>>
LoopRound11 == <<0, 1, 2, 3, 4, 5, 6, 7, X, X, X, X, X, X, X, X>>
LoopRound12 == <<X, X, 4, X, X, X, X, 6, 1, X, 0, 2, X, 7, 5, 3>>

LoopRounds ==
  <<LoopRound1, LoopRound2, LoopRound3, LoopRound4,  LoopRound5,  LoopRound6,
    LoopRound7, LoopRound8, LoopRound9, LoopRound10, LoopRound11, LoopRound12>>

-----------------------------------------------------------------------------
(* computeInitialHash: a compression of 80 bytes, whose digest replaces    *)
(* what it was made of from word 1 on.                                     *)
InitialHash ==
  /\ hashPc = "initial"
  /\ LET filled == [k \in 0..31 |-> IF k < 6 THEN Param(k)
                                    ELSE IF k = 6 THEN Number(40)
                                    ELSE IF k < 17 THEN Seed(k - 7) ELSE Zero]
     IN  /\ call' = [message |-> filled, bytes |-> 80]
         /\ buffer' = [k \in 0..31 |-> IF k \in 1..16 THEN Digest(0, k - 1) ELSE filled[k]]
  /\ hashPc' = "block"
  /\ UNCHANGED <<block, chain, memory, input, step>>

(* fillFirstBlock: the first hash of a block's chain, of 76 bytes. *)
BlockStart ==
  /\ hashPc = "block"
  /\ LET filled == [buffer EXCEPT ![0] = Number(1024), ![17] = Number(block), ![18] = Zero]
     IN  /\ buffer' = filled
         /\ call' = [message |-> filled, bytes |-> 76]
  /\ memory' = [memory EXCEPT ![block] =
                  [w \in 0..127 |-> IF w < 4 THEN Digest(Link(block, 1), w) ELSE @[w]]]
  /\ chain' = 1
  /\ hashPc' = "loop"
  /\ UNCHANGED <<block, input, step>>

(* One iteration of blake2b_compress_loop_1w hashes the 64 bytes of the    *)
(* digest before and stores half of the new one; after the last iteration  *)
(* the other half is stored as well.                                       *)
ChainStep ==
  /\ hashPc = "loop"
  /\ chain < ChainLength
  /\ call' = [message |-> [k \in 0..15 |-> IF k < 8 THEN Digest(Link(block, chain), k)
                                                    ELSE Zero],
              bytes |-> 64]
  /\ memory' = [memory EXCEPT ![block] =
                  [w \in 0..127 |-> IF w \div 4 = chain
                                      THEN Digest(Link(block, chain + 1), w % 4) ELSE @[w]]]
  /\ chain' = chain + 1
  /\ UNCHANGED <<hashPc, buffer, block, input, step>>

ChainEnd ==
  /\ hashPc = "loop"
  /\ chain = ChainLength
  /\ memory' = [memory EXCEPT ![block] =
                  [w \in 0..127 |-> IF w >= 124 THEN Digest(Link(block, chain), w - 120)
                                                ELSE @[w]]]
  /\ IF block = 0 THEN block' = 1 /\ hashPc' = "block"
                  ELSE hashPc' = "searched" /\ UNCHANGED block
  /\ UNCHANGED <<buffer, chain, input, step, call>>

SearchStep == InitialHash \/ BlockStart \/ ChainStep \/ ChainEnd

(* search2: load_block_fin behind the output length. *)
LoadFinal ==
  /\ hashPc = "searched"
  /\ input' = [k \in 0..256 |-> IF k = 0 THEN Number(32) ELSE Last(k - 1)]
  /\ hashPc' = "compress"
  /\ UNCHANGED <<buffer, block, chain, memory, step, call>>

CompressFinal ==
  /\ hashPc = "compress"
  /\ step < 8
  /\ step' = step + 1
  /\ call' = [message |-> [k \in 0..31 |-> input[32 * step + k]], bytes |-> 128 * step']
  /\ UNCHANGED <<hashPc, buffer, block, chain, memory, input>>

(* Mutant of FinishFinal: zero_buffer is not called. *)
FinishUncleared ==
  /\ hashPc = "compress"
  /\ step = 8
  /\ input' = [input EXCEPT ![0] = input[256]]
  /\ step' = 9
  /\ call' = [message |-> [k \in 0..31 |-> input'[k]], bytes |-> 128 * step + 4]
  /\ hashPc' = "hashed"
  /\ UNCHANGED <<buffer, block, chain, memory>>

(* zero_buffer clears the first words, the one word left over goes into    *)
(* the first of them, and blake2b_compress_final counts four bytes more.   *)
FinishFinal ==
  /\ hashPc = "compress"
  /\ step = 8
  /\ input' = [k \in 0..256 |-> IF k = 0 THEN input[256]
                                ELSE IF k < 32 THEN Zero ELSE input[k]]
  /\ step' = 9
  /\ call' = [message |-> [k \in 0..31 |-> input'[k]], bytes |-> 128 * step + 4]
  /\ hashPc' = "hashed"
  /\ UNCHANGED <<buffer, block, chain, memory>>

Search2Step == LoadFinal \/ CompressFinal \/ FinishFinal

-----------------------------------------------------------------------------
(* The words of 32 bits argon2 hashes: first the parameters, the seed with *)
(* its length and three empty strings; then, for a block, its length, that *)
(* digest, and the numbers of block and lane.                              *)
Padded(words, n) == [k \in 0..(n - 1) |-> IF k < Len(words) THEN words[k + 1] ELSE Zero]

Argon2Initial ==
  [k \in 1..6 |-> Param(k - 1)] \o <<Number(40)>> \o [k \in 1..10 |-> Seed(k - 1)]
    \o <<Zero, Zero, Zero>>

Argon2Block(b) ==
  <<Number(1024)>> \o [k \in 1..16 |-> Digest(0, k - 1)] \o <<Number(b), Zero>>

(* The first two blocks are the variable-length hashes argon2 prescribes:  *)
(* their inputs are complete and nothing of the buffer's first use is left *)
(* in its second; each 64-byte digest but the last gives half of itself;   *)
(* and the unrolled rounds take the message words sigma names              *)
(* (_kernel.h 156-1171, 1228-1307).                                        *)
FirstBlocksAsArgon2 ==
  /\ hashPc = "block" /\ block = 0 =>
       call = [message |-> Padded(Argon2Initial, 32), bytes |-> 4 * Len(Argon2Initial)]
  /\ hashPc = "loop" /\ chain = 1 =>
       call = [message |-> Padded(Argon2Block(block), 32),
               bytes |-> 4 * Len(Argon2Block(block))]
  /\ hashPc = "loop" /\ chain > 1 =>
       \A r \in 1..12, n \in 1..16 :
         call.message[sigma[r][n]] =
           IF LoopRounds[r][n] = X THEN Zero
           ELSE Digest(Link(block, chain - 1), LoopRounds[r][n])
  /\ hashPc = "searched" =>
       \A b \in 0..1, w \in 0..127 :
         memory[b][w] = IF w < 120 THEN Digest(Link(b, w \div 4 + 1), w % 4)
                                   ELSE Digest(Link(b, ChainLength), w - 120)

(* The nine compressions of search2 hash the output length and the whole   *)
(* last block, each word once and in order, padded with zeros although the *)
(* copy is used twice, with the byte counts blake2b adds up                *)
(* (_kernel.h 1770-1870).                                                  *)
HashesLastBlock ==
  step > 0 =>
    LET words == <<Number(32)>> \o [k \in 1..256 |-> Last(k - 1)]
    IN  /\ \A k \in 0..31 :
             call.message[k] = Padded(words, 9 * 32)[32 * (step - 1) + k]
        /\ call.bytes = IF step < 9 THEN 128 * step ELSE 4 * Len(words)
=============================================================================
