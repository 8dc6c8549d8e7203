--------------------------- MODULE WorkItems_proofs --------------------------
(***************************************************************************)
(* A job's work items and words: how far apart its warps can get in a      *)
(* shuffle, for every width a warp of the device may have; that one warp   *)
(* mixes as argon2; and that search and search2 hash the words argon2      *)
(* prescribes, each in its place.                                          *)
(***************************************************************************)
EXTENDS WorkItems, TLAPS

Kinds == {"broadcast", "transpose", "shift1", "unshift1", "shift2", "unshift2", "g"}
Ops   == [kind : Kinds, i : 0..4]

(* The operations of a step by their number. *)
OpAt(k) ==
  IF k = 1       THEN [kind |-> "broadcast", i |-> 0]
  ELSE IF k < 5  THEN [kind |-> "transpose", i |-> k - 1]
  ELSE IF k = 5  THEN [kind |-> "g",         i |-> 1]
  ELSE IF k < 10 THEN [kind |-> "shift1",    i |-> k - 6]
  ELSE IF k = 10 THEN [kind |-> "g",         i |-> 2]
  ELSE IF k < 15 THEN [kind |-> "unshift1",  i |-> k - 11]
  ELSE IF k < 18 THEN [kind |-> "transpose", i |-> k - 14]
  ELSE IF k = 18 THEN [kind |-> "g",         i |-> 3]
  ELSE IF k < 23 THEN [kind |-> "shift2",    i |-> k - 19]
  ELSE IF k = 23 THEN [kind |-> "g",         i |-> 4]
  ELSE                [kind |-> "unshift2",  i |-> k - 24]

(* A program that is the first n operations of a step. *)
Spells(program, n) ==
  /\ program \in Seq(Ops)
  /\ Len(program) = n
  /\ \A k \in 1..n : program[k] = OpAt(k)

LEMMA SpellsMore ==
  ASSUME NEW s, NEW t, NEW n \in Nat, NEW m \in Nat, Spells(s, n),
         t \in Seq(Ops), Len(t) = m, \A k \in 1..m : t[k] = OpAt(n + k)
  PROVE  Spells(s \o t, n + m)
<1> DEFINE p == s \o t
<1>1. p \in Seq(Ops) /\ Len(p) = n + m
  BY DEF Spells
<1>2. \A k \in 1..n : p[k] = OpAt(k)
  BY DEF Spells
<1>3. \A k \in 1..m : p[n + k] = OpAt(n + k)
  BY DEF Spells
<1> HIDE DEF p
<1>4. ASSUME NEW k \in 1..(n + m)
      PROVE  p[k] = OpAt(k)
  <2>1. k \in 1..n \/ (k - n \in 1..m /\ k = n + (k - n))
    OBVIOUS
  <2> QED
    BY <1>2, <1>3, <2>1
<1> QED
  BY <1>1, <1>4 DEF Spells, p

LEMMA SpellsShuffles ==
  ASSUME NEW s, NEW n \in Nat, Spells(s, n), NEW kind \in Kinds
  PROVE  /\ (\A i \in 1..3 : OpAt(n + i) = [kind |-> kind, i |-> i])
              => Spells(s \o Each(kind, <<1, 2, 3>>), n + 3)
         /\ (\A i \in 0..3 : OpAt(n + 1 + i) = [kind |-> kind, i |-> i])
              => Spells(s \o Each(kind, <<0, 1, 2, 3>>), n + 4)
<1>1. ASSUME \A i \in 1..3 : OpAt(n + i) = [kind |-> kind, i |-> i]
      PROVE  Spells(s \o Each(kind, <<1, 2, 3>>), n + 3)
  <2> DEFINE t == Each(kind, <<1, 2, 3>>)
  <2>1. /\ t \in Seq(Ops) /\ Len(t) = 3
        /\ \A k \in 1..3 : t[k] = [kind |-> kind, i |-> k]
    BY DEF Each, Ops
  <2> HIDE DEF t
  <2>2. \A k \in 1..3 : t[k] = OpAt(n + k)
    BY <1>1, <2>1
  <2>3. Spells(s \o t, n + 3)
    BY <2>1, <2>2, SpellsMore
  <2> QED
    BY <2>3 DEF t
<1>2. ASSUME \A i \in 0..3 : OpAt(n + 1 + i) = [kind |-> kind, i |-> i]
      PROVE  Spells(s \o Each(kind, <<0, 1, 2, 3>>), n + 4)
  <2> DEFINE t == Each(kind, <<0, 1, 2, 3>>)
  <2>1. /\ t \in Seq(Ops) /\ Len(t) = 4
        /\ \A k \in 1..4 : t[k] = [kind |-> kind, i |-> k - 1]
    BY DEF Each, Ops
  <2> HIDE DEF t
  <2>2. \A k \in 1..4 : t[k] = OpAt(n + k)
    <3>1. \A k \in 1..4 : k - 1 \in 0..3 /\ n + 1 + (k - 1) = n + k
      OBVIOUS
    <3> QED
      BY <1>2, <2>1, <3>1
  <2>3. Spells(s \o t, n + 4)
    BY <2>1, <2>2, SpellsMore
  <2> QED
    BY <2>3 DEF t
<1> QED
  BY <1>1, <1>2

LEMMA SpellsMix ==
  ASSUME NEW s, NEW n \in Nat, Spells(s, n), NEW i \in 1..4,
         OpAt(n + 1) = [kind |-> "g", i |-> i]
  PROVE  Spells(s \o Each("g", <<i>>), n + 1)
<1> DEFINE t == Each("g", <<i>>)
<1>1. /\ t \in Seq(Ops) /\ Len(t) = 1
      /\ \A k \in 1..1 : t[k] = OpAt(n + k)
  BY DEF Each, Ops, Kinds
<1> HIDE DEF t
<1>2. Spells(s \o t, n + 1)
  BY <1>1, SpellsMore
<1> QED
  BY <1>2 DEF t

(* The program of a step has 27 operations, of which four mix: never two   *)
(* in turn, and neither the first nor the last.                            *)
LEMMA ProgramIs == Spells(Program, 27)
<1> DEFINE p1 == Each("broadcast", <<0>>) \o Each("transpose", <<1, 2, 3>>)
           p2 == p1 \o Each("g", <<1>>)
           p3 == p2 \o Each("shift1", <<0, 1, 2, 3>>)
           p4 == p3 \o Each("g", <<2>>)
           p5 == p4 \o Each("unshift1", <<0, 1, 2, 3>>)
           p6 == p5 \o Each("transpose", <<1, 2, 3>>)
           p7 == p6 \o Each("g", <<3>>)
           p8 == p7 \o Each("shift2", <<0, 1, 2, 3>>)
           p9 == p8 \o Each("g", <<4>>)
<1>1. Program = p9 \o Each("unshift2", <<0, 1, 2, 3>>)
  BY DEF Program
<1>2. Spells(Each("broadcast", <<0>>), 1)
  BY DEF Spells, Each, Kinds, Ops, OpAt
<1> HIDE DEF p1, p2, p3, p4, p5, p6, p7, p8, p9
<1> USE DEF Kinds
<1>3. Spells(p1, 4)
  <2>1. \A i \in 1..3 : OpAt(1 + i) = [kind |-> "transpose", i |-> i]
    BY DEF OpAt
  <2> QED
    BY <1>2, <2>1, SpellsShuffles DEF p1
<1>4. Spells(p2, 5)
  <2>1. OpAt(4 + 1) = [kind |-> "g", i |-> 1]
    BY DEF OpAt
  <2> QED
    BY <1>3, <2>1, SpellsMix DEF p2
<1>5. Spells(p3, 9)
  <2>1. \A i \in 0..3 : OpAt(5 + 1 + i) = [kind |-> "shift1", i |-> i]
    BY DEF OpAt
  <2> QED
    BY <1>4, <2>1, SpellsShuffles DEF p3
<1>6. Spells(p4, 10)
  <2>1. OpAt(9 + 1) = [kind |-> "g", i |-> 2]
    BY DEF OpAt
  <2> QED
    BY <1>5, <2>1, SpellsMix DEF p4
<1>7. Spells(p5, 14)
  <2>1. \A i \in 0..3 : OpAt(10 + 1 + i) = [kind |-> "unshift1", i |-> i]
    BY DEF OpAt
  <2> QED
    BY <1>6, <2>1, SpellsShuffles DEF p5
<1>8. Spells(p6, 17)
  <2>1. \A i \in 1..3 : OpAt(14 + i) = [kind |-> "transpose", i |-> i]
    BY DEF OpAt
  <2> QED
    BY <1>7, <2>1, SpellsShuffles DEF p6
<1>9. Spells(p7, 18)
  <2>1. OpAt(17 + 1) = [kind |-> "g", i |-> 3]
    BY DEF OpAt
  <2> QED
    BY <1>8, <2>1, SpellsMix DEF p7
<1>10. Spells(p8, 22)
  <2>1. \A i \in 0..3 : OpAt(18 + 1 + i) = [kind |-> "shift2", i |-> i]
    BY DEF OpAt
  <2> QED
    BY <1>9, <2>1, SpellsShuffles DEF p8
<1>11. Spells(p9, 23)
  <2>1. OpAt(22 + 1) = [kind |-> "g", i |-> 4]
    BY DEF OpAt
  <2> QED
    BY <1>10, <2>1, SpellsMix DEF p9
<1>12. Spells(p9 \o Each("unshift2", <<0, 1, 2, 3>>), 23 + 4)
  <2>1. \A i \in 0..3 : OpAt(23 + 1 + i) = [kind |-> "unshift2", i |-> i]
    BY DEF OpAt
  <2> QED
    BY <1>11, <2>1, SpellsShuffles
<1> QED
  BY <1>1, <1>12

-----------------------------------------------------------------------------
(* The widths a warp may have divide 32: the warps share out the items.    *)
LEMMA WidthsAre == Widths \subseteq {1, 2, 4, 8, 16, 32}
BY WidthsAssumption DEF THREADS_PER_LANE

LEMMA WarpsShareItems ==
  ASSUME width \in Widths
  PROVE  /\ \A u \in Warps : Items(u) \subseteq Threads
         /\ \A t \in Threads : \E u \in Warps : t \in Items(u)
         /\ \A u, v \in Warps : u # v => Items(u) \cap Items(v) = {}
<1> USE DEF Threads, Warps, Items, THREADS_PER_LANE
<1>1. ASSUME NEW w \in {1, 2, 4, 8, 16, 32}, width = w
      PROVE  /\ \A u \in Warps : Items(u) \subseteq Threads
             /\ \A t \in Threads : t \div width \in Warps /\ t \in Items(t \div width)
             /\ \A u, v \in Warps : u # v => Items(u) \cap Items(v) = {}
  BY <1>1
<1> QED
  BY <1>1, WidthsAre

LEMMA SourcesAreItems ==
  ASSUME NEW op \in Ops, op.kind # "g", NEW t \in Threads
  PROVE  Source(op, t) \in Threads
<1> USE DEF Threads, THREADS_PER_LANE, QWORDS_PER_THREAD, Ops
<1>1. \A n \in Nat, b \in {0, 1, 4} : Bit(n, b) \in {0, 1}
  BY DEF Bit
<1>2. \A x, y \in Nat : Xor(x, y) \in 0..3
  <2> SUFFICES ASSUME NEW x \in Nat, NEW y \in Nat PROVE Xor(x, y) \in 0..3
    OBVIOUS
  <2>1. \A a, b \in {0, 1} : (a + b) % 2 \in {0, 1}
    OBVIOUS
  <2>2. (Bit(x, 1) + Bit(y, 1)) % 2 \in {0, 1} /\ (Bit(x, 0) + Bit(y, 0)) % 2 \in {0, 1}
    BY <1>1, <2>1
  <2> QED
    BY <2>2 DEF Xor
<1>3. \A i \in Nat : apply_shuffle_shift1(t, i) \in Threads
  BY DEF apply_shuffle_shift1
<1>4. \A i \in Nat : apply_shuffle_shift2(t, i) \in Threads
  <2> SUFFICES ASSUME NEW i \in Nat PROVE apply_shuffle_shift2(t, i) \in Threads
    OBVIOUS
  <2> DEFINE lo == (Bit(t, 0) + 2 * Bit(t, 4) + i) % 4
  <2>1. lo \in 0..3
    BY <1>1
  <2> HIDE DEF lo
  <2>2. Bit(lo, 1) \in {0, 1} /\ Bit(lo, 0) \in {0, 1}
    BY <1>1, <2>1
  <2>3. 16 * Bit(lo, 1) + 2 * ((t \div 2) % 8) + Bit(lo, 0) \in Threads
    BY <2>2
  <2> QED
    BY <2>3 DEF apply_shuffle_shift2, lo
<1>5. op.i \in Nat /\ Unshift(op.i) \in Nat
  BY DEF Unshift
<1>6. CASE op.kind = "broadcast"
  BY <1>6 DEF Source
<1>7. CASE op.kind = "transpose"
  <2>1. Xor((t \div 4) % 4, op.i) \in 0..3
    BY <1>2
  <2>2. \A x \in 0..3 : 16 * (t \div 16) + 4 * x + (t % 4) \in Threads
    OBVIOUS
  <2> QED
    BY <1>7, <2>1, <2>2 DEF Source
<1>8. CASE op.kind \in {"shift1", "unshift1"}
  BY <1>3, <1>5, <1>8 DEF Source
<1>9. CASE op.kind \in {"shift2", "unshift2"}
  BY <1>4, <1>5, <1>9 DEF Source
<1> QED
  BY <1>6, <1>7, <1>8, <1>9 DEF Kinds

-----------------------------------------------------------------------------
Shuffles == {k \in 1..Len(Program) : Program[k].kind # "g"}

LEMMA OpsAre == \A k \in 1..27 : Program[k] = OpAt(k)
BY ProgramIs DEF Spells

LEMMA ShufflesAre ==
  /\ Len(Program) = 27
  /\ Shuffles = (1..27) \ {5, 10, 18, 23}
  /\ \A k \in 1..27 : Program[k] \in Ops
<1>1. Program \in Seq(Ops) /\ Len(Program) = 27
  BY ProgramIs DEF Spells
<1>2. \A k \in 1..27 : OpAt(k).kind = "g" <=> k \in {5, 10, 18, 23}
  BY DEF OpAt
<1>3. \A s \in Seq(Ops) : \A k \in 1..Len(s) : s[k] \in Ops
  OBVIOUS
<1>4. \A k \in 1..27 : Program[k] \in Ops
  BY <1>1, <1>3
<1> QED
  BY <1>1, <1>2, <1>4, OpsAre DEF Shuffles

(* The shuffle before operation k, 0 if there is none. *)
LastShuffle(k) == IF k - 1 \in Shuffles \cup {0} THEN k - 1 ELSE k - 2

ShufTypes ==
  /\ width \in Widths
  /\ at \in [Warps -> 1..(Len(Program) + 1)]
  /\ arrived \in [Warps -> BOOLEAN]
  /\ \A u \in Warps : arrived[u] => at[u] \in Shuffles

(* No warp has left a shuffle before every warp has come to it. *)
Together ==
  \A u, v \in Warps, k \in Shuffles :
    at[u] > k => at[v] > k \/ (at[v] = k /\ arrived[v])

(* A warp's slots hold what it wrote for the last shuffle it came to. *)
SlotsWritten ==
  \A u \in Warps : \A t \in Items(u) :
    buf[t].op = IF arrived[u] THEN at[u] ELSE LastShuffle(at[u])

ShufInv == ShufTypes /\ Together /\ SlotsWritten

LEMMA ShufInitInv == ShufInit => ShufInv
<1> SUFFICES ASSUME ShufInit PROVE ShufInv
  OBVIOUS
<1> USE ShufflesAre DEF ShufInit
<1>1. ShufTypes
  BY DEF ShufTypes
<1>2. Together
  BY DEF Together
<1>3. SlotsWritten
  <2>1. \A u \in Warps : Items(u) \subseteq Threads
    BY WarpsShareItems
  <2> QED
    BY <2>1 DEF SlotsWritten, LastShuffle
<1> QED
  BY <1>1, <1>2, <1>3 DEF ShufInv

LEMMA MixKeepsShufInv ==
  ASSUME ShufInv, NEW u \in Warps, Mix(u)
  PROVE  ShufInv'
<1> USE ShufflesAre DEF Mix, Running, Op, ShufInv, ShufTypes
<1>1. at[u] \in 1..27 /\ at[u] \notin Shuffles /\ ~arrived[u]
  BY DEF Shuffles
<1>2. Warps' = Warps /\ \A v \in Warps : Items(v)' = Items(v)
  BY DEF Warps, Items
<1>3. ShufTypes'
  BY <1>1, <1>2
<1>4. Together'
  BY <1>1, <1>2 DEF Together
<1>5. SlotsWritten'
  BY <1>1, <1>2 DEF SlotsWritten, LastShuffle
<1> QED
  BY <1>3, <1>4, <1>5

LEMMA WriteKeepsShufInv ==
  ASSUME ShufInv, NEW u \in Warps, Write(u)
  PROVE  ShufInv'
<1> USE ShufflesAre DEF Write, Running, Op, ShufInv, ShufTypes
<1>1. at[u] \in Shuffles
  BY DEF Shuffles
<1>2. Warps' = Warps /\ \A v \in Warps : Items(v)' = Items(v)
  BY DEF Warps, Items
<1>3. ShufTypes'
  BY <1>1, <1>2
<1>4. Together'
  BY <1>1, <1>2 DEF Together
<1>5. SlotsWritten'
  <2> SUFFICES ASSUME NEW v \in Warps, NEW t \in Items(v)
               PROVE  buf'[t].op = IF arrived'[v] THEN at[v] ELSE LastShuffle(at[v])
    BY <1>2 DEF SlotsWritten, LastShuffle
  <2>1. t \in Threads
    BY WarpsShareItems
  <2>2. CASE v = u
    BY <2>1, <2>2
  <2>3. CASE v # u
    <3>1. t \notin Items(u)
      BY <2>3, WarpsShareItems
    <3> QED
      BY <2>1, <2>3, <3>1 DEF SlotsWritten
  <2> QED
    BY <2>2, <2>3
<1> QED
  BY <1>3, <1>4, <1>5

LEMMA ReadKeepsShufInv ==
  ASSUME ShufInv, NEW u \in Warps, Read(u)
  PROVE  ShufInv'
<1> USE ShufflesAre DEF Read, Running, Op, ShufInv, ShufTypes
<1>1. at[u] \in Shuffles
  OBVIOUS
<1>2. Warps' = Warps /\ \A v \in Warps : Items(v)' = Items(v)
  BY DEF Warps, Items
<1>3. ShufTypes'
  BY <1>1, <1>2
<1>4. Together'
  BY <1>1, <1>2 DEF Together, BarrierOpen
<1>5. SlotsWritten'
  BY <1>1, <1>2 DEF SlotsWritten, LastShuffle
<1> QED
  BY <1>3, <1>4, <1>5

LEMMA ShufInvHolds == ShufSpec => []ShufInv
<1>1. ASSUME ShufInv, UNCHANGED shufVars PROVE ShufInv'
  BY <1>1 DEF ShufInv, ShufTypes, Together, SlotsWritten, LastShuffle, Warps, Items,
              shufVars
<1>2. ShufInv /\ [WarpStep]_shufVars => ShufInv'
  BY <1>1, MixKeepsShufInv, WriteKeepsShufInv, ReadKeepsShufInv DEF WarpStep
<1> QED
  BY <1>2, ShufInitInv, PTL DEF ShufSpec

(* One barrier in each shuffle keeps the warps within one shuffle of each  *)
(* other, however many there are: an item reads what was written for this  *)
(* shuffle, or for the next one, and that only by another warp             *)
(* (_kernel.h 1313-1324).                                                  *)
THEOREM ReadsAreThisOrNext == ShufSpec => []ReadsThisOrNext
<1>1. ShufInv => ReadsThisOrNext
  <2> SUFFICES ASSUME ShufInv, NEW u \in Warps, Running(u), arrived[u], BarrierOpen(u),
                      NEW t \in Items(u)
               PROVE  LET src == Source(Op(u), t)
                      IN  \/ buf[src].op = at[u]
                          \/ /\ src \notin Items(u)
                             /\ at[u] < Len(Program)
                             /\ buf[src].op = NextShuffle(at[u])
    BY DEF ReadsThisOrNext
  <2> DEFINE src == Source(Op(u), t)
  <2> USE ShufflesAre DEF ShufInv, ShufTypes
  <2>1. at[u] \in Shuffles /\ Op(u) \in Ops /\ Op(u).kind # "g"
    BY DEF Op, Shuffles
  <2>2. t \in Threads
    BY WarpsShareItems
  <2>3. src \in Threads
    BY <2>1, <2>2, SourcesAreItems
  <2> HIDE DEF src
  <2>4. PICK v \in Warps : src \in Items(v)
    BY <2>3, WarpsShareItems
  <2>5. CASE v = u
    BY <2>4, <2>5 DEF SlotsWritten, src
  <2>6. CASE v # u
    <3>1. src \notin Items(u)
      BY <2>4, <2>6, WarpsShareItems
    <3>2. \/ at[v] = at[u] /\ arrived[v]
          \/ at[v] > at[u]
      BY DEF BarrierOpen
    <3>3. ASSUME at[v] > at[u]
          PROVE  \/ buf[src].op = at[u]
                 \/ at[u] < Len(Program) /\ buf[src].op = NextShuffle(at[u])
      <4>1. at[v] \in 1..28 /\ LastShuffle(at[v]) \in Shuffles
        BY <3>3 DEF LastShuffle
      <4>2. at[v] > LastShuffle(at[v])
        BY <4>1 DEF LastShuffle
      <4>3. at[u] >= LastShuffle(at[v])
        BY <4>1, <4>2 DEF Together
      <4>4. LastShuffle(at[v]) = at[u]
        BY <2>1, <3>3, <4>1, <4>3 DEF LastShuffle
      <4>5. CASE ~arrived[v]
        BY <2>4, <4>4, <4>5 DEF SlotsWritten
      <4>6. CASE arrived[v]
        <5>1. at[v] \in Shuffles /\ at[u] < 27
          BY <3>3, <4>6
        <5>2. Program[at[u] + 1].kind = "g" <=> at[u] + 1 \notin Shuffles
          BY <5>1 DEF Shuffles
        <5>3. at[v] = NextShuffle(at[u])
          BY <2>1, <4>4, <5>1, <5>2 DEF LastShuffle, NextShuffle
        <5> QED
          BY <2>4, <4>6, <5>1, <5>3 DEF SlotsWritten
      <4> QED
        BY <4>5, <4>6
    <3> QED
      BY <2>4, <3>1, <3>2, <3>3 DEF SlotsWritten, src
  <2> QED
    BY <2>5, <2>6
<1> QED
  BY <1>1, ShufInvHolds, PTL

-----------------------------------------------------------------------------
(* Where the 32 items are one warp, a step is a sequential program: its    *)
(* place gives what every register holds and what has been mixed.          *)

(* The words the items hold when they mix, besides Loaded: a row of the    *)
(* block to four items, its diagonals, and the diagonals of the pairs.     *)
Fours(t) == (t \div 4) % 4

Layouts  == [Threads -> [Registers -> Int]]
ByRow    == [t \in Threads |-> [r \in Registers |->
               32 * Fours(t) + 16 * (t \div 16) + 4 * r + (t % 4)]]
Turned1  == [t \in Threads |-> [r \in Registers |-> ByRow[apply_shuffle_shift1(t, r)][r]]]
Turned2  == [t \in Threads |-> [r \in Registers |-> Loaded[apply_shuffle_shift2(t, r)][r]]]

(* From the words A to the words B, when n shuffles are done. *)
Transposed(A, B, n) == [t \in Threads |-> [r \in Registers |->
                          IF Xor(Fours(t), r) <= n THEN B[t][r] ELSE A[t][r]]]
Shifted(A, B, n)    == [t \in Threads |-> [r \in Registers |->
                          IF r < n THEN B[t][r] ELSE A[t][r]]]

(* What the registers hold before operation k. *)
Layout(k) ==
  IF k = 1       THEN Loaded
  ELSE IF k < 6  THEN Transposed(Loaded, ByRow, k - 2)
  ELSE IF k < 11 THEN Shifted(ByRow, Turned1, k - 6)
  ELSE IF k < 15 THEN Shifted(Turned1, ByRow, k - 11)
  ELSE IF k < 19 THEN Transposed(ByRow, Loaded, k - 15)
  ELSE IF k < 24 THEN Shifted(Loaded, Turned2, k - 19)
  ELSE                Shifted(Turned2, Loaded, k - 24)

MixAt == <<5, 10, 18, 23>>

LEMMA XorIs ==
  ASSUME NEW x \in 0..3, NEW y \in 0..3
  PROVE  /\ Xor(x, y) \in 0..3
         /\ Xor(x, Xor(x, y)) = y
         /\ Xor(x, y) = Xor(y, x)
         /\ Xor(x, y) = 0 <=> x = y
<1>1. \A n \in 0..3 : Bit(n, 0) = n % 2 /\ Bit(n, 1) = n \div 2
  BY DEF Bit
<1>2. \A n, m \in 0..3 :
        Xor(n, m) = 2 * (((n \div 2) + (m \div 2)) % 2) + (((n % 2) + (m % 2)) % 2)
  BY <1>1 DEF Xor
<1>3. Xor(x, y) \in 0..3
  BY <1>2
<1>4. CASE x = 0
  BY <1>2, <1>3, <1>4
<1>5. CASE x = 1
  BY <1>2, <1>3, <1>5
<1>6. CASE x = 2
  BY <1>2, <1>3, <1>6
<1>7. CASE x = 3
  BY <1>2, <1>3, <1>7
<1> QED
  BY <1>4, <1>5, <1>6, <1>7

(* A thread by its half, its four and its place in the four; and by its    *)
(* half, its pair and its place in the pair.                               *)
LEMMA ThreadsByFours ==
  /\ \A t \in Threads : /\ t \div 16 \in 0..1 /\ Fours(t) \in 0..3 /\ t % 4 \in 0..3
                        /\ t = 16 * (t \div 16) + 4 * Fours(t) + (t % 4)
  /\ \A h \in 0..1, x, l \in 0..3 :
       LET t == 16 * h + 4 * x + l
       IN  t \in Threads /\ t \div 16 = h /\ Fours(t) = x /\ t % 4 = l
BY DEF Threads, THREADS_PER_LANE, Fours

LEMMA ThreadsByPairs ==
  /\ \A t \in Threads : /\ Bit(t, 4) \in 0..1 /\ (t \div 2) % 8 \in 0..7 /\ Bit(t, 0) \in 0..1
                        /\ t = 16 * Bit(t, 4) + 2 * ((t \div 2) % 8) + Bit(t, 0)
  /\ \A h, b \in 0..1, n \in 0..7 :
       LET t == 16 * h + 2 * n + b
       IN  t \in Threads /\ Bit(t, 4) = h /\ (t \div 2) % 8 = n /\ Bit(t, 0) = b
BY DEF Threads, THREADS_PER_LANE, Bit

TurnsBack(a, i) == (((a + Unshift(i)) % 4) + i) % 4 = a % 4

LEMMA TurnedBack ==
  ASSUME NEW i \in Registers
  PROVE  /\ Unshift(i) \in Registers
         /\ \A a \in Nat : TurnsBack(a, i)
<1> USE DEF Registers, QWORDS_PER_THREAD, Unshift, TurnsBack
<1>1. CASE i = 0
  BY <1>1
<1>2. CASE i = 1
  BY <1>2
<1>3. CASE i = 2
  BY <1>3
<1>4. CASE i = 3
  BY <1>4
<1> QED
  BY <1>1, <1>2, <1>3, <1>4

LEMMA ShiftsUndone ==
  ASSUME NEW t \in Threads, NEW i \in Registers
  PROVE  /\ Unshift(i) \in Registers
         /\ apply_shuffle_shift1(t, i) \in Threads
         /\ apply_shuffle_shift2(t, i) \in Threads
         /\ apply_shuffle_shift1(apply_shuffle_shift1(t, Unshift(i)), i) = t
         /\ apply_shuffle_shift2(apply_shuffle_shift2(t, Unshift(i)), i) = t
<1> USE DEF Registers, QWORDS_PER_THREAD
<1>1. /\ Unshift(i) \in 0..3
      /\ \A a \in Nat : TurnsBack(a, i)
  BY TurnedBack
<1>2. \A s \in Threads, j \in 0..3 :
        /\ apply_shuffle_shift1(s, j) \in Threads
        /\ apply_shuffle_shift1(s, j) \div 4 = s \div 4
        /\ apply_shuffle_shift1(s, j) % 4 = (s + j) % 4
  BY DEF apply_shuffle_shift1, Threads, THREADS_PER_LANE
<1>3. apply_shuffle_shift1(apply_shuffle_shift1(t, Unshift(i)), i) = t
  <2> DEFINE s == apply_shuffle_shift1(t, Unshift(i))
  <2>1. s \in Threads /\ s \div 4 = t \div 4 /\ s % 4 = (t + Unshift(i)) % 4
    BY <1>1, <1>2
  <2> HIDE DEF s
  <2>2. (s + i) % 4 = t % 4
    <3>1. (s + i) % 4 = ((s % 4) + i) % 4
      BY <2>1 DEF Threads, THREADS_PER_LANE
    <3>2. t \in Nat
      BY DEF Threads, THREADS_PER_LANE
    <3>3. TurnsBack(t, i)
      BY <1>1, <3>2
    <3> QED
      BY <2>1, <3>1, <3>3 DEF TurnsBack
  <2>3. apply_shuffle_shift1(s, i) = 4 * (t \div 4) + (t % 4)
    BY <2>1, <2>2 DEF apply_shuffle_shift1
  <2>4. apply_shuffle_shift1(s, i) = t
    BY <2>3 DEF Threads, THREADS_PER_LANE
  <2> QED
    BY <2>4 DEF s
<1>4. \A n \in 0..3 : Bit(n, 0) \in 0..1 /\ Bit(n, 1) \in 0..1 /\ n = Bit(n, 0) + 2 * Bit(n, 1)
  BY DEF Bit
<1> DEFINE low(s) == Bit(s, 0) + 2 * Bit(s, 4)
<1>5. \A s \in Threads : low(s) \in 0..3
  BY ThreadsByPairs
<1>6. \A s \in Threads, j \in 0..3 :
        /\ apply_shuffle_shift2(s, j) \in Threads
        /\ (apply_shuffle_shift2(s, j) \div 2) % 8 = (s \div 2) % 8
        /\ low(apply_shuffle_shift2(s, j)) = (low(s) + j) % 4
  <2> SUFFICES ASSUME NEW s \in Threads, NEW j \in 0..3
               PROVE  /\ apply_shuffle_shift2(s, j) \in Threads
                      /\ (apply_shuffle_shift2(s, j) \div 2) % 8 = (s \div 2) % 8
                      /\ low(apply_shuffle_shift2(s, j)) = (low(s) + j) % 4
    OBVIOUS
  <2> DEFINE lo == (low(s) + j) % 4
             m  == (s \div 2) % 8
  <2>1. lo \in 0..3 /\ m \in 0..7
    BY <1>5, ThreadsByPairs
  <2>2. apply_shuffle_shift2(s, j) = 16 * Bit(lo, 1) + 2 * m + Bit(lo, 0)
    BY DEF apply_shuffle_shift2
  <2> HIDE DEF lo, m
  <2>3. /\ apply_shuffle_shift2(s, j) \in Threads
        /\ (apply_shuffle_shift2(s, j) \div 2) % 8 = m
        /\ Bit(apply_shuffle_shift2(s, j), 4) = Bit(lo, 1)
        /\ Bit(apply_shuffle_shift2(s, j), 0) = Bit(lo, 0)
    BY <1>4, <2>1, <2>2, ThreadsByPairs
  <2> QED
    BY <1>4, <2>1, <2>3 DEF lo, m
<1>7. apply_shuffle_shift2(apply_shuffle_shift2(t, Unshift(i)), i) = t
  <2> DEFINE s == apply_shuffle_shift2(t, Unshift(i))
             r == apply_shuffle_shift2(s, i)
  <2>1. s \in Threads /\ (s \div 2) % 8 = (t \div 2) % 8 /\ low(s) = (low(t) + Unshift(i)) % 4
    BY <1>1, <1>6
  <2> HIDE DEF s
  <2>2. r \in Threads /\ (r \div 2) % 8 = (t \div 2) % 8 /\ low(r) = (low(s) + i) % 4
    BY <1>6, <2>1
  <2> HIDE DEF r, low
  <2>3. low(r) = low(t)
    <3>1. low(t) \in 0..3
      BY <1>5
    <3>2. TurnsBack(low(t), i)
      BY <1>1, <3>1
    <3>3. low(r) = low(t) % 4
      BY <2>1, <2>2, <3>2 DEF TurnsBack
    <3> QED
      BY <3>1, <3>3
  <2>4. Bit(r, 0) = Bit(t, 0) /\ Bit(r, 4) = Bit(t, 4)
    BY <2>2, <2>3, ThreadsByPairs DEF low
  <2>5. r = t
    BY <2>2, <2>4, ThreadsByPairs
  <2> QED
    BY <2>5 DEF r, s
<1>8. i \in 0..3
  OBVIOUS
<1>9. apply_shuffle_shift1(t, i) \in Threads /\ apply_shuffle_shift2(t, i) \in Threads
  BY <1>2, <1>6, <1>8
<1>10. Unshift(i) \in Registers
  BY <1>1
<1> QED
  BY <1>3, <1>7, <1>9, <1>10

(* From the words A to the words B by one shuffle.                         *)
Moves(A, B, op) ==
  \A t \in Threads, r \in Registers :
    B[t][r] = IF r = Register(op, t) THEN A[Source(op, t)][Register(op, Source(op, t))]
                                     ELSE A[t][r]

LEMMA HalfWaysAreLayouts ==
  ASSUME NEW A \in Layouts, NEW B \in Layouts, NEW n \in Int
  PROVE  /\ Transposed(A, B, n) \in Layouts /\ Shifted(A, B, n) \in Layouts
         /\ \A t \in Threads, r \in Registers :
              /\ Transposed(A, B, n)[t][r] =
                   IF Xor(Fours(t), r) <= n THEN B[t][r] ELSE A[t][r]
              /\ Shifted(A, B, n)[t][r] = IF r < n THEN B[t][r] ELSE A[t][r]
BY DEF Layouts, Transposed, Shifted

LEMMA SameLayout ==
  ASSUME NEW A \in Layouts, NEW B \in Layouts,
         \A t \in Threads, r \in Registers : A[t][r] = B[t][r]
  PROVE  A = B
<1>1. \A t \in Threads : A[t] \in [Registers -> Int] /\ B[t] \in [Registers -> Int]
  BY DEF Layouts
<1>2. \A t \in Threads : A[t] = B[t]
  BY <1>1
<1> QED
  BY <1>2 DEF Layouts

(* Where the shuffles of a kind begin and end. *)
LEMMA HalfWaysBeginAndEnd ==
  ASSUME NEW A \in Layouts, NEW B \in Layouts
  PROVE  /\ (\A t \in Threads : A[t][Fours(t)] = B[t][Fours(t)]) => Transposed(A, B, 0) = A
         /\ Transposed(A, B, 3) = B
         /\ Shifted(A, B, 0) = A
         /\ Shifted(A, B, 4) = B
<1> USE DEF Registers, QWORDS_PER_THREAD
<1>1. \A t \in Threads : Fours(t) \in 0..3
  BY ThreadsByFours
<1>2. \A t \in Threads, r \in Registers :
        Xor(Fours(t), r) \in 0..3 /\ (Xor(Fours(t), r) <= 0 => r = Fours(t))
  BY <1>1, XorIs
<1>3. ASSUME \A t \in Threads : A[t][Fours(t)] = B[t][Fours(t)]
      PROVE  Transposed(A, B, 0) = A
  <2> DEFINE C == Transposed(A, B, 0)
  <2>1. /\ C \in Layouts
        /\ \A t \in Threads, r \in Registers :
             C[t][r] = IF Xor(Fours(t), r) <= 0 THEN B[t][r] ELSE A[t][r]
    BY HalfWaysAreLayouts
  <2> HIDE DEF C
  <2>2. \A t \in Threads, r \in Registers : C[t][r] = A[t][r]
    BY <1>2, <1>3, <2>1
  <2>3. C = A
    BY <2>1, <2>2, SameLayout
  <2> QED
    BY <2>3 DEF C
<1>4. Transposed(A, B, 3) = B
  <2> DEFINE C == Transposed(A, B, 3)
  <2>1. /\ C \in Layouts
        /\ \A t \in Threads, r \in Registers :
             C[t][r] = IF Xor(Fours(t), r) <= 3 THEN B[t][r] ELSE A[t][r]
    BY HalfWaysAreLayouts
  <2> HIDE DEF C
  <2>2. \A t \in Threads, r \in Registers : C[t][r] = B[t][r]
    BY <1>2, <2>1
  <2>3. C = B
    BY <2>1, <2>2, SameLayout
  <2> QED
    BY <2>3 DEF C
<1>5. Shifted(A, B, 0) = A
  BY HalfWaysAreLayouts, SameLayout
<1>6. Shifted(A, B, 4) = B
  BY HalfWaysAreLayouts, SameLayout
<1> QED
  BY <1>3, <1>4, <1>5, <1>6

(* The words A and B meet in a shift: B is A read at its sources. *)
Meets(A, B, op, t) == Source(op, t) \in Threads /\ B[t][op.i] = A[Source(op, t)][op.i]

LEMMA ShiftMoves ==
  ASSUME NEW A \in Layouts, NEW B \in Layouts, NEW op \in Ops, op.i \in Registers,
         op.kind \in {"shift1", "unshift1", "shift2", "unshift2"},
         \A t \in Threads : Meets(A, B, op, t)
  PROVE  Moves(Shifted(A, B, op.i), Shifted(A, B, op.i + 1), op)
<1> DEFINE n == op.i
           C == Shifted(A, B, n)
           D == Shifted(A, B, n + 1)
<1>1. n \in 0..3 /\ \A t : Register(op, t) = n
  BY DEF Register, Registers, QWORDS_PER_THREAD
<1>2. /\ \A t \in Threads, r \in Registers : C[t][r] = IF r < n THEN B[t][r] ELSE A[t][r]
      /\ \A t \in Threads, r \in Registers :
           D[t][r] = IF r < n + 1 THEN B[t][r] ELSE A[t][r]
  <2> DEFINE m == n + 1
  <2>1. n \in Int /\ m \in Int
    BY <1>1
  <2> HIDE DEF n, m
  <2>2. \A t \in Threads, r \in Registers :
          Shifted(A, B, n)[t][r] = IF r < n THEN B[t][r] ELSE A[t][r]
    BY <2>1, HalfWaysAreLayouts
  <2>3. \A t \in Threads, r \in Registers :
          Shifted(A, B, m)[t][r] = IF r < m THEN B[t][r] ELSE A[t][r]
    BY <2>1, HalfWaysAreLayouts
  <2> QED
    BY <2>2, <2>3 DEF m
<1> HIDE DEF C, D
<1> SUFFICES ASSUME NEW t \in Threads, NEW r \in Registers
             PROVE  D[t][r] = IF r = n THEN C[Source(op, t)][n] ELSE C[t][r]
  BY <1>1 DEF Moves, C, D
<1>3. CASE r = n
  BY <1>1, <1>2, <1>3 DEF Meets
<1>4. CASE r # n
  <2>1. r < n + 1 <=> r < n
    BY <1>1, <1>4 DEF Registers, QWORDS_PER_THREAD
  <2> QED
    BY <1>2, <1>4, <2>1
<1> QED
  BY <1>3, <1>4

TransposeSource(t, i) == 16 * (t \div 16) + 4 * Xor(Fours(t), i) + (t % 4)

LEMMA TransposeSourceIs ==
  ASSUME NEW t \in Threads, NEW i \in 0..3
  PROVE  LET s == TransposeSource(t, i)
         IN  /\ s \in Threads /\ s \div 16 = t \div 16 /\ s % 4 = t % 4
             /\ Fours(s) = Xor(Fours(t), i) /\ Xor(Fours(s), i) = Fours(t)
             /\ Xor(Fours(s), Fours(t)) = i
<1> DEFINE x == Fours(t)
           y == Xor(x, i)
<1>1. t \div 16 \in 0..1 /\ x \in 0..3 /\ t % 4 \in 0..3
  BY ThreadsByFours
<1>2. y \in 0..3 /\ Xor(y, i) = x /\ Xor(y, x) = i
  <2> HIDE DEF x
  <2>1. y \in 0..3 /\ Xor(x, y) = i /\ Xor(i, x) = y
    BY <1>1, XorIs
  <2>2. Xor(i, y) = x
    BY <1>1, <2>1, XorIs
  <2> QED
    BY <1>1, <2>1, <2>2, XorIs
<1> HIDE DEF x, y
<1>3. LET s == 16 * (t \div 16) + 4 * y + (t % 4)
      IN  s \in Threads /\ s \div 16 = t \div 16 /\ Fours(s) = y /\ s % 4 = t % 4
  BY <1>1, <1>2, ThreadsByFours
<1> QED
  BY <1>2, <1>3 DEF TransposeSource, x, y

LEMMA TransposeMoves ==
  ASSUME NEW A \in Layouts, NEW B \in Layouts, NEW i \in 1..3,
         \A t \in Threads :
           B[t][Xor(Fours(t), i)] = A[TransposeSource(t, i)][Fours(t)]
  PROVE  Moves(Transposed(A, B, i - 1), Transposed(A, B, i), [kind |-> "transpose", i |-> i])
<1> DEFINE C  == Transposed(A, B, i - 1)
           D  == Transposed(A, B, i)
           op == [kind |-> "transpose", i |-> i]
<1>1. /\ \A t \in Threads, r \in Registers :
           C[t][r] = IF Xor(Fours(t), r) <= i - 1 THEN B[t][r] ELSE A[t][r]
      /\ \A t \in Threads, r \in Registers :
           D[t][r] = IF Xor(Fours(t), r) <= i THEN B[t][r] ELSE A[t][r]
  <2> DEFINE m == i - 1
  <2>1. i \in Int /\ m \in Int
    OBVIOUS
  <2> HIDE DEF m
  <2>2. \A t \in Threads, r \in Registers :
          Transposed(A, B, i)[t][r] = IF Xor(Fours(t), r) <= i THEN B[t][r] ELSE A[t][r]
    BY <2>1, HalfWaysAreLayouts
  <2>3. \A t \in Threads, r \in Registers :
          Transposed(A, B, m)[t][r] = IF Xor(Fours(t), r) <= m THEN B[t][r] ELSE A[t][r]
    BY <2>1, HalfWaysAreLayouts
  <2> QED
    BY <2>2, <2>3 DEF m
<1>2. \A t : Source(op, t) = TransposeSource(t, i) /\ Register(op, t) = Xor(Fours(t), i)
  <2>1. op.kind = "transpose" /\ op.i = i
    OBVIOUS
  <2> HIDE DEF op
  <2> QED
    BY <2>1 DEF Source, Register, TransposeSource, Fours
<1> HIDE DEF C, D, op
<1> SUFFICES ASSUME NEW t \in Threads, NEW r \in Registers
             PROVE  D[t][r] = IF r = Xor(Fours(t), i)
                                THEN C[TransposeSource(t, i)][Xor(Fours(TransposeSource(t, i)), i)]
                                ELSE C[t][r]
  BY <1>2 DEF Moves, C, D, op
<1> DEFINE s == TransposeSource(t, i)
           x == Fours(t)
<1>3. /\ s \in Threads /\ x \in 0..3 /\ x \in Registers /\ r \in 0..3
      /\ Xor(Fours(s), i) = x /\ Xor(Fours(s), x) = i
  BY TransposeSourceIs, ThreadsByFours DEF Registers, QWORDS_PER_THREAD
<1>4. B[t][Xor(x, i)] = A[s][x]
  OBVIOUS
<1>5. Xor(x, Xor(x, i)) = i /\ Xor(x, r) \in 0..3 /\ Xor(x, Xor(x, r)) = r
  <2> HIDE DEF x
  <2> QED
    BY <1>3, XorIs
<1>6. CASE r = Xor(x, i)
  <2>1. D[t][r] = B[t][r]
    BY <1>1, <1>5, <1>6
  <2>2. C[s][x] = A[s][x]
    BY <1>1, <1>3
  <2> QED
    BY <1>3, <1>4, <1>6, <2>1, <2>2
<1>7. CASE r # Xor(x, i)
  <2>1. Xor(x, r) # i
    BY <1>5, <1>7
  <2>2. Xor(x, r) <= i <=> Xor(x, r) <= i - 1
    BY <1>5, <2>1
  <2> QED
    BY <1>1, <1>7, <2>2
<1> QED
  BY <1>6, <1>7

LEMMA WordsOfLayouts ==
  /\ {Loaded, ByRow, Turned1, Turned2} \subseteq Layouts
  /\ \A t \in Threads, r \in Registers :
       /\ Loaded[t][r] = 32 * r + t
       /\ ByRow[t][r] = 32 * Fours(t) + 16 * (t \div 16) + 4 * r + (t % 4)
       /\ Turned1[t][r] = ByRow[apply_shuffle_shift1(t, r)][r]
       /\ Turned2[t][r] = Loaded[apply_shuffle_shift2(t, r)][r]
<1>1. Loaded \in Layouts /\ \A t \in Threads, r \in Registers : Loaded[t][r] = 32 * r + t
  BY DEF Loaded, Layouts, Threads, Registers, THREADS_PER_LANE, QWORDS_PER_THREAD
<1>2. /\ ByRow \in Layouts
      /\ \A t \in Threads, r \in Registers :
           ByRow[t][r] = 32 * Fours(t) + 16 * (t \div 16) + 4 * r + (t % 4)
  <2>1. \A t \in Threads, r \in Registers :
          32 * Fours(t) + 16 * (t \div 16) + 4 * r + (t % 4) \in Int
    BY ThreadsByFours DEF Registers, QWORDS_PER_THREAD
  <2> QED
    BY <2>1 DEF ByRow, Layouts
<1>3. \A t \in Threads, r \in Registers :
        apply_shuffle_shift1(t, r) \in Threads /\ apply_shuffle_shift2(t, r) \in Threads
  BY ShiftsUndone
<1>4. \A A \in Layouts, t \in Threads, r \in Registers : A[t][r] \in Int
  BY DEF Layouts
<1>5. Turned1 \in Layouts /\ \A t \in Threads, r \in Registers :
        Turned1[t][r] = ByRow[apply_shuffle_shift1(t, r)][r]
  <2>1. \A t \in Threads, r \in Registers : ByRow[apply_shuffle_shift1(t, r)][r] \in Int
    BY <1>2, <1>3, <1>4
  <2> QED
    BY <2>1 DEF Turned1, Layouts
<1>6. Turned2 \in Layouts /\ \A t \in Threads, r \in Registers :
        Turned2[t][r] = Loaded[apply_shuffle_shift2(t, r)][r]
  <2>1. \A t \in Threads, r \in Registers : Loaded[apply_shuffle_shift2(t, r)][r] \in Int
    BY <1>1, <1>3, <1>4
  <2> QED
    BY <2>1 DEF Turned2, Layouts
<1> QED
  BY <1>1, <1>2, <1>5, <1>6

LEMMA TransposesMeet ==
  ASSUME NEW t \in Threads
  PROVE  /\ Loaded[t][Fours(t)] = ByRow[t][Fours(t)]
         /\ \A i \in 1..3 :
              /\ ByRow[t][Xor(Fours(t), i)] = Loaded[TransposeSource(t, i)][Fours(t)]
              /\ Loaded[t][Xor(Fours(t), i)] = ByRow[TransposeSource(t, i)][Fours(t)]
<1> DEFINE x == Fours(t)
<1>1. /\ x \in Registers /\ x \in 0..3 /\ t \in Int /\ t \div 16 \in Int /\ t % 4 \in Int
      /\ t = 16 * (t \div 16) + 4 * x + (t % 4)
  <2>1. t \in Int
    BY DEF Threads, THREADS_PER_LANE
  <2> QED
    BY <2>1, ThreadsByFours DEF Registers, QWORDS_PER_THREAD
<1>2. Loaded[t][x] = ByRow[t][x]
  BY <1>1, WordsOfLayouts
<1>3. ASSUME NEW i \in 1..3
      PROVE  /\ ByRow[t][Xor(x, i)] = Loaded[TransposeSource(t, i)][x]
             /\ Loaded[t][Xor(x, i)] = ByRow[TransposeSource(t, i)][x]
  <2> DEFINE s == TransposeSource(t, i)
             y == Xor(x, i)
  <2>1. /\ s \in Threads /\ s \div 16 = t \div 16 /\ s % 4 = t % 4 /\ Fours(s) = y
    BY TransposeSourceIs
  <2>2. s = 16 * (t \div 16) + 4 * y + (t % 4)
    BY DEF TransposeSource
  <2>3. y \in Registers /\ y \in 0..3
    <3> HIDE DEF x
    <3> QED
      BY <1>1, XorIs DEF Registers, QWORDS_PER_THREAD
  <2>4. /\ ByRow[t][y] = 32 * x + 16 * (t \div 16) + 4 * y + (t % 4)
        /\ Loaded[s][x] = 32 * x + s
        /\ Loaded[t][y] = 32 * y + t
        /\ ByRow[s][x] = 32 * Fours(s) + 16 * (s \div 16) + 4 * x + (s % 4)
    <3> HIDE DEF s, y
    <3> QED
      BY <1>1, <2>1, <2>3, WordsOfLayouts
  <2> HIDE DEF s, y, x
  <2> QED
    BY <1>1, <2>1, <2>2, <2>3, <2>4 DEF s, y, x
<1> QED
  BY <1>2, <1>3

LEMMA ShiftsMeet ==
  ASSUME NEW op, op.i \in Registers, NEW t \in Threads
  PROVE  /\ op.kind = "shift1"   => Meets(ByRow, Turned1, op, t)
         /\ op.kind = "unshift1" => Meets(Turned1, ByRow, op, t)
         /\ op.kind = "shift2"   => Meets(Loaded, Turned2, op, t)
         /\ op.kind = "unshift2" => Meets(Turned2, Loaded, op, t)
<1> DEFINE i == op.i
           s1 == apply_shuffle_shift1(t, i)
           u1 == apply_shuffle_shift1(t, Unshift(i))
           s2 == apply_shuffle_shift2(t, i)
           u2 == apply_shuffle_shift2(t, Unshift(i))
<1>1. /\ op.kind = "shift1"   => Source(op, t) = s1
      /\ op.kind = "unshift1" => Source(op, t) = u1
      /\ op.kind = "shift2"   => Source(op, t) = s2
      /\ op.kind = "unshift2" => Source(op, t) = u2
  BY DEF Source
<1>2. /\ s1 \in Threads /\ s2 \in Threads /\ u1 \in Threads /\ u2 \in Threads
      /\ apply_shuffle_shift1(u1, i) = t /\ apply_shuffle_shift2(u2, i) = t
  BY ShiftsUndone
<1> HIDE DEF s1, u1, s2, u2
<1>3. /\ Turned1[t][i] = ByRow[s1][i] /\ Turned2[t][i] = Loaded[s2][i]
      /\ Turned1[u1][i] = ByRow[t][i] /\ Turned2[u2][i] = Loaded[t][i]
  BY <1>2, WordsOfLayouts DEF s1, s2
<1> QED
  BY <1>1, <1>2, <1>3 DEF Meets

(* Before a mixing the shuffles ahead of it are done, and in the end all   *)
(* of them are undone.                                                     *)
LEMMA LayoutsAtMixes ==
  /\ Layout(1) = Loaded /\ Layout(2) = Loaded
  /\ Layout(5) = ByRow /\ Layout(6) = ByRow
  /\ Layout(10) = Turned1 /\ Layout(11) = Turned1
  /\ Layout(18) = Loaded /\ Layout(19) = Loaded
  /\ Layout(23) = Turned2 /\ Layout(24) = Turned2
  /\ Layout(28) = Loaded
  /\ Transposed(ByRow, Loaded, 0) = ByRow /\ Shifted(Turned1, ByRow, 4) = ByRow
<1>1. /\ Transposed(Loaded, ByRow, 0) = Loaded /\ Transposed(ByRow, Loaded, 0) = ByRow
      /\ Transposed(Loaded, ByRow, 3) = ByRow /\ Transposed(ByRow, Loaded, 3) = Loaded
  BY WordsOfLayouts, TransposesMeet, HalfWaysBeginAndEnd
<1>2. /\ Shifted(ByRow, Turned1, 0) = ByRow     /\ Shifted(ByRow, Turned1, 4) = Turned1
      /\ Shifted(Turned1, ByRow, 0) = Turned1   /\ Shifted(Turned1, ByRow, 4) = ByRow
      /\ Shifted(Loaded, Turned2, 0) = Loaded   /\ Shifted(Loaded, Turned2, 4) = Turned2
      /\ Shifted(Turned2, Loaded, 0) = Turned2  /\ Shifted(Turned2, Loaded, 4) = Loaded
  BY WordsOfLayouts, HalfWaysBeginAndEnd
<1> QED
  BY <1>1, <1>2 DEF Layout

(* Every shuffle takes the registers to the next layout. *)
LEMMA LayoutsMove ==
  ASSUME NEW k \in 2..27, Program[k].kind # "g"
  PROVE  Moves(Layout(k), Layout(k + 1), Program[k])
<1> DEFINE op == Program[k]
<1>1. op = OpAt(k) /\ op \in Ops /\ k \notin {5, 10, 18, 23}
  BY OpsAre, ShufflesAre DEF Shuffles
<1>2. op.i \in 0..3 => op.i \in Registers
  BY DEF Registers, QWORDS_PER_THREAD
<1> HIDE DEF op
<1>3. CASE k \in 2..4
  <2>1. /\ op = [kind |-> "transpose", i |-> k - 1] /\ k - 1 \in 1..3
        /\ Layout(k) = Transposed(Loaded, ByRow, (k - 1) - 1)
        /\ Layout(k + 1) = Transposed(Loaded, ByRow, k - 1)
    BY <1>1, <1>3 DEF OpAt, Layout
  <2> QED
    BY <2>1, WordsOfLayouts, TransposesMeet, TransposeMoves DEF op
<1>4. CASE k \in 6..9
  <2>1. /\ op.kind = "shift1" /\ op.i = k - 6 /\ k - 6 \in 0..3
        /\ Layout(k) = Shifted(ByRow, Turned1, op.i)
        /\ Layout(k + 1) = Shifted(ByRow, Turned1, op.i + 1)
    BY <1>1, <1>4 DEF OpAt, Layout
  <2>2. \A t \in Threads : Meets(ByRow, Turned1, op, t)
    BY <1>2, <2>1, ShiftsMeet
  <2> QED
    BY <1>1, <1>2, <2>1, <2>2, WordsOfLayouts, ShiftMoves DEF op
<1>5. CASE k \in 11..14
  <2>1. /\ op.kind = "unshift1" /\ op.i = k - 11 /\ k - 11 \in 0..3
        /\ Layout(k) = Shifted(Turned1, ByRow, op.i)
        /\ Layout(k + 1) = Shifted(Turned1, ByRow, op.i + 1)
    BY <1>1, <1>5, LayoutsAtMixes DEF OpAt, Layout
  <2>2. \A t \in Threads : Meets(Turned1, ByRow, op, t)
    BY <1>2, <2>1, ShiftsMeet
  <2> QED
    BY <1>1, <1>2, <2>1, <2>2, WordsOfLayouts, ShiftMoves DEF op
<1>6. CASE k \in 15..17
  <2>1. /\ op = [kind |-> "transpose", i |-> k - 14] /\ k - 14 \in 1..3
        /\ Layout(k) = Transposed(ByRow, Loaded, (k - 14) - 1)
        /\ Layout(k + 1) = Transposed(ByRow, Loaded, k - 14)
    BY <1>1, <1>6 DEF OpAt, Layout
  <2> QED
    BY <2>1, WordsOfLayouts, TransposesMeet, TransposeMoves DEF op
<1>7. CASE k \in 19..22
  <2>1. /\ op.kind = "shift2" /\ op.i = k - 19 /\ k - 19 \in 0..3
        /\ Layout(k) = Shifted(Loaded, Turned2, op.i)
        /\ Layout(k + 1) = Shifted(Loaded, Turned2, op.i + 1)
    <3>1. op = [kind |-> "shift2", i |-> k - 19] /\ k - 19 \in 0..3
      BY <1>1, <1>7 DEF OpAt
    <3>2. /\ Layout(k) = Shifted(Loaded, Turned2, k - 19)
          /\ Layout(k + 1) = Shifted(Loaded, Turned2, (k + 1) - 19)
      BY <1>7 DEF Layout
    <3>3. (k + 1) - 19 = (k - 19) + 1
      OBVIOUS
    <3> QED
      BY <3>1, <3>2, <3>3
  <2>2. \A t \in Threads : Meets(Loaded, Turned2, op, t)
    BY <1>2, <2>1, ShiftsMeet
  <2> QED
    BY <1>1, <1>2, <2>1, <2>2, WordsOfLayouts, ShiftMoves DEF op
<1>8. CASE k \in 24..27
  <2>1. /\ op.kind = "unshift2" /\ op.i = k - 24 /\ k - 24 \in 0..3
        /\ Layout(k) = Shifted(Turned2, Loaded, op.i)
        /\ Layout(k + 1) = Shifted(Turned2, Loaded, op.i + 1)
    BY <1>1, <1>8 DEF OpAt, Layout
  <2>2. \A t \in Threads : Meets(Turned2, Loaded, op, t)
    BY <1>2, <2>1, ShiftsMeet
  <2> QED
    BY <1>1, <1>2, <2>1, <2>2, WordsOfLayouts, ShiftMoves DEF op
<1> QED
  BY <1>1, <1>3, <1>4, <1>5, <1>6, <1>7, <1>8

(* The four words an item mixes, and the items that mix position j of row  *)
(* or pair n.                                                              *)
Quad(A, t)  == <<A[t][0], A[t][1], A[t][2], A[t][3]>>
MixOf(A)    == {Quad(A, t) : t \in Threads}

RowItem(n, j)  == 16 * (n % 2) + 4 * (n \div 2) + j
PairItem(n, j) == 16 * (j \div 2) + 2 * n + (j % 2)

ColumnOf(v, j)   == <<v[j], v[4 + j], v[8 + j], v[12 + j]>>
DiagonalOf(v, j) == <<v[j], v[4 + ((j + 1) % 4)], v[8 + ((j + 2) % 4)], v[12 + ((j + 3) % 4)]>>

LEMMA RowItemsAre ==
  /\ \A t \in Threads : \E n \in 0..7, j \in 0..3 : t = RowItem(n, j)
  /\ \A n \in 0..7, j \in 0..3 :
       /\ RowItem(n, j) \in Threads
       /\ \A r \in Registers :
            /\ apply_shuffle_shift1(RowItem(n, j), r) = RowItem(n, (j + r) % 4)
            /\ ByRow[RowItem(n, j)][r] = Row(n)[4 * r + j]
<1>1. ASSUME NEW t \in Threads
      PROVE  \E n \in 0..7, j \in 0..3 : t = RowItem(n, j)
  <2> DEFINE n == 2 * Fours(t) + (t \div 16)
  <2>1. n \in 0..7 /\ n % 2 = t \div 16 /\ n \div 2 = Fours(t) /\ t % 4 \in 0..3
    BY ThreadsByFours
  <2>2. t = RowItem(n, t % 4)
    <3> HIDE DEF n
    <3> QED
      BY <2>1, ThreadsByFours DEF RowItem
  <2> QED
    BY <2>1, <2>2
<1>2. ASSUME NEW n \in 0..7, NEW j \in 0..3, NEW r \in Registers
      PROVE  /\ RowItem(n, j) \in Threads
             /\ apply_shuffle_shift1(RowItem(n, j), r) = RowItem(n, (j + r) % 4)
             /\ ByRow[RowItem(n, j)][r] = Row(n)[4 * r + j]
  <2> DEFINE t == RowItem(n, j)
             h == n % 2
             x == n \div 2
  <2>1. h \in 0..1 /\ x \in 0..3 /\ n = 2 * x + h
    OBVIOUS
  <2>2. t = 16 * h + 4 * x + j
    BY DEF RowItem
  <2> HIDE DEF t, h, x
  <2>3. t \in Threads /\ t \div 16 = h /\ Fours(t) = x /\ t % 4 = j
    BY <2>1, <2>2, ThreadsByFours
  <2>4. r \in 0..3
    BY DEF Registers, QWORDS_PER_THREAD
  <2>5. apply_shuffle_shift1(t, r) = RowItem(n, (j + r) % 4)
    <3>1. t \div 4 = 4 * h + x
      BY <2>1, <2>2
    <3>2. (t + r) % 4 = (j + r) % 4
      BY <2>1, <2>2, <2>4
    <3> QED
      BY <2>1, <3>1, <3>2 DEF apply_shuffle_shift1, RowItem, h, x
  <2>6. ByRow[t][r] = 32 * x + 16 * h + 4 * r + j
    BY <2>3, WordsOfLayouts
  <2>7. Row(n)[4 * r + j] = 16 * n + 4 * r + j
    BY <2>4 DEF Row
  <2> QED
    BY <2>1, <2>3, <2>4, <2>5, <2>6, <2>7 DEF t
<1>3. 0 \in Registers
  BY DEF Registers, QWORDS_PER_THREAD
<1> QED
  BY <1>1, <1>2, <1>3

LEMMA PairItemsAre ==
  /\ \A t \in Threads : \E n \in 0..7, j \in 0..3 : t = PairItem(n, j)
  /\ \A n \in 0..7, j \in 0..3 :
       /\ PairItem(n, j) \in Threads
       /\ \A r \in Registers :
            /\ apply_shuffle_shift2(PairItem(n, j), r) = PairItem(n, (j + r) % 4)
            /\ Loaded[PairItem(n, j)][r] = Pair(n)[4 * r + j]
<1>1. \A j \in 0..3 : /\ j \div 2 \in 0..1 /\ j % 2 \in 0..1 /\ j = 2 * (j \div 2) + (j % 2)
                      /\ Bit(j, 1) = j \div 2 /\ Bit(j, 0) = j % 2
  BY DEF Bit
<1>2. ASSUME NEW t \in Threads
      PROVE  \E n \in 0..7, j \in 0..3 : t = PairItem(n, j)
  <2> DEFINE n == (t \div 2) % 8
             j == 2 * Bit(t, 4) + Bit(t, 0)
  <2>1. n \in 0..7 /\ j \in 0..3 /\ j \div 2 = Bit(t, 4) /\ j % 2 = Bit(t, 0)
    BY ThreadsByPairs
  <2>2. t = PairItem(n, j)
    <3>1. t = 16 * Bit(t, 4) + 2 * n + Bit(t, 0)
      BY ThreadsByPairs
    <3> HIDE DEF n, j
    <3> QED
      BY <2>1, <3>1 DEF PairItem
  <2> QED
    BY <2>1, <2>2
<1>3. ASSUME NEW n \in 0..7, NEW j \in 0..3, NEW r \in Registers
      PROVE  /\ PairItem(n, j) \in Threads
             /\ apply_shuffle_shift2(PairItem(n, j), r) = PairItem(n, (j + r) % 4)
             /\ Loaded[PairItem(n, j)][r] = Pair(n)[4 * r + j]
  <2> DEFINE t  == PairItem(n, j)
             lo == (j + r) % 4
  <2>1. r \in 0..3
    BY DEF Registers, QWORDS_PER_THREAD
  <2>2. lo \in 0..3
    BY <2>1
  <2>3. /\ t = 16 * (j \div 2) + 2 * n + (j % 2) /\ t \in Threads
        /\ Bit(t, 4) = j \div 2 /\ (t \div 2) % 8 = n /\ Bit(t, 0) = j % 2
    <3> DEFINE h == j \div 2
               b == j % 2
    <3>1. h \in 0..1 /\ b \in 0..1 /\ t = 16 * h + 2 * n + b
      BY <1>1 DEF PairItem
    <3> HIDE DEF t, h, b
    <3>2. t \in Threads /\ Bit(t, 4) = h /\ (t \div 2) % 8 = n /\ Bit(t, 0) = b
      BY <3>1, ThreadsByPairs
    <3> QED
      BY <3>1, <3>2 DEF h, b
  <2> HIDE DEF t
  <2>4. apply_shuffle_shift2(t, r) = PairItem(n, lo)
    <3>1. Bit(t, 0) + 2 * Bit(t, 4) + r = j + r
      BY <1>1, <2>1, <2>3
    <3>2. apply_shuffle_shift2(t, r) = 16 * Bit(lo, 1) + 2 * n + Bit(lo, 0)
      BY <2>3, <3>1 DEF apply_shuffle_shift2
    <3> HIDE DEF lo
    <3> QED
      BY <1>1, <2>2, <3>2 DEF PairItem
  <2>5. Loaded[t][r] = 32 * r + t
    BY <2>3, WordsOfLayouts
  <2>6. Pair(n)[4 * r + j] = 16 * ((4 * r + j) \div 2) + 2 * n + ((4 * r + j) % 2)
    BY <2>1 DEF Pair
  <2>7. (4 * r + j) \div 2 = 2 * r + (j \div 2) /\ (4 * r + j) % 2 = j % 2
    BY <2>1
  <2>8. Loaded[t][r] = Pair(n)[4 * r + j]
    BY <1>1, <2>1, <2>3, <2>5, <2>6, <2>7
  <2> QED
    BY <2>3, <2>4, <2>8 DEF t
<1>4. 0 \in Registers
  BY DEF Registers, QWORDS_PER_THREAD
<1> QED
  BY <1>2, <1>3, <1>4

(* The words before each mixing are the ones argon2 mixes. *)
LEMMA MixesAre ==
  /\ MixOf(ByRow)   = UNION {Columns(Row(n)) : n \in 0..7}
  /\ MixOf(Turned1) = UNION {Diagonals(Row(n)) : n \in 0..7}
  /\ MixOf(Loaded)  = UNION {Columns(Pair(n)) : n \in 0..7}
  /\ MixOf(Turned2) = UNION {Diagonals(Pair(n)) : n \in 0..7}
<1>1. {0, 1, 2, 3} \subseteq Registers
  BY DEF Registers, QWORDS_PER_THREAD
<1>2. \A v : /\ Columns(v) = {ColumnOf(v, j) : j \in 0..3}
             /\ Diagonals(v) = {DiagonalOf(v, j) : j \in 0..3}
  BY DEF Columns, Diagonals, ColumnOf, DiagonalOf
<1>3. MixOf(ByRow) = UNION {Columns(Row(n)) : n \in 0..7}
  <2>1. ASSUME NEW n \in 0..7, NEW j \in 0..3
        PROVE  Quad(ByRow, RowItem(n, j)) = ColumnOf(Row(n), j)
    <3>1. /\ ByRow[RowItem(n, j)][0] = Row(n)[j]     /\ ByRow[RowItem(n, j)][1] = Row(n)[4 + j]
          /\ ByRow[RowItem(n, j)][2] = Row(n)[8 + j] /\ ByRow[RowItem(n, j)][3] = Row(n)[12 + j]
      BY <1>1, RowItemsAre
    <3> QED
      BY <3>1 DEF Quad, ColumnOf
  <2> QED
    BY <1>2, <2>1, RowItemsAre DEF MixOf
<1>4. MixOf(Turned1) = UNION {Diagonals(Row(n)) : n \in 0..7}
  <2>1. ASSUME NEW n \in 0..7, NEW j \in 0..3
        PROVE  Quad(Turned1, RowItem(n, j)) = DiagonalOf(Row(n), j)
    <3>1. \A r \in Registers : Turned1[RowItem(n, j)][r] = Row(n)[4 * r + ((j + r) % 4)]
      <4> SUFFICES ASSUME NEW r \in Registers
                   PROVE  Turned1[RowItem(n, j)][r] = Row(n)[4 * r + ((j + r) % 4)]
        OBVIOUS
      <4> DEFINE lo == (j + r) % 4
      <4>1. lo \in 0..3
        BY DEF Registers, QWORDS_PER_THREAD
      <4>2. RowItem(n, j) \in Threads /\ apply_shuffle_shift1(RowItem(n, j), r) = RowItem(n, lo)
        BY RowItemsAre
      <4> HIDE DEF lo
      <4>3. ByRow[RowItem(n, lo)][r] = Row(n)[4 * r + lo]
        BY <4>1, RowItemsAre
      <4> QED
        BY <4>2, <4>3, WordsOfLayouts DEF lo
    <3>2. /\ Turned1[RowItem(n, j)][0] = Row(n)[j]
          /\ Turned1[RowItem(n, j)][1] = Row(n)[4 + ((j + 1) % 4)]
          /\ Turned1[RowItem(n, j)][2] = Row(n)[8 + ((j + 2) % 4)]
          /\ Turned1[RowItem(n, j)][3] = Row(n)[12 + ((j + 3) % 4)]
      BY <1>1, <3>1
    <3> QED
      BY <3>2 DEF Quad, DiagonalOf
  <2> QED
    BY <1>2, <2>1, RowItemsAre DEF MixOf
<1>5. MixOf(Loaded) = UNION {Columns(Pair(n)) : n \in 0..7}
  <2>1. ASSUME NEW n \in 0..7, NEW j \in 0..3
        PROVE  Quad(Loaded, PairItem(n, j)) = ColumnOf(Pair(n), j)
    <3>1. /\ Loaded[PairItem(n, j)][0] = Pair(n)[j]
          /\ Loaded[PairItem(n, j)][1] = Pair(n)[4 + j]
          /\ Loaded[PairItem(n, j)][2] = Pair(n)[8 + j]
          /\ Loaded[PairItem(n, j)][3] = Pair(n)[12 + j]
      BY <1>1, PairItemsAre
    <3> QED
      BY <3>1 DEF Quad, ColumnOf
  <2> QED
    BY <1>2, <2>1, PairItemsAre DEF MixOf
<1>6. MixOf(Turned2) = UNION {Diagonals(Pair(n)) : n \in 0..7}
  <2>1. ASSUME NEW n \in 0..7, NEW j \in 0..3
        PROVE  Quad(Turned2, PairItem(n, j)) = DiagonalOf(Pair(n), j)
    <3>1. \A r \in Registers : Turned2[PairItem(n, j)][r] = Pair(n)[4 * r + ((j + r) % 4)]
      <4> SUFFICES ASSUME NEW r \in Registers
                   PROVE  Turned2[PairItem(n, j)][r] = Pair(n)[4 * r + ((j + r) % 4)]
        OBVIOUS
      <4> DEFINE lo == (j + r) % 4
      <4>1. lo \in 0..3
        BY DEF Registers, QWORDS_PER_THREAD
      <4>2. PairItem(n, j) \in Threads /\ apply_shuffle_shift2(PairItem(n, j), r) = PairItem(n, lo)
        BY PairItemsAre
      <4> HIDE DEF lo
      <4>3. Loaded[PairItem(n, lo)][r] = Pair(n)[4 * r + lo]
        BY <4>1, PairItemsAre
      <4> QED
        BY <4>2, <4>3, WordsOfLayouts DEF lo
    <3>2. /\ Turned2[PairItem(n, j)][0] = Pair(n)[j]
          /\ Turned2[PairItem(n, j)][1] = Pair(n)[4 + ((j + 1) % 4)]
          /\ Turned2[PairItem(n, j)][2] = Pair(n)[8 + ((j + 2) % 4)]
          /\ Turned2[PairItem(n, j)][3] = Pair(n)[12 + ((j + 3) % 4)]
      BY <1>1, <3>1
    <3> QED
      BY <3>2 DEF Quad, DiagonalOf
  <2> QED
    BY <1>2, <2>1, PairItemsAre DEF MixOf
<1> QED
  BY <1>3, <1>4, <1>5, <1>6

LEMMA LayoutsAreLayouts == \A k \in 1..28 : Layout(k) \in Layouts
<1>1. ASSUME NEW k \in 1..28
      PROVE  Layout(k) \in Layouts
  <2>1. /\ \A n \in Int : Transposed(Loaded, ByRow, n) \in Layouts
        /\ \A n \in Int : Transposed(ByRow, Loaded, n) \in Layouts
        /\ \A n \in Int : Shifted(ByRow, Turned1, n) \in Layouts
        /\ \A n \in Int : Shifted(Turned1, ByRow, n) \in Layouts
        /\ \A n \in Int : Shifted(Loaded, Turned2, n) \in Layouts
        /\ \A n \in Int : Shifted(Turned2, Loaded, n) \in Layouts
    BY WordsOfLayouts, HalfWaysAreLayouts
  <2>2. k - 2 \in Int /\ k - 6 \in Int /\ k - 11 \in Int /\ k - 15 \in Int
        /\ k - 19 \in Int /\ k - 24 \in Int
    OBVIOUS
  <2> QED
    BY <2>1, <2>2, WordsOfLayouts DEF Layout
<1> QED
  BY <1>1

LEMMA MixingsAre ==
  ASSUME NEW k \in {5, 10, 18, 23}
  PROVE  /\ Program[k].i \in 1..4 /\ MixAt[Program[k].i] = k
         /\ \A n \in (1..4) \ {Program[k].i} : MixAt[n] # k
         /\ Layout(k + 1) = Layout(k)
         /\ MixOf(Layout(k)) = Argon2Mixes[Program[k].i]
<1>1. Program[k].i = IF k = 5 THEN 1 ELSE IF k = 10 THEN 2 ELSE IF k = 18 THEN 3 ELSE 4
  <2>1. Program[k] = OpAt(k)
    BY OpsAre
  <2> QED
    BY <2>1 DEF OpAt
<1>2. MixAt[1] = 5 /\ MixAt[2] = 10 /\ MixAt[3] = 18 /\ MixAt[4] = 23
  BY DEF MixAt
<1>3. /\ Argon2Mixes[1] = MixOf(ByRow)  /\ Argon2Mixes[2] = MixOf(Turned1)
      /\ Argon2Mixes[3] = MixOf(Loaded) /\ Argon2Mixes[4] = MixOf(Turned2)
  BY MixesAre DEF Argon2Mixes
<1> QED
  BY <1>1, <1>2, <1>3, LayoutsAtMixes

LEMMA OneWarpIs ==
  ASSUME width = THREADS_PER_LANE
  PROVE  Warps = {0} /\ Items(0) = Threads
BY DEF Warps, Items, Threads, THREADS_PER_LANE

(* The quadruples of mixing n, once a warp is at operation k. *)
MixedAt(k) == [n \in 1..4 |-> IF k > MixAt[n] THEN Argon2Mixes[n] ELSE {}]

OneWarp ==
  width = THREADS_PER_LANE =>
    /\ regs = Layout(at[0])
    /\ arrived[0] =>
         \A t \in Threads : buf[t].word = regs[t][Register(Program[at[0]], t)]
    /\ at[0] > 1 => \A t \in Threads : ref_word[t] = 0
    /\ mixed = MixedAt(at[0])

LEMMA NotMixedAt ==
  ASSUME NEW k \in Shuffles
  PROVE  MixedAt(k + 1) = MixedAt(k)
<1>1. k \in 1..27 /\ k \notin {5, 10, 18, 23}
  BY ShufflesAre
<1>2. \A n \in 1..4 : MixAt[n] \in {5, 10, 18, 23}
  BY DEF MixAt
<1>3. \A n \in 1..4 : k + 1 > MixAt[n] <=> k > MixAt[n]
  BY <1>1, <1>2
<1> QED
  BY <1>3 DEF MixedAt

LEMMA ShufInitOneWarp == ShufInit => OneWarp
<1> SUFFICES ASSUME ShufInit, width = THREADS_PER_LANE
             PROVE  /\ regs = Layout(at[0]) /\ ~arrived[0] /\ at[0] = 1
                    /\ mixed = MixedAt(at[0])
  BY DEF OneWarp
<1>1. at[0] = 1 /\ arrived[0] = FALSE
  BY OneWarpIs DEF ShufInit
<1>2. MixedAt(1) = [n \in 1..4 |-> {}]
  <2>1. \A n \in 1..4 : ~(1 > MixAt[n])
    BY DEF MixAt
  <2> QED
    BY <2>1 DEF MixedAt
<1> QED
  BY <1>1, <1>2, LayoutsAtMixes DEF ShufInit

LEMMA MixKeepsOneWarp ==
  ASSUME ShufInv, OneWarp, NEW u \in Warps, Mix(u)
  PROVE  OneWarp'
<1> SUFFICES ASSUME width = THREADS_PER_LANE
             PROVE  OneWarp'
  BY DEF Mix, OneWarp
<1> DEFINE k == at[0]
           n == Program[k].i
<1>1. u = 0 /\ Warps = {0} /\ Items(0) = Threads
  BY OneWarpIs
<1>2. k \in 1..27 /\ Program[k].kind = "g" /\ at' = [at EXCEPT ![0] = k + 1] /\ at[0]' = k + 1
  BY <1>1, ShufflesAre DEF Mix, Running, Op, ShufInv, ShufTypes
<1>3. k \in {5, 10, 18, 23}
  BY <1>2, ShufflesAre DEF Shuffles
<1>4. ~arrived[0] /\ UNCHANGED <<width, arrived, regs, ref_word, buf>>
  BY <1>1, <1>2 DEF Mix, ShufInv, ShufTypes, Shuffles
<1>5. regs = Layout(k) /\ mixed = MixedAt(k) /\ \A t \in Threads : ref_word[t] = 0
  BY <1>3 DEF OneWarp
<1>6. mixed' = [mixed EXCEPT ![n] = @ \cup MixOf(regs)]
  BY <1>1 DEF Mix, Op, MixOf, Quad
<1>7. /\ n \in 1..4 /\ MixAt[n] = k /\ \A m \in (1..4) \ {n} : MixAt[m] # k
      /\ Layout(k + 1) = Layout(k) /\ MixOf(Layout(k)) = Argon2Mixes[n]
  BY <1>3, MixingsAre
<1> HIDE DEF n, k
<1>8. mixed' = MixedAt(k + 1)
  <2>1. \A m \in 1..4 : MixAt[m] \in Int
    BY DEF MixAt
  <2>2. \A m \in (1..4) \ {n} : k + 1 > MixAt[m] <=> k > MixAt[m]
    BY <1>2, <1>7, <2>1
  <2>3. k + 1 > MixAt[n] /\ ~(k > MixAt[n])
    BY <1>2, <1>7
  <2>4. mixed = [m \in 1..4 |-> IF k > MixAt[m] THEN Argon2Mixes[m] ELSE {}]
    BY <1>5 DEF MixedAt
  <2>5. mixed[n] = {}
    BY <1>7, <2>3, <2>4
  <2>6. mixed' = [mixed EXCEPT ![n] = Argon2Mixes[n]]
    BY <1>5, <1>6, <1>7, <2>5
  <2> QED
    BY <1>7, <2>2, <2>3, <2>4, <2>6 DEF MixedAt
<1> QED
  BY <1>2, <1>4, <1>5, <1>7, <1>8 DEF OneWarp, k

LEMMA WriteKeepsOneWarp ==
  ASSUME ShufInv, OneWarp, NEW u \in Warps, Write(u)
  PROVE  OneWarp'
<1> SUFFICES ASSUME width = THREADS_PER_LANE
             PROVE  OneWarp'
  BY DEF Write, OneWarp
<1>1. u = 0 /\ Items(0) = Threads
  BY OneWarpIs
<1>2. UNCHANGED <<width, at, regs, ref_word, mixed>>
  BY DEF Write
<1>3. \A t \in Threads : buf'[t].word = regs[t][Register(Program[at[0]], t)]
  BY <1>1 DEF Write, Op
<1> QED
  BY <1>2, <1>3 DEF OneWarp

LEMMA ReadKeepsOneWarp ==
  ASSUME ShufInv, OneWarp, NEW u \in Warps, Read(u)
  PROVE  OneWarp'
<1> SUFFICES ASSUME width = THREADS_PER_LANE
             PROVE  OneWarp'
  BY DEF Read, OneWarp
<1> DEFINE k    == at[0]
           op   == Program[k]
           w(t) == buf[Source(op, t)].word
<1>1. u = 0 /\ Warps = {0} /\ Items(0) = Threads
  BY OneWarpIs
<1>2. /\ k \in 1..27 /\ k \in Shuffles /\ op \in Ops /\ op.kind # "g"
      /\ arrived[0] /\ ~arrived[0]' /\ at[0]' = k + 1
  BY <1>1, ShufflesAre DEF Read, Running, ShufInv, ShufTypes, Shuffles
<1>3. /\ regs = Layout(k) /\ mixed = MixedAt(k)
      /\ \A t \in Threads : buf[t].word = regs[t][Register(op, t)]
      /\ k > 1 => \A t \in Threads : ref_word[t] = 0
  BY <1>2 DEF OneWarp
<1>4. \A t \in Threads : Source(op, t) \in Threads
  BY <1>2, SourcesAreItems
<1>5. \A t \in Threads : w(t) = regs[Source(op, t)][Register(op, Source(op, t))]
  BY <1>3, <1>4
<1>6. UNCHANGED <<width, mixed>> /\ MixedAt(k + 1) = MixedAt(k)
  BY <1>2, NotMixedAt DEF Read
<1>7. (op.kind = "broadcast" <=> k = 1) /\ (k = 1 => op = [kind |-> "broadcast", i |-> 0])
  <2>1. op = OpAt(k)
    BY <1>2, OpsAre
  <2> HIDE DEF op
  <2> QED
    BY <1>2, <2>1 DEF OpAt
<1>8. regs' = Layout(k + 1)
  <2>1. CASE k = 1
    BY <1>1, <1>3, <1>7, <2>1, LayoutsAtMixes DEF Read, Op
  <2>2. CASE k # 1
    <3>1. regs' = [t \in Threads |-> [regs[t] EXCEPT ![Register(op, t)] = w(t)]]
      BY <1>1, <1>7, <2>2 DEF Read, Op
    <3>2. Moves(Layout(k), Layout(k + 1), op)
      BY <1>2, <2>2, LayoutsMove
    <3>3. Layout(k) \in Layouts /\ Layout(k + 1) \in Layouts
      BY <1>2, LayoutsAreLayouts
    <3>4. \A t \in Threads : regs'[t] = Layout(k + 1)[t]
      <4> SUFFICES ASSUME NEW t \in Threads PROVE regs'[t] = Layout(k + 1)[t]
        OBVIOUS
      <4>1. regs[t] \in [Registers -> Int] /\ Layout(k + 1)[t] \in [Registers -> Int]
        BY <1>3, <3>3 DEF Layouts
      <4>2. regs'[t] = [regs[t] EXCEPT ![Register(op, t)] = w(t)]
        BY <3>1
      <4>3. \A r \in Registers :
              Layout(k + 1)[t][r] = IF r = Register(op, t) THEN w(t) ELSE regs[t][r]
        BY <1>3, <1>5, <3>2 DEF Moves
      <4> HIDE DEF w, k, op
      <4> QED
        BY <4>1, <4>2, <4>3
    <3> HIDE DEF w, k, op
    <3> QED
      BY <3>1, <3>3, <3>4 DEF Layouts
  <2> QED
    BY <2>1, <2>2
<1>9. \A t \in Threads : ref_word'[t] = 0
  <2>1. CASE k = 1
    <3>1. ref_word' = [t \in Threads |-> w(t)]
      BY <1>1, <1>7, <2>1 DEF Read, Op
    <3>2. \A t \in Threads : Source(op, t) = 0 /\ Register(op, 0) = 0 /\ 0 \in Threads
      BY <1>7, <2>1 DEF Source, Register, Threads, THREADS_PER_LANE
    <3>3. Loaded[0][0] = 0
      BY DEF Loaded, Threads, Registers, THREADS_PER_LANE, QWORDS_PER_THREAD
    <3>4. \A t \in Threads : w(t) = 0
      BY <1>3, <1>5, <2>1, <3>2, <3>3, LayoutsAtMixes
    <3> QED
      BY <3>1, <3>4
  <2>2. CASE k # 1
    BY <1>1, <1>2, <1>3, <1>7, <2>2 DEF Read, Op
  <2> QED
    BY <2>1, <2>2
<1> QED
  BY <1>2, <1>3, <1>6, <1>8, <1>9 DEF OneWarp

(* Where the 32 items are one warp, they compute the argon2 permutation in *)
(* step with each other: the shuffles put before each call of g the words  *)
(* argon2 mixes there and put every word back in the end.                  *)
THEOREM WarpMixesAsArgon2 == ShufSpec => []MixesAsArgon2
<1>1. ShufInit => OneWarp
  BY ShufInitOneWarp
<1>2. ShufInv /\ OneWarp /\ [WarpStep]_shufVars => OneWarp'
  <2> SUFFICES ASSUME ShufInv, OneWarp, [WarpStep]_shufVars PROVE OneWarp'
    OBVIOUS
  <2>1. CASE UNCHANGED shufVars
    BY <2>1 DEF OneWarp, shufVars
  <2>2. CASE WarpStep
    BY <2>2, MixKeepsOneWarp, WriteKeepsOneWarp, ReadKeepsOneWarp DEF WarpStep
  <2> QED
    BY <2>1, <2>2
<1>3. ShufInv /\ OneWarp => MixesAsArgon2
  <2> SUFFICES ASSUME ShufInv, OneWarp, width = THREADS_PER_LANE, StepDone
               PROVE  /\ \A t \in Threads : ref_word[t] = 0
                      /\ mixed = Argon2Mixes
                      /\ regs = Loaded
    BY DEF MixesAsArgon2
  <2>1. at[0] = 28
    BY OneWarpIs, ShufflesAre DEF StepDone, Running, ShufInv, ShufTypes
  <2>2. MixedAt(28) = Argon2Mixes
    <3>1. \A n \in 1..4 : 28 > MixAt[n]
      BY DEF MixAt
    <3>2. MixedAt(28) = [n \in 1..4 |-> Argon2Mixes[n]]
      BY <3>1 DEF MixedAt
    <3>3. Argon2Mixes \in Seq({Argon2Mixes[n] : n \in 1..4}) /\ Len(Argon2Mixes) = 4
      BY DEF Argon2Mixes
    <3> QED
      BY <3>2, <3>3
  <2> QED
    BY <2>1, <2>2, LayoutsAtMixes DEF OneWarp
<1> QED
  BY <1>1, <1>2, <1>3, ShufInvHolds, PTL DEF ShufSpec

-----------------------------------------------------------------------------
(* The kernels before and after it leave a shuffle alone (miner.cpp        *)
(* 762-796).                                                               *)
THEOREM RunsShuffle == ItemSpec => ShufSpec
<1>1. [ItemNext]_itemVars => [WarpStep]_shufVars
  BY DEF ItemNext, itemVars, RunSearch, RunSearch1, RunSearch2
<1> QED
  BY <1>1, PTL DEF ItemSpec, ItemInit, ShufSpec

(* So a job's shuffle reads this shuffle's words or the next one's, when   *)
(* the kernels run in the order of the host (_kernel.h 1313-1324,          *)
(* miner.cpp 762-796).                                                     *)
COROLLARY ItemsReadThisOrNext == ItemSpec => []ReadsThisOrNext
BY RunsShuffle, ReadsAreThisOrNext, PTL

(* The same of the three kernels together. *)
COROLLARY ItemsMixAsArgon2 == ItemSpec => []MixesAsArgon2
BY RunsShuffle, WarpMixesAsArgon2, PTL

-----------------------------------------------------------------------------
(* The hashes of blake2b at both ends of a job take lists of words.        *)

(* A list of n words of S; and the list h, which is f followed by g, where *)
(* g begins at p and ends at q.                                            *)
IsList(f, n, S) == f \in Seq(S) /\ Len(f) = n
Begins(p, m)    == p = m + 1
Ends(q, m, n)   == q = m + n
IsJoin(h, f, g) == h = f \o g

LEMMA ListIsSeq ==
  ASSUME NEW n \in Nat, NEW S, NEW f \in [1..n -> S]
  PROVE  IsList(f, n, S)
BY DEF IsList

LEMMA JoinedLists ==
  ASSUME NEW S, NEW f, NEW g, NEW h, NEW m, NEW n, NEW p, NEW q,
         IsList(f, m, S), IsList(g, n, S), IsJoin(h, f, g), Begins(p, m), Ends(q, m, n)
  PROVE  /\ IsList(h, q, S)
         /\ \A k \in 1..m : h[k] = f[k]
         /\ \A k \in p..q : h[k] = g[k - m]
BY DEF IsList, Begins, Ends, IsJoin

-----------------------------------------------------------------------------
(* search2.                                                                *)

(* The words of the last block, behind the length of the hash. *)
LastWords == <<Number(32)>> \o [k \in 1..256 |-> Last(k - 1)]
FinalCopy == [k \in 0..256 |-> IF k = 0 THEN Number(32) ELSE Last(k - 1)]

LEMMA LastWordsAre ==
  Len(LastWords) = 257 /\ \A k \in 0..256 : LastWords[k + 1] = FinalCopy[k]
<1> DEFINE n == 256
           len   == <<Number(32)>>
           words == [k \in 1..n |-> Last(k - 1)]
           S     == {Number(32)} \cup {Last(k - 1) : k \in 1..n}
           all   == len \o words
<1>1. n \in Nat /\ n = 256 /\ LastWords = all
  BY DEF LastWords
<1>2. words \in [1..n -> S] /\ \A k \in 1..n : words[k] = Last(k - 1)
  OBVIOUS
<1>3. /\ IsList(len, 1, S) /\ len[1] = Number(32)
      /\ Begins(2, 1) /\ Ends(257, 1, 256) /\ IsJoin(all, len, words)
  BY DEF IsList, Begins, Ends, IsJoin
<1> HIDE DEF n, len, words, S, all
<1>4. IsList(words, 256, S)
  <2>1. IsList(words, n, S)
    BY <1>1, <1>2, ListIsSeq
  <2> QED
    BY <1>1, <2>1
<1>5. /\ IsList(all, 257, S)
      /\ \A k \in 1..1 : all[k] = len[k]
      /\ \A k \in 2..257 : all[k] = words[k - 1]
  BY <1>3, <1>4, JoinedLists
<1>6. ASSUME NEW k \in 0..256 PROVE all[k + 1] = FinalCopy[k]
  <2>1. CASE k = 0
    BY <1>3, <1>5, <2>1 DEF FinalCopy
  <2>2. CASE k \in 1..256
    <3>1. all[k + 1] = words[k] /\ words[k] = Last(k - 1)
      BY <1>1, <1>2, <1>5, <2>2
    <3> QED
      BY <2>2, <3>1 DEF FinalCopy
  <2> QED
    BY <2>1, <2>2
<1> QED
  BY <1>1, <1>5, <1>6, Zenon DEF IsList

(* Until the last compression the copy is whole. *)
FinalInv ==
  /\ hashPc \in {"initial", "block", "loop", "searched"} => step = 0
  /\ hashPc = "compress" => step \in 0..8 /\ input = FinalCopy
  /\ hashPc = "hashed" => step = 9
  /\ hashPc \in {"initial", "block", "loop", "searched", "compress", "hashed"}
  /\ HashesLastBlock

LEMMA FinalInitInv == HashInit => FinalInv
BY DEF HashInit, FinalInv, HashesLastBlock

LEMMA CompressKeepsFinalInv ==
  ASSUME FinalInv, CompressFinal
  PROVE  FinalInv'
<1> USE DEF CompressFinal
<1>1. step \in 0..7 /\ step' = step + 1 /\ hashPc' = "compress" /\ input' = FinalCopy
  BY DEF FinalInv
<1>2. /\ call'.message = [k \in 0..31 |-> input[32 * step + k]]
      /\ call'.bytes = 128 * step'
  OBVIOUS
<1>3. ASSUME NEW k \in 0..31
      PROVE  call'.message[k] = Padded(LastWords, 9 * 32)[32 * (step' - 1) + k]
  <2> DEFINE i == 32 * step + k
  <2>1. i \in 0..255 /\ 32 * (step' - 1) + k = i
    BY <1>1
  <2> HIDE DEF i
  <2>2. call'.message[k] = FinalCopy[i]
    BY <1>1, <1>2 DEF FinalInv, i
  <2>3. Padded(LastWords, 9 * 32)[i] = LastWords[i + 1]
    BY <2>1, LastWordsAre DEF Padded
  <2> QED
    BY <2>1, <2>2, <2>3, LastWordsAre
<1>4. HashesLastBlock'
  BY <1>1, <1>2, <1>3 DEF HashesLastBlock, LastWords
<1> QED
  BY <1>1, <1>4 DEF FinalInv

LEMMA FinishKeepsFinalInv ==
  ASSUME FinalInv, FinishFinal
  PROVE  FinalInv'
<1> USE DEF FinishFinal
<1>1. step = 8 /\ step' = 9 /\ hashPc' = "hashed" /\ input = FinalCopy
  BY DEF FinalInv
<1>2. /\ call'.message = [k \in 0..31 |-> input'[k]]
      /\ call'.bytes = 4 * 257
  BY <1>1
<1>3. input'[0] = FinalCopy[256] /\ \A k \in 1..31 : input'[k] = Zero
  BY <1>1
<1>4. ASSUME NEW k \in 0..31
      PROVE  call'.message[k] = Padded(LastWords, 9 * 32)[32 * (step' - 1) + k]
  <2>1. 32 * (step' - 1) + k = 256 + k
    BY <1>1
  <2>2. CASE k = 0
    <3>1. Padded(LastWords, 9 * 32)[256] = LastWords[257]
      BY LastWordsAre DEF Padded
    <3>2. LastWords[257] = FinalCopy[256]
      BY LastWordsAre
    <3> QED
      BY <1>2, <1>3, <2>1, <2>2, <3>1, <3>2
  <2>3. CASE k # 0
    <3>1. Padded(LastWords, 9 * 32)[256 + k] = Zero
      BY <2>3, LastWordsAre DEF Padded
    <3> QED
      BY <1>2, <1>3, <2>1, <2>3, <3>1
  <2> QED
    BY <2>2, <2>3
<1>5. HashesLastBlock'
  BY <1>1, <1>2, <1>4, LastWordsAre, SMTT(30) DEF HashesLastBlock, LastWords
<1> QED
  BY <1>1, <1>5 DEF FinalInv

LEMMA OtherHashesKeepFinalInv ==
  ASSUME FinalInv, SearchStep \/ LoadFinal \/ UNCHANGED hashVars
  PROVE  FinalInv'
<1>1. CASE SearchStep
  <2>1. /\ hashPc \in {"initial", "block", "loop"} /\ step' = step
        /\ hashPc' \in {"block", "loop", "searched"}
    <3>1. CASE InitialHash
      BY <3>1 DEF InitialHash
    <3>2. CASE BlockStart
      BY <3>2 DEF BlockStart
    <3>3. CASE ChainStep
      BY <3>3 DEF ChainStep
    <3>4. CASE ChainEnd
      BY <3>4 DEF ChainEnd
    <3> QED
      BY <1>1, <3>1, <3>2, <3>3, <3>4 DEF SearchStep
  <2>2. step' = 0
    BY <2>1 DEF FinalInv
  <2> QED
    BY <2>1, <2>2 DEF FinalInv, HashesLastBlock
<1>2. CASE LoadFinal
  BY <1>2 DEF LoadFinal, FinalInv, HashesLastBlock, FinalCopy
<1>3. CASE UNCHANGED hashVars
  BY <1>3 DEF hashVars, FinalInv, HashesLastBlock
<1> QED
  BY <1>1, <1>2, <1>3

(* The nine compressions of search2 take the length and the whole last     *)
(* block, each word once, and zeros behind it (_kernel.h 1770-1870).       *)
THEOREM LastBlockIsHashed == ItemSpec => []HashesLastBlock
<1>1. FinalInv /\ [ItemNext]_itemVars => FinalInv'
  BY CompressKeepsFinalInv, FinishKeepsFinalInv, OtherHashesKeepFinalInv
     DEF ItemNext, itemVars, RunSearch, RunSearch1, RunSearch2, Search2Step
<1>2. FinalInv => HashesLastBlock
  BY DEF FinalInv
<1> QED
  BY <1>1, <1>2, FinalInitInv, PTL DEF ItemSpec, ItemInit

-----------------------------------------------------------------------------
(* search.                                                                 *)

(* The parameters, the seed behind its length, and three empty strings.    *)
LEMMA InitialWordsAre ==
  /\ Len(Argon2Initial) = 20
  /\ \A k \in 0..19 : Argon2Initial[k + 1] = IF k < 6 THEN Param(k)
                                        ELSE IF k = 6 THEN Number(40)
                                        ELSE IF k < 17 THEN Seed(k - 7) ELSE Zero
<1> DEFINE six == 6
           ten == 10
           params == [k \in 1..six |-> Param(k - 1)]
           seed   == [k \in 1..ten |-> Seed(k - 1)]
           len    == <<Number(40)>>
           empty  == <<Zero, Zero, Zero>>
           S == {Param(k) : k \in 0..5} \cup {Seed(k) : k \in 0..9} \cup {Number(40), Zero}
           two    == params \o len
           three  == two \o seed
           all    == three \o empty
<1>1. six \in Nat /\ six = 6 /\ ten \in Nat /\ ten = 10
  OBVIOUS
<1>2. Argon2Initial = all
  BY DEF Argon2Initial
<1>3. /\ params \in [1..six -> S] /\ \A k \in 1..six : params[k] = Param(k - 1)
      /\ seed \in [1..ten -> S] /\ \A k \in 1..ten : seed[k] = Seed(k - 1)
  OBVIOUS
<1>4. /\ IsList(len, 1, S) /\ len[1] = Number(40)
      /\ IsList(empty, 3, S) /\ \A k \in 1..3 : empty[k] = Zero
  BY DEF IsList
<1>5. /\ Begins(7, 6) /\ Ends(7, 6, 1) /\ IsJoin(two, params, len)
      /\ Begins(8, 7) /\ Ends(17, 7, 10) /\ IsJoin(three, two, seed)
      /\ Begins(18, 17) /\ Ends(20, 17, 3) /\ IsJoin(all, three, empty)
  BY DEF Begins, Ends, IsJoin
<1> HIDE DEF six, ten, params, seed, len, empty, S, two, three, all
<1>6. IsList(params, 6, S) /\ IsList(seed, 10, S)
  <2>1. IsList(params, six, S)
    BY <1>1, <1>3, ListIsSeq
  <2>2. IsList(seed, ten, S)
    BY <1>1, <1>3, ListIsSeq
  <2> QED
    BY <1>1, <2>1, <2>2
<1>7. /\ IsList(two, 7, S)
      /\ \A k \in 1..6 : two[k] = params[k]
      /\ \A k \in 7..7 : two[k] = len[k - 6]
  BY <1>4, <1>5, <1>6, JoinedLists
<1>8. /\ IsList(three, 17, S)
      /\ \A k \in 1..7 : three[k] = two[k]
      /\ \A k \in 8..17 : three[k] = seed[k - 7]
  BY <1>5, <1>6, <1>7, JoinedLists
<1>9. /\ IsList(all, 20, S)
      /\ \A k \in 1..17 : all[k] = three[k]
      /\ \A k \in 18..20 : all[k] = empty[k - 17]
  BY <1>4, <1>5, <1>8, JoinedLists
<1>10. ASSUME NEW k \in 0..19
       PROVE  all[k + 1] = IF k < 6 THEN Param(k)
                           ELSE IF k = 6 THEN Number(40)
                           ELSE IF k < 17 THEN Seed(k - 7) ELSE Zero
  <2>1. CASE k < 6
    BY <1>1, <1>3, <1>7, <1>8, <1>9, <2>1
  <2>2. CASE k = 6
    BY <1>4, <1>7, <1>8, <1>9, <2>2
  <2>3. CASE k \in 7..16
    BY <1>1, <1>3, <1>8, <1>9, <2>3
  <2>4. CASE k \in 17..19
    BY <1>4, <1>9, <2>4
  <2> QED
    BY <2>1, <2>2, <2>3, <2>4
<1> QED
  BY <1>2, <1>9, <1>10, Zenon DEF IsList

(* The length of a block, the digest, and the numbers of block and lane.   *)
LEMMA BlockWordsAre ==
  ASSUME NEW b \in 0..1
  PROVE  /\ Len(Argon2Block(b)) = 19
         /\ \A k \in 0..18 : Argon2Block(b)[k + 1] = IF k = 0 THEN Number(1024)
                                                ELSE IF k < 17 THEN Digest(0, k - 1)
                                                ELSE IF k = 17 THEN Number(b) ELSE Zero
<1> DEFINE n == 16
           len     == <<Number(1024)>>
           digest  == [k \in 1..n |-> Digest(0, k - 1)]
           numbers == <<Number(b), Zero>>
           S == {Number(1024), Number(b), Zero} \cup {Digest(0, k - 1) : k \in 1..n}
           two     == len \o digest
           all     == two \o numbers
<1>1. n \in Nat /\ n = 16
  OBVIOUS
<1>2. Argon2Block(b) = all
  BY DEF Argon2Block
<1>3. digest \in [1..n -> S] /\ \A k \in 1..n : digest[k] = Digest(0, k - 1)
  OBVIOUS
<1>4. /\ IsList(len, 1, S) /\ len[1] = Number(1024)
      /\ IsList(numbers, 2, S)
      /\ numbers[1] = Number(b) /\ numbers[2] = Zero
  BY DEF IsList
<1>5. /\ Begins(2, 1) /\ Ends(17, 1, 16) /\ IsJoin(two, len, digest)
      /\ Begins(18, 17) /\ Ends(19, 17, 2) /\ IsJoin(all, two, numbers)
  BY DEF Begins, Ends, IsJoin
<1> HIDE DEF n, len, digest, numbers, S, two, all
<1>6. IsList(digest, 16, S)
  <2>1. IsList(digest, n, S)
    BY <1>1, <1>3, ListIsSeq
  <2> QED
    BY <1>1, <2>1
<1>7. /\ IsList(two, 17, S)
      /\ \A k \in 1..1 : two[k] = len[k]
      /\ \A k \in 2..17 : two[k] = digest[k - 1]
  BY <1>4, <1>5, <1>6, JoinedLists
<1>8. /\ IsList(all, 19, S)
      /\ \A k \in 1..17 : all[k] = two[k]
      /\ \A k \in 18..19 : all[k] = numbers[k - 17]
  BY <1>4, <1>5, <1>7, JoinedLists
<1>9. ASSUME NEW k \in 0..18
      PROVE  all[k + 1] = IF k = 0 THEN Number(1024)
                          ELSE IF k < 17 THEN Digest(0, k - 1)
                          ELSE IF k = 17 THEN Number(b) ELSE Zero
  <2>1. CASE k = 0
    BY <1>4, <1>7, <1>8, <2>1
  <2>2. CASE k \in 1..16
    BY <1>1, <1>3, <1>7, <1>8, <2>2
  <2>3. CASE k = 17
    BY <1>4, <1>8, <2>3
  <2>4. CASE k = 18
    BY <1>4, <1>8, <2>4
  <2> QED
    BY <2>1, <2>2, <2>3, <2>4
<1> QED
  BY <1>2, <1>8, <1>9, Zenon DEF IsList

(* The unrolled rounds: where a round takes one of the eight words of a    *)
(* digest it is that word, where it takes none the word is zero.           *)
RoundTakes(row, written) ==
  \A n \in 1..16 :
    row[n] \in 0..15 /\ written[n] = IF row[n] < 8 THEN row[n] ELSE X

LEMMA RoundsAreSigma ==
  \A r \in 1..12 : RoundTakes(sigma[r], LoopRounds[r])
<1> USE DEF RoundTakes, sigma, LoopRounds, X
<1>1. RoundTakes(sigma[1], LoopRounds[1])
  BY DEF LoopRound1
<1>2. RoundTakes(sigma[2], LoopRounds[2])
  BY DEF LoopRound2
<1>3. RoundTakes(sigma[3], LoopRounds[3])
  BY DEF LoopRound3
<1>4. RoundTakes(sigma[4], LoopRounds[4])
  BY DEF LoopRound4
<1>5. RoundTakes(sigma[5], LoopRounds[5])
  BY DEF LoopRound5
<1>6. RoundTakes(sigma[6], LoopRounds[6])
  BY DEF LoopRound6
<1>7. RoundTakes(sigma[7], LoopRounds[7])
  BY DEF LoopRound7
<1>8. RoundTakes(sigma[8], LoopRounds[8])
  BY DEF LoopRound8
<1>9. RoundTakes(sigma[9], LoopRounds[9])
  BY DEF LoopRound9
<1>10. RoundTakes(sigma[10], LoopRounds[10])
  BY DEF LoopRound10
<1>11. RoundTakes(sigma[11], LoopRounds[11])
  BY DEF LoopRound11
<1>12. RoundTakes(sigma[12], LoopRounds[12])
  BY DEF LoopRound12
<1> HIDE DEF RoundTakes, sigma, LoopRounds, X
<1> QED
  BY <1>1, <1>2, <1>3, <1>4, <1>5, <1>6, <1>7, <1>8, <1>9, <1>10, <1>11, <1>12

(* The buffer between the hashes of the two blocks, what the first n links *)
(* of a block's chain have stored, and a block that is full.               *)
DigestHeld ==
  /\ buffer = [k \in 0..31 |-> buffer[k]]
  /\ \A k \in 1..16 : buffer[k] = Digest(0, k - 1)
  /\ \A k \in 19..31 : buffer[k] = Zero

Stored(b, n) ==
  \A w \in 0..127 : w \div 4 < n => memory[b][w] = Digest(Link(b, w \div 4 + 1), w % 4)

Full(b) ==
  \A w \in 0..127 : memory[b][w] = IF w < 120 THEN Digest(Link(b, w \div 4 + 1), w % 4)
                                              ELSE Digest(Link(b, ChainLength), w - 120)

(* What search has done so far, and the compressions themselves. *)
FirstInv ==
  /\ hashPc \in {"initial", "block", "loop", "searched", "compress", "hashed"}
  /\ hashPc = "initial" => block = 0
  /\ block \in 0..1 /\ DOMAIN memory = 0..1
  /\ hashPc \in {"block", "loop"} => DigestHeld
  /\ hashPc = "loop" => chain \in 1..ChainLength /\ Stored(block, chain)
  /\ hashPc \in {"block", "loop"} /\ block = 1 => Full(0)
  /\ FirstBlocksAsArgon2

LEMMA FirstInitInv == HashInit => FirstInv
BY DEF HashInit, FirstInv, FirstBlocksAsArgon2

LEMMA InitialKeepsFirstInv ==
  ASSUME FirstInv, InitialHash
  PROVE  FirstInv'
<1> DEFINE filled == [k \in 0..31 |-> IF k < 6 THEN Param(k)
                                      ELSE IF k = 6 THEN Number(40)
                                      ELSE IF k < 17 THEN Seed(k - 7) ELSE Zero]
<1>1. /\ hashPc' = "block" /\ block' = 0 /\ DOMAIN memory' = 0..1
      /\ call' = [message |-> filled, bytes |-> 80]
      /\ buffer' = [k \in 0..31 |-> IF k \in 1..16 THEN Digest(0, k - 1) ELSE filled[k]]
  BY DEF InitialHash, FirstInv
<1>2. DigestHeld'
  BY <1>1 DEF DigestHeld
<1>3. ASSUME NEW k \in 0..31 PROVE filled[k] = Padded(Argon2Initial, 32)[k]
  <2>1. CASE k < 20
    <3>1. Padded(Argon2Initial, 32)[k] = Argon2Initial[k + 1]
      BY <2>1, InitialWordsAre DEF Padded
    <3> QED
      BY <2>1, <3>1, InitialWordsAre
  <2>2. CASE ~(k < 20)
    BY <2>2, InitialWordsAre DEF Padded
  <2> QED
    BY <2>1, <2>2
<1>4. filled = Padded(Argon2Initial, 32)
  <2>1. DOMAIN filled = 0..31 /\ filled = [k \in 0..31 |-> filled[k]]
    OBVIOUS
  <2>2. Padded(Argon2Initial, 32) = [k \in 0..31 |-> Padded(Argon2Initial, 32)[k]]
    BY DEF Padded
  <2> HIDE DEF filled
  <2> QED
    BY <1>3, <2>1, <2>2
<1> HIDE DEF filled
<1>5. FirstBlocksAsArgon2'
  BY <1>1, <1>4, InitialWordsAre DEF FirstBlocksAsArgon2
<1> QED
  BY <1>1, <1>2, <1>5 DEF FirstInv

(* A function on D that was changed at one place is a function on D. *)
HasDomain(f, D)     == f = [k \in D |-> f[k]]
Changed(h, f, a, v) == h = [f EXCEPT ![a] = v]

LEMMA ChangedKeepsDomain ==
  ASSUME NEW f, NEW D, NEW a, NEW v, NEW h, HasDomain(f, D), Changed(h, f, a, v)
  PROVE  HasDomain(h, D)
BY DEF HasDomain, Changed

LEMMA BlockStartKeepsFirstInv ==
  ASSUME FirstInv, BlockStart
  PROVE  FirstInv'
<1> DEFINE filled == [buffer EXCEPT ![0] = Number(1024), ![17] = Number(block), ![18] = Zero]
<1>1. /\ hashPc = "block" /\ block \in 0..1 /\ DigestHeld /\ DOMAIN memory = 0..1
      /\ block = 1 => Full(0)
  BY DEF BlockStart, FirstInv
<1>2. /\ hashPc' = "loop" /\ block' = block /\ chain' = 1
      /\ buffer' = filled
      /\ call' = [message |-> filled, bytes |-> 76]
      /\ memory' = [memory EXCEPT ![block] =
                      [w \in 0..127 |-> IF w < 4 THEN Digest(Link(block, 1), w) ELSE @[w]]]
  BY DEF BlockStart
<1>3. /\ DOMAIN filled = 0..31
      /\ filled = [k \in 0..31 |-> filled[k]]
      /\ \A k \in 0..31 : filled[k] = IF k = 0 THEN Number(1024)
                                      ELSE IF k < 17 THEN Digest(0, k - 1)
                                      ELSE IF k = 17 THEN Number(block) ELSE Zero
  <2> DEFINE f == [buffer EXCEPT ![0] = Number(1024)]
             g == [f EXCEPT ![17] = Number(block)]
  <2>1. HasDomain(buffer, 0..31)
    BY <1>1 DEF DigestHeld, HasDomain
  <2>2. /\ Changed(f, buffer, 0, Number(1024)) /\ Changed(g, f, 17, Number(block))
        /\ Changed(filled, g, 18, Zero)
    BY DEF Changed
  <2> HIDE DEF f, g, filled
  <2>3. HasDomain(f, 0..31) /\ HasDomain(g, 0..31) /\ HasDomain(filled, 0..31)
    BY <2>1, <2>2, ChangedKeepsDomain
  <2>4. \A k \in 0..31 : f[k] = IF k = 0 THEN Number(1024) ELSE buffer[k]
    BY <2>1, <2>2 DEF HasDomain, Changed
  <2>5. \A k \in 0..31 : g[k] = IF k = 17 THEN Number(block) ELSE f[k]
    BY <2>2, <2>3 DEF HasDomain, Changed
  <2>6. \A k \in 0..31 : filled[k] = IF k = 18 THEN Zero ELSE g[k]
    BY <2>2, <2>3 DEF HasDomain, Changed
  <2>7. ASSUME NEW k \in 0..31
        PROVE  filled[k] = IF k = 0 THEN Number(1024)
                           ELSE IF k < 17 THEN Digest(0, k - 1)
                           ELSE IF k = 17 THEN Number(block) ELSE Zero
    BY <1>1, <2>4, <2>5, <2>6 DEF DigestHeld
  <2> QED
    BY <2>3, <2>7 DEF HasDomain
<1>4. Len(Argon2Block(block)) = 19
      /\ \A k \in 0..18 : Argon2Block(block)[k + 1] = filled[k]
  BY <1>1, <1>3, BlockWordsAre
<1> HIDE DEF filled
<1>5. filled = Padded(Argon2Block(block), 32)
  <2>1. ASSUME NEW k \in 0..31 PROVE filled[k] = Padded(Argon2Block(block), 32)[k]
    <3>1. CASE k < 19
      BY <1>4, <3>1 DEF Padded
    <3>2. CASE ~(k < 19)
      BY <1>3, <1>4, <3>2 DEF Padded
    <3> QED
      BY <3>1, <3>2
  <2>2. Padded(Argon2Block(block), 32) = [k \in 0..31 |-> Padded(Argon2Block(block), 32)[k]]
    BY DEF Padded
  <2> QED
    BY <1>3, <2>1, <2>2
<1>6. DigestHeld'
  BY <1>2, <1>3 DEF DigestHeld
<1>7. Stored(block, 1)' /\ (block = 1 => Full(0)') /\ DOMAIN memory' = 0..1
  BY <1>1, <1>2 DEF Stored, Full
<1>8. FirstBlocksAsArgon2'
  BY <1>2, <1>4, <1>5 DEF FirstBlocksAsArgon2
<1> QED
  BY <1>1, <1>2, <1>6, <1>7, <1>8 DEF FirstInv, ChainLength, Stored

LEMMA ChainKeepsFirstInv ==
  ASSUME FirstInv, ChainStep
  PROVE  FirstInv'
<1> DEFINE half == [k \in 0..15 |-> IF k < 8 THEN Digest(Link(block, chain), k) ELSE Zero]
<1>1. /\ hashPc = "loop" /\ block \in 0..1 /\ DigestHeld /\ DOMAIN memory = 0..1
      /\ block = 1 => Full(0)
      /\ chain \in 1..(ChainLength - 1) /\ Stored(block, chain)
  BY DEF ChainStep, FirstInv, ChainLength
<1>2. /\ hashPc' = "loop" /\ block' = block /\ chain' = chain + 1 /\ buffer' = buffer
      /\ call' = [message |-> half, bytes |-> 64]
      /\ memory' = [memory EXCEPT ![block] =
                      [w \in 0..127 |-> IF w \div 4 = chain
                                          THEN Digest(Link(block, chain + 1), w % 4) ELSE @[w]]]
  BY <1>1 DEF ChainStep
<1>3. Stored(block, chain)' /\ (block = 1 => Full(0)') /\ DOMAIN memory' = 0..1
  <2>1. /\ DOMAIN memory' = 0..1
        /\ block = 1 => memory'[0] = memory[0]
        /\ \A w \in 0..127 : memory'[block][w] =
             IF w \div 4 = chain THEN Digest(Link(block, chain + 1), w % 4)
                                 ELSE memory[block][w]
    BY <1>1, <1>2
  <2>2. ASSUME NEW w \in 0..127, w \div 4 < chain + 1
        PROVE  memory'[block][w] = Digest(Link(block, w \div 4 + 1), w % 4)
    <3>1. w \div 4 = chain \/ w \div 4 < chain
      BY <1>1, <2>2 DEF ChainLength
    <3> QED
      BY <1>1, <2>1, <3>1 DEF Stored
  <2> QED
    BY <1>1, <1>2, <2>1, <2>2 DEF Stored, Full
<1>4. ASSUME NEW r \in 1..12, NEW n \in 1..16
      PROVE  call'.message[sigma[r][n]] =
               IF LoopRounds[r][n] = X THEN Zero
               ELSE Digest(Link(block', chain' - 1), LoopRounds[r][n])
  <2>1. sigma[r][n] \in 0..15
        /\ LoopRounds[r][n] = IF sigma[r][n] < 8 THEN sigma[r][n] ELSE X
    BY RoundsAreSigma DEF RoundTakes
  <2>2. half[sigma[r][n]] = IF LoopRounds[r][n] = X THEN Zero
                            ELSE Digest(Link(block, chain), LoopRounds[r][n])
    BY <2>1 DEF X
  <2> HIDE DEF half
  <2>3. block' = block /\ chain' - 1 = chain /\ call'.message = half
    BY <1>1, <1>2
  <2>4. Digest(Link(block', chain' - 1), LoopRounds[r][n])
          = Digest(Link(block, chain), LoopRounds[r][n])
    BY <2>3
  <2> QED
    BY <2>2, <2>3, <2>4, Zenon
<1>5. FirstBlocksAsArgon2'
  <2>1. hashPc' # "block" /\ hashPc' # "searched" /\ chain' # 1
    BY <1>1, <1>2 DEF ChainLength
  <2> QED
    BY <1>4, <2>1, Zenon DEF FirstBlocksAsArgon2
<1>6. DigestHeld'
  BY <1>1, <1>2 DEF DigestHeld
<1> QED
  BY <1>1, <1>2, <1>3, <1>5, <1>6 DEF FirstInv, ChainLength

LEMMA ChainEndKeepsFirstInv ==
  ASSUME FirstInv, ChainEnd
  PROVE  FirstInv'
<1>1. /\ hashPc = "loop" /\ block \in 0..1 /\ DigestHeld /\ DOMAIN memory = 0..1
      /\ block = 1 => Full(0)
      /\ chain = 31 /\ Stored(block, 31)
  BY DEF ChainEnd, FirstInv, ChainLength
<1>2. /\ memory' = [memory EXCEPT ![block] =
                      [w \in 0..127 |-> IF w >= 124 THEN Digest(Link(block, 31), w - 120)
                                                    ELSE @[w]]]
      /\ buffer' = buffer
      /\ block = 0 => block' = 1 /\ hashPc' = "block"
      /\ block # 0 => block' = block /\ hashPc' = "searched"
  BY <1>1 DEF ChainEnd
<1>3. DOMAIN memory' = 0..1 /\ memory'[1 - block] = memory[1 - block]
  BY <1>1, <1>2
<1>4. ASSUME NEW w \in 0..127
      PROVE  memory'[block][w] = IF w < 120 THEN Digest(Link(block, w \div 4 + 1), w % 4)
                                 ELSE Digest(Link(block, 31), w - 120)
  <2>1. memory'[block][w] = IF w >= 124 THEN Digest(Link(block, 31), w - 120)
                            ELSE memory[block][w]
    BY <1>1, <1>2
  <2>2. CASE w < 124
    <3>1. memory[block][w] = Digest(Link(block, w \div 4 + 1), w % 4)
      BY <1>1, <2>2 DEF Stored
    <3>2. w >= 120 => w \div 4 + 1 = 31 /\ w % 4 = w - 120
      BY <2>2
    <3> QED
      BY <2>1, <2>2, <3>1, <3>2
  <2>3. CASE w >= 124
    BY <2>1, <2>3
  <2> QED
    BY <2>2, <2>3
<1>5. Full(0)' /\ (block = 1 => Full(1)')
  <2>1. CASE block = 0
    BY <1>4, <2>1 DEF Full, ChainLength
  <2>2. CASE block = 1
    BY <1>1, <1>3, <1>4, <2>2 DEF Full, ChainLength
  <2> QED
    BY <1>1, <2>1, <2>2
<1>6. FirstBlocksAsArgon2'
  <2>1. CASE block = 0
    BY <1>2, <2>1 DEF FirstBlocksAsArgon2
  <2>2. CASE block = 1
    <3>1. hashPc' = "searched" /\ \A b \in 0..1 : Full(b)'
      BY <1>2, <1>5, <2>2
    <3> QED
      BY <3>1 DEF FirstBlocksAsArgon2, Full
  <2> QED
    BY <1>1, <2>1, <2>2
<1> QED
  BY <1>1, <1>2, <1>3, <1>5, <1>6 DEF FirstInv, DigestHeld

LEMMA OtherHashesKeepFirstInv ==
  ASSUME FirstInv, Search2Step \/ UNCHANGED hashVars
  PROVE  FirstInv'
<1>1. CASE Search2Step
  <2>1. hashPc' \in {"compress", "hashed"} /\ block' = block /\ memory' = memory
    BY <1>1 DEF Search2Step, LoadFinal, CompressFinal, FinishFinal
  <2> QED
    BY <2>1 DEF FirstInv, FirstBlocksAsArgon2
<1>2. CASE UNCHANGED hashVars
  <2>1. UNCHANGED <<hashPc, buffer, block, chain, memory, call>>
    BY <1>2 DEF hashVars
  <2>2. FirstBlocksAsArgon2'
    BY <2>1 DEF FirstInv, FirstBlocksAsArgon2
  <2>3. (DigestHeld => DigestHeld') /\ (Full(0) => Full(0)')
    BY <2>1 DEF DigestHeld, Full
  <2>4. Stored(block, chain) => Stored(block, chain)'
    BY <2>1 DEF Stored
  <2> QED
    BY <2>1, <2>2, <2>3, <2>4 DEF FirstInv
<1> QED
  BY <1>1, <1>2

(* search hashes what argon2 prescribes, for its parameters and for every  *)
(* link of the chains of its first two blocks, with the words of every     *)
(* unrolled round, and fills every word of both (_kernel.h 156-1171,       *)
(* 1228-1307).                                                             *)
THEOREM FirstBlocksAreArgon2s == ItemSpec => []FirstBlocksAsArgon2
<1>1. FirstInv /\ [ItemNext]_itemVars => FirstInv'
  BY InitialKeepsFirstInv, BlockStartKeepsFirstInv, ChainKeepsFirstInv,
     ChainEndKeepsFirstInv, OtherHashesKeepFirstInv
     DEF ItemNext, itemVars, RunSearch, RunSearch1, RunSearch2, SearchStep
<1>2. FirstInv => FirstBlocksAsArgon2
  BY DEF FirstInv
<1> QED
  BY <1>1, <1>2, FirstInitInv, PTL DEF ItemSpec, ItemInit
=============================================================================
