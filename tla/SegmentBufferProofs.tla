------------------------ MODULE SegmentBufferProofs -------------------------
(***************************************************************************)
(* Every step is taken with the data of its own block, and none is lost or *)
(* taken twice, for every size of the segment ring from three on, all      *)
(* block lengths and any number of blocks.                                 *)
(*                                                                         *)
(* The argument: each block loaded leaves at least one segment, so the     *)
(* blocks of the segments in the ring, the one the interrupt is at and the *)
(* one being prepared follow each other without a gap (Chain).  A ring of  *)
(* n segments then spans at most n blocks, and a block d blocks back has   *)
(* its data d slots back (Indexed), a slot the next block does not reach   *)
(* as long as the ring has room for a segment of it.                       *)
(*                                                                         *)
(* The steps are counted along with it (Conserved): a segment published    *)
(* adds its steps at the end of the sum over the ring, the interrupt takes *)
(* one off the first, and it releases a segment when none is left of it.   *)
(***************************************************************************)
EXTENDS SegmentBuffer, WellFoundedInduction, TLAPS

Distance(t, h) == IF h >= t THEN h - t ELSE h - t + Size

(* The block data slot d blocks before slot i.                             *)
Back(i, d) == IF i >= d THEN i - d ELSE i - d + (Size - 1)

SegmentType == [index : BlockSlots, n_step : Nat \ {0}, block : Nat]

Final(n, S, c) == IF n = 0 THEN c ELSE S[n - 1].block

(* S are the n segments of the ring, c is the block of the counters and b  *)
(* the block prepared last.                                                *)
Chain(n, S, c, b) ==
  /\ Final(n, S, c) \in {b - 1, b}
  /\ Final(n, S, c) = b - 1 => n <= Size - 2
  /\ c <= Final(n, S, c) /\ Final(n, S, c) <= c + n
  /\ n > 0 => S[0].block \in {c, c + 1}
  /\ \A k \in 0 .. n - 1 : /\ S[k] \in SegmentType
                           /\ S[k].block <= Final(n, S, c)
                           /\ Final(n, S, c) <= S[k].block + (n - 1 - k)
  /\ \A k \in 0 .. n - 2 : S[k + 1].block \in {S[k].block, S[k].block + 1}

(* i is the slot of block b, e the slot of the interrupt, D the data.      *)
Indexed(n, S, c, b, i, e, D) ==
  /\ e = Back(i, b - c)
  /\ \A k \in 0 .. n - 1 : /\ S[k].index = Back(i, b - S[k].block)
                           /\ D[S[k].index] = S[k].block

View == [k \in 0 .. Count - 1 |-> Segment(k)]

PrepOK ==
  /\ segment_next_head = IF pc = "advance" THEN segment_buffer_head
                         ELSE NextSlot(segment_buffer_head)
  /\ pl_block => ~recalculate
  /\ pc \in {"publish", "advance"} => pl_block
  /\ pc = "publish" => /\ NextSlot(segment_buffer_head) # segment_buffer_tail
                       /\ segment_buffer[segment_buffer_head] \in SegmentType
                       /\ segment_buffer[segment_buffer_head].index = st_block_index
                       /\ segment_buffer[segment_buffer_head].block = block
  /\ pc = "advance" => Final(Count, View, counters) = block
  /\ IF pl_block \/ recalculate
     THEN current = block /\ st_block_buffer[st_block_index] = block
     ELSE current = block + 1 /\ Final(Count, View, counters) = block

ExecOK ==
  exec_segment => Count > 0 /\ step_count > 0 /\ Segment(0).block = counters

TypeOK ==
  /\ segment_buffer_tail \in Slots /\ segment_buffer_head \in Slots /\ segment_next_head \in Slots
  /\ segment_buffer \in [Slots -> [index : BlockSlots, n_step : Nat, block : Nat]]
  /\ st_block_buffer \in [BlockSlots -> Nat]
  /\ st_block_index \in BlockSlots /\ exec_block_index \in BlockSlots
  /\ block \in Nat /\ current \in Nat /\ counters \in Nat /\ length \in Nat \ {0}
  /\ steps_remaining \in Nat /\ step_count \in Nat
  /\ pl_block \in BOOLEAN /\ recalculate \in BOOLEAN /\ exec_segment \in BOOLEAN
  /\ pc \in {"ready", "publish", "advance"}

IInv ==
  /\ TypeOK /\ PrepOK /\ ExecOK
  /\ Chain(Count, View, counters, block)
  /\ Indexed(Count, View, counters, block, st_block_index, exec_block_index, st_block_buffer)

-----------------------------------------------------------------------------
(* The arithmetic of the two rings.                                        *)

(* What the ring indices of stepper.c compute, head and tail one apart     *)
(* meaning full.                                                           *)
LEMMA RingFacts ==
  ASSUME NEW t \in Slots, NEW h \in Slots
  PROVE  /\ Distance(t, h) \in 0 .. Size - 1
         /\ NextSlot(h) \in Slots
         /\ Distance(t, h) = 0 <=> h = t
         /\ NextSlot(h) # t => /\ Distance(t, h) <= Size - 2
                               /\ Distance(t, NextSlot(h)) = Distance(t, h) + 1
         /\ h # t => /\ Distance(NextSlot(t), h) = Distance(t, h) - 1
                     /\ NextSlot(h) # NextSlot(t)
BY SizeAssumption DEF Slots, Distance, NextSlot

(* The slot at an offset, up to the head and seen from the next tail.      *)
LEMMA SlotFacts ==
  ASSUME NEW t \in Slots, NEW h \in Slots
  PROVE  /\ SlotAt(t, 0) = t
         /\ SlotAt(t, Distance(t, h)) = h
         /\ \A k \in 0 .. Distance(t, h) - 1 : SlotAt(t, k) \in Slots \ {h}
         /\ \A k \in 0 .. Size - 2 : SlotAt(NextSlot(t), k) = SlotAt(t, k + 1)
BY SizeAssumption DEF Slots, Distance, NextSlot, SlotAt

(* The slot of a block, seen from the slot of the next one; two blocks     *)
(* that follow each other have different slots.                            *)
LEMMA BackFacts ==
  ASSUME NEW i \in BlockSlots
  PROVE  /\ NextBlockIndex(i) \in BlockSlots
         /\ Back(i, 0) = i
         /\ \A d \in 0 .. Size - 2 : /\ Back(i, d) \in BlockSlots
                                     /\ Back(NextBlockIndex(i), d + 1) = Back(i, d)
                                     /\ Back(i, d + 1) # Back(i, d)
         /\ \A d \in 0 .. Size - 3 : Back(i, d) # NextBlockIndex(i)
BY SizeAssumption DEF BlockSlots, NextBlockIndex, Back

-----------------------------------------------------------------------------
(* What loading a block, publishing a segment, fetching it and releasing   *)
(* it do to the chain of blocks and to their slots.                        *)

(* The planner's next block is loaded while the ring has room.             *)
LEMMA Loaded ==
  ASSUME NEW n \in Nat, n <= Size - 2, NEW S, NEW c \in Nat, NEW b \in Nat,
         NEW i \in BlockSlots, NEW e \in BlockSlots, NEW D \in [BlockSlots -> Nat],
         Chain(n, S, c, b), Final(n, S, c) = b, Indexed(n, S, c, b, i, e, D)
  PROVE  LET j == NextBlockIndex(i)
         IN /\ Chain(n, S, c, b + 1)
            /\ Indexed(n, S, c, b + 1, j, e, [D EXCEPT ![j] = b + 1])
<1> DEFINE j == NextBlockIndex(i)
           E == [D EXCEPT ![j] = b + 1]
<1>1. Chain(n, S, c, b + 1)
  BY SizeAssumption DEF Chain
<1>2. e = Back(j, (b + 1) - c)
  <2>1. b - c \in 0 .. Size - 2
    BY SizeAssumption DEF Chain
  <2>2. e = Back(i, b - c)
    BY DEF Indexed
  <2>3. Back(j, (b - c) + 1) = Back(i, b - c)
    BY <2>1, BackFacts
  <2> QED
    BY <2>1, <2>2, <2>3
<1>3. ASSUME NEW k \in 0 .. n - 1
      PROVE  /\ S[k].index = Back(j, (b + 1) - S[k].block)
             /\ E[S[k].index] = S[k].block
  <2> DEFINE d == b - S[k].block
  <2>1. S[k].block \in Nat /\ d \in 0 .. Size - 3
    BY SizeAssumption DEF Chain, SegmentType
  <2>2. S[k].index = Back(i, d) /\ D[S[k].index] = S[k].block
    BY DEF Indexed
  <2>3. /\ Back(j, d + 1) = Back(i, d)
        /\ Back(i, d) \in BlockSlots /\ Back(i, d) # j
    <3>1. d \in 0 .. Size - 2
      BY <2>1, SizeAssumption
    <3> HIDE DEF d
    <3> QED
      BY <2>1, <3>1, BackFacts
  <2>4. d + 1 = (b + 1) - S[k].block
    BY <2>1
  <2>5. S[k].index = Back(j, (b + 1) - S[k].block)
    BY <2>2, <2>3, <2>4
  <2>6. E[S[k].index] = D[S[k].index]
    BY <2>2, <2>3
  <2> QED
    BY <2>2, <2>5, <2>6
<1>4. Indexed(n, S, c, b + 1, j, e, E)
  <2> HIDE DEF j, E
  <2> QED
    BY <1>2, <1>3 DEF Indexed
<1> QED
  BY <1>1, <1>4

(* The main program publishes a segment of the block it prepares.          *)
LEMMA Pushed ==
  ASSUME NEW n \in Nat, NEW S, NEW c \in Nat, NEW b \in Nat,
         NEW i \in BlockSlots, NEW e, NEW D, NEW s \in SegmentType,
         Chain(n, S, c, b), Indexed(n, S, c, b, i, e, D),
         s.block = b, s.index = i, D[i] = b
  PROVE  LET T == [k \in 0 .. n |-> IF k < n THEN S[k] ELSE s]
         IN /\ Chain(n + 1, T, c, b) /\ Final(n + 1, T, c) = b
            /\ Indexed(n + 1, T, c, b, i, e, D)
<1> DEFINE T == [k \in 0 .. n |-> IF k < n THEN S[k] ELSE s]
<1>1. T[n] = s /\ \A k \in 0 .. n - 1 : T[k] = S[k]
  OBVIOUS
<1>2. Final(n + 1, T, c) = b
  BY <1>1 DEF Final
<1> DEFINE F == Final(n, S, c)
<1>3. F \in {b - 1, b} /\ c <= F /\ F <= c + n
  BY DEF Chain
<1>4. T[0].block \in {c, c + 1}
  <2>1. CASE n = 0
    BY <2>1, <1>1, <1>3
  <2>2. CASE n > 0
    BY <2>2, <1>1 DEF Chain
  <2> QED
    BY <2>1, <2>2
<1>5. ASSUME NEW k \in 0 .. n
      PROVE  T[k] \in SegmentType /\ T[k].block <= b /\ b <= T[k].block + (n - k)
  <2>1. CASE k = n
    BY <2>1, <1>1
  <2>2. CASE k < n
    <3>1. T[k] = S[k] /\ S[k] \in SegmentType /\ S[k].block <= F /\ F <= S[k].block + (n - 1 - k)
      BY <2>2, <1>1 DEF Chain
    <3>2. S[k].block \in Nat
      BY <3>1 DEF SegmentType
    <3> HIDE DEF F
    <3> QED
      BY <3>1, <3>2, <1>3
  <2> QED
    BY <2>1, <2>2
<1>6. ASSUME NEW k \in 0 .. n - 1
      PROVE  T[k + 1].block \in {T[k].block, T[k].block + 1}
  <2>1. CASE k = n - 1
    <3>1. T[k + 1].block = b /\ T[k] = S[n - 1]
      BY <2>1, <1>1
    <3>2. S[n - 1].block \in {b - 1, b}
      BY <2>1 DEF Chain, Final
    <3> QED
      BY <3>1, <3>2
  <2>2. CASE k < n - 1
    BY <2>2, <1>1 DEF Chain
  <2> QED
    BY <2>1, <2>2
<1>7. Chain(n + 1, T, c, b)
  <2>1. c <= b /\ b <= c + (n + 1)
    BY <1>3
  <2> HIDE DEF T, F
  <2> QED
    BY <1>2, <1>4, <1>5, <1>6, <2>1 DEF Chain
<1>8. ASSUME NEW k \in 0 .. n
      PROVE  T[k].index = Back(i, b - T[k].block) /\ D[T[k].index] = T[k].block
  <2>1. CASE k = n
    BY <2>1, <1>1, BackFacts
  <2>2. CASE k < n
    BY <2>2, <1>1 DEF Indexed
  <2> QED
    BY <2>1, <2>2
<1>9. Indexed(n + 1, T, c, b, i, e, D)
  <2> HIDE DEF T
  <2> QED
    BY <1>8 DEF Indexed
<1> QED
  BY <1>2, <1>7, <1>9

(* The interrupt fetches a segment: the comparison of the indices tells    *)
(* whether it is of another block.                                         *)
LEMMA Fetched ==
  ASSUME NEW n \in Nat \ {0}, n <= Size - 1, NEW S, NEW c \in Nat, NEW b \in Nat,
         NEW i \in BlockSlots, NEW e, NEW D,
         Chain(n, S, c, b), Indexed(n, S, c, b, i, e, D)
  PROVE  /\ e = S[0].index <=> S[0].block = c
         /\ Chain(n, S, S[0].block, b)
         /\ Final(n, S, S[0].block) = Final(n, S, c)
         /\ Indexed(n, S, S[0].block, b, i, S[0].index, D)
<1>1. /\ S[0] \in SegmentType /\ S[0].block \in {c, c + 1}
      /\ S[0].block <= Final(n, S, c) /\ Final(n, S, c) <= S[0].block + (n - 1)
  BY DEF Chain
<1>2. S[0].block \in Nat
  BY <1>1 DEF SegmentType
<1>3. Final(n, S, S[0].block) = Final(n, S, c)
  BY DEF Final
<1>4. /\ Final(n, S, c) \in {b - 1, b} /\ (Final(n, S, c) = b - 1 => n <= Size - 2)
      /\ Final(n, S, c) <= c + n
  BY DEF Chain
<1>5. Chain(n, S, S[0].block, b)
  BY <1>1, <1>2, <1>3, <1>4 DEF Chain
<1>6. e = Back(i, b - c) /\ S[0].index = Back(i, b - S[0].block)
  BY DEF Indexed
<1>7. Indexed(n, S, S[0].block, b, i, S[0].index, D)
  BY <1>6 DEF Indexed
<1>8. ASSUME S[0].block = c + 1 PROVE e # S[0].index
  <2> DEFINE d == b - (c + 1)
  <2>1. d \in 0 .. Size - 2 /\ d + 1 = b - c
    BY <1>8, <1>1, <1>4, SizeAssumption
  <2> HIDE DEF d
  <2>2. Back(i, d + 1) # Back(i, d)
    BY <2>1, BackFacts
  <2>3. e = Back(i, d + 1)
    BY <1>6, <2>1
  <2>4. S[0].index = Back(i, d)
    BY <1>6, <1>8 DEF d
  <2> QED
    BY <2>2, <2>3, <2>4
<1> QED
  BY <1>1, <1>3, <1>5, <1>6, <1>7, <1>8

(* It releases the segment.                                                *)
LEMMA Popped ==
  ASSUME NEW n \in Nat \ {0}, n <= Size - 1, NEW S, NEW c \in Nat, NEW b \in Nat,
         NEW i, NEW e, NEW D,
         Chain(n, S, c, b), Indexed(n, S, c, b, i, e, D), S[0].block = c
  PROVE  LET T == [k \in 0 .. n - 2 |-> S[k + 1]]
         IN /\ Chain(n - 1, T, c, b) /\ Final(n - 1, T, c) = Final(n, S, c)
            /\ Indexed(n - 1, T, c, b, i, e, D)
<1> DEFINE T == [k \in 0 .. n - 2 |-> S[k + 1]]
           F == Final(n, S, c)
<1>1. Final(n - 1, T, c) = F
  BY DEF Final
<1>2. \A k \in 0 .. n - 2 : T[k] = S[k + 1]
  OBVIOUS
<1>3. F \in {b - 1, b} /\ (F = b - 1 => n - 1 <= Size - 2) /\ c <= F /\ F <= c + (n - 1)
  <2>1. F <= S[0].block + (n - 1 - 0)
    BY DEF Chain
  <2> HIDE DEF F
  <2>2. F \in {b - 1, b} /\ (F = b - 1 => n <= Size - 2) /\ c <= F
    BY DEF Chain, F
  <2> QED
    BY <2>1, <2>2, SizeAssumption
<1>4. n - 1 > 0 => T[0].block \in {c, c + 1}
  BY <1>2 DEF Chain
<1>5. ASSUME NEW k \in 0 .. n - 2
      PROVE  T[k] \in SegmentType /\ T[k].block <= F /\ F <= T[k].block + (n - 2 - k)
  BY <1>2 DEF Chain
<1>6. ASSUME NEW k \in 0 .. n - 3
      PROVE  T[k + 1].block \in {T[k].block, T[k].block + 1}
  <2>1. T[k] = S[k + 1] /\ T[k + 1] = S[(k + 1) + 1]
    BY <1>2
  <2>2. k + 1 \in 0 .. n - 2
    OBVIOUS
  <2> QED
    BY <2>1, <2>2 DEF Chain
<1>7. Chain(n - 1, T, c, b)
  <2> HIDE DEF T, F
  <2> QED
    BY <1>1, <1>3, <1>4, <1>5, <1>6 DEF Chain
<1>8. Indexed(n - 1, T, c, b, i, e, D)
  BY <1>2 DEF Indexed
<1> QED
  BY <1>1, <1>7, <1>8

-----------------------------------------------------------------------------
(* Induction over the natural numbers, for a set in place of a predicate.  *)
LEMMA Induction ==
  ASSUME NEW T, 0 \in T, \A i \in Nat : i \in T => i + 1 \in T
  PROVE  Nat \subseteq T
<1> DEFINE Less == {ss \in Nat \X Nat : ss[1] < ss[2]}
<1>1. SUFFICES ASSUME Nat \ T # {} PROVE FALSE
  OBVIOUS
<1>2. IsWellFoundedOn(Less, Nat)
  BY NatLessThanWellFounded DEF OpToRel
<1>3. PICK x \in Nat \ T : \A y \in Nat \ T : ~ (<<y, x>> \in Less)
  <2> HIDE DEF Less
  <2> QED BY <1>1, <1>2, WFMin
<1>4. x # 0 /\ x - 1 \in Nat /\ x - 1 \notin T
  BY <1>3
<1>5. <<x - 1, x>> \in Less
  BY <1>4
<1> QED
  BY <1>3, <1>4, <1>5

(* A function defined by recursion: its values up to any number.           *)
Steps(V) == [Nat -> [V -> V]]
Follows(f, V, first, next, m) ==
  /\ f \in [0 .. m -> V]
  /\ \A i \in 0 .. m : f[i] = IF i = 0 THEN first ELSE next[i][f[i - 1]]
(* A function that is defined by recursion exists: step by step.           *)
LEMMA Recursion ==
  ASSUME NEW V, NEW first \in V, NEW next \in Steps(V), NEW m \in Nat
  PROVE  \E f : Follows(f, V, first, next, m)
<1> DEFINE Upto(k) == \E f \in [0 .. k -> V] :
              \A i \in 0 .. k : f[i] = IF i = 0 THEN first ELSE next[i][f[i - 1]]
           T == {k \in Nat : Upto(k)}
<1>1. 0 \in T
  <2> DEFINE f == [i \in 0 .. 0 |-> first]
  <2>1. f \in [0 .. 0 -> V] /\ \A i \in 0 .. 0 : i = 0 /\ f[i] = first
    OBVIOUS
  <2>2. Upto(0)
    <3> HIDE DEF f
    <3> QED BY <2>1
  <2> QED BY <2>2
<1>2. ASSUME NEW k \in Nat, k \in T PROVE k + 1 \in T
  <2>1. PICK f \in [0 .. k -> V] :
          \A i \in 0 .. k : f[i] = IF i = 0 THEN first ELSE next[i][f[i - 1]]
    BY <1>2
  <2> DEFINE g == [i \in 0 .. k + 1 |-> IF i = k + 1 THEN next[k + 1][f[k]] ELSE f[i]]
  <2>2. next[k + 1][f[k]] \in V
    BY <2>1 DEF Steps
  <2>3. g \in [0 .. k + 1 -> V]
    BY <2>1, <2>2
  <2>4. \A i \in 0 .. k + 1 : g[i] = IF i = 0 THEN first ELSE next[i][g[i - 1]]
    <3> TAKE i \in 0 .. k + 1
    <3>1. CASE i = k + 1
      BY <3>1
    <3>2. CASE i # k + 1
      <4>1. i \in 0 .. k /\ g[i] = f[i] /\ (i # 0 => g[i - 1] = f[i - 1])
        BY <3>2
      <4> QED BY <2>1, <4>1
    <3> QED BY <3>1, <3>2
  <2>5. Upto(k + 1)
    <3> HIDE DEF g
    <3> QED BY <2>3, <2>4
  <2> QED
    BY <2>5
<1>3. Nat \subseteq T
  <2> HIDE DEF T
  <2> QED BY <1>1, <1>2, Induction
<1> QED
  BY <1>3 DEF Follows

(* Sums: f[k] is the sum of the first k of h, up to n.                     *)
Sums(f, h, n) ==
  /\ f \in [0 .. n -> Nat] /\ f[0] = 0
  /\ \A k \in 0 .. n - 1 : f[k + 1] = f[k] + h[k]
Counted(h, n) == \A k \in 0 .. n - 1 : h[k] \in Nat

(* Total is such a sum.                                                    *)
LEMMA TotalSums ==
  ASSUME NEW n \in Nat, NEW h, Counted(h, n)
  PROVE  \E f : Sums(f, h, n) /\ Total(h, n) = f[n]
<1> DEFINE Is(f) == f = [k \in 0 .. n |-> IF k = 0 THEN 0 ELSE f[k - 1] + h[k - 1]]
           step == [k \in Nat |-> [v \in Nat |-> IF k \in 1 .. n THEN v + h[k - 1] ELSE 0]]
           sum == CHOOSE f : Is(f)
<1>1. step \in Steps(Nat)
  BY DEF Steps, Counted
<1>2. PICK f : Follows(f, Nat, 0, step, n)
  <2> HIDE DEF step
  <2> QED BY <1>1, Recursion
<1>3. \A k \in 0 .. n : f[k] = IF k = 0 THEN 0 ELSE f[k - 1] + h[k - 1]
  <2> TAKE k \in 0 .. n
  <2>1. k # 0 => k \in 1 .. n /\ k \in Nat /\ f[k - 1] \in Nat
    BY <1>2 DEF Follows
  <2> QED BY <1>2, <2>1 DEF Follows
<1>4. Is(f)
  BY <1>2, <1>3 DEF Follows
<1>5. Is(sum)
  <2> HIDE DEF Is
  <2> QED BY <1>4
<1>6. \A k \in 0 .. n : sum[k] = IF k = 0 THEN 0 ELSE sum[k - 1] + h[k - 1]
  <2> HIDE DEF sum
  <2> QED BY <1>5
<1>7. Total(h, n) = sum[n]
  BY DEF Total
<1>8. sum = [k \in 0 .. n |-> sum[k]]
  <2> HIDE DEF sum
  <2> QED BY <1>5
<1> HIDE DEF sum
<1>9. \A k \in 0 .. n : sum[k] \in Nat
  <2> DEFINE T == {k \in Nat : k \in 0 .. n => sum[k] \in Nat}
  <2>1. 0 \in T
    BY <1>6
  <2>2. ASSUME NEW k \in Nat, k \in T PROVE k + 1 \in T
    <3> SUFFICES ASSUME k + 1 \in 0 .. n PROVE sum[k + 1] \in Nat
      OBVIOUS
    <3>1. sum[k + 1] = sum[k] + h[k] /\ h[k] \in Nat /\ sum[k] \in Nat
      BY <1>6, <2>2 DEF Counted
    <3> QED BY <3>1
  <2>3. Nat \subseteq T
    <3> HIDE DEF T
    <3> QED BY <2>1, <2>2, Induction
  <2> QED BY <2>3
<1>10. sum \in [0 .. n -> Nat]
  BY <1>8, <1>9
<1>11. sum[0] = 0 /\ \A k \in 0 .. n - 1 : sum[k + 1] = sum[k] + h[k]
  BY <1>6
<1> QED
  BY <1>7, <1>10, <1>11 DEF Sums

(* The sums of two that agree are the same as far as they agree.           *)
LEMMA SumsAgree ==
  ASSUME NEW n \in Nat, NEW m \in Nat, m <= n, NEW f, NEW g, NEW h, NEW i,
         Sums(f, h, n), Sums(g, i, m), \A k \in 0 .. m - 1 : h[k] = i[k]
  PROVE  \A k \in 0 .. m : f[k] = g[k]
<1> DEFINE T == {k \in Nat : k \in 0 .. m => f[k] = g[k]}
<1>1. 0 \in T
  BY DEF Sums
<1>2. ASSUME NEW k \in Nat, k \in T PROVE k + 1 \in T
  <2> SUFFICES ASSUME k + 1 \in 0 .. m PROVE f[k + 1] = g[k + 1]
    OBVIOUS
  <2>1. f[k + 1] = f[k] + h[k] /\ g[k + 1] = g[k] + i[k] /\ h[k] = i[k] /\ f[k] = g[k]
    BY <1>2 DEF Sums
  <2> QED BY <2>1
<1>3. Nat \subseteq T
  <2> HIDE DEF T
  <2> QED BY <1>1, <1>2, Induction
<1> QED
  BY <1>3

(* What the steps of the model do to a sum.  Without a segment it is zero. *)
LEMMA TotalEmpty == ASSUME NEW h PROVE Total(h, 0) = 0
<1>1. PICK f : Sums(f, h, 0) /\ Total(h, 0) = f[0]
  BY TotalSums DEF Counted
<1> QED
  BY <1>1 DEF Sums

(* The sum is a number.                                                    *)
LEMMA TotalType == ASSUME NEW n \in Nat, NEW h, Counted(h, n) PROVE Total(h, n) \in Nat
<1>1. PICK f : Sums(f, h, n) /\ Total(h, n) = f[n]
  BY TotalSums
<1> QED
  BY <1>1 DEF Sums

(* Two that agree have the same sum.                                       *)
LEMMA TotalSame ==
  ASSUME NEW n \in Nat, NEW h, NEW i, Counted(h, n), \A k \in 0 .. n - 1 : h[k] = i[k]
  PROVE  Total(h, n) = Total(i, n)
<1>1. Counted(i, n)
  BY DEF Counted
<1>2. PICK f : Sums(f, h, n) /\ Total(h, n) = f[n]
  BY TotalSums
<1>3. PICK g : Sums(g, i, n) /\ Total(i, n) = g[n]
  BY <1>1, TotalSums
<1> QED
  BY <1>2, <1>3, SumsAgree

(* A number is added at the end.                                           *)
LEMMA TotalAppend ==
  ASSUME NEW n \in Nat, NEW h, NEW i, Counted(h, n + 1), \A k \in 0 .. n - 1 : h[k] = i[k]
  PROVE  Total(h, n + 1) = Total(i, n) + h[n]
<1>1. Counted(i, n) /\ n + 1 \in Nat
  BY DEF Counted
<1>2. PICK f : Sums(f, h, n + 1) /\ Total(h, n + 1) = f[n + 1]
  BY <1>1, TotalSums
<1>3. PICK g : Sums(g, i, n) /\ Total(i, n) = g[n]
  BY <1>1, TotalSums
<1>4. f[n] = g[n]
  BY <1>1, <1>2, <1>3, SumsAgree
<1>5. f[n + 1] = f[n] + h[n]
  BY <1>2 DEF Sums
<1> QED
  BY <1>2, <1>3, <1>4, <1>5

(* The first is taken away.                                                *)
LEMMA TotalTail ==
  ASSUME NEW n \in Nat, NEW h, NEW t, Counted(h, n + 1), \A k \in 0 .. n - 1 : t[k] = h[k + 1]
  PROVE  Total(h, n + 1) = h[0] + Total(t, n)
<1>1. Counted(t, n) /\ n + 1 \in Nat /\ h[0] \in Nat
  BY DEF Counted
<1>2. PICK f : Sums(f, h, n + 1) /\ Total(h, n + 1) = f[n + 1]
  BY <1>1, TotalSums
<1>3. PICK g : Sums(g, t, n) /\ Total(t, n) = g[n]
  BY <1>1, TotalSums
<1> DEFINE T == {k \in Nat : k \in 0 .. n => f[k + 1] = h[0] + g[k]}
<1>4. 0 \in T
  <2>1. f[0 + 1] = f[0] + h[0] /\ f[0] = 0 /\ g[0] = 0
    BY <1>2, <1>3 DEF Sums
  <2> QED BY <1>1, <2>1
<1>5. ASSUME NEW k \in Nat, k \in T PROVE k + 1 \in T
  <2> SUFFICES ASSUME k + 1 \in 0 .. n PROVE f[(k + 1) + 1] = h[0] + g[k + 1]
    OBVIOUS
  <2>1. /\ f[(k + 1) + 1] = f[k + 1] + h[k + 1] /\ g[k + 1] = g[k] + t[k]
        /\ t[k] = h[k + 1] /\ h[k + 1] \in Nat /\ g[k] \in Nat
    BY <1>2, <1>3 DEF Sums, Counted
  <2>2. f[k + 1] = h[0] + g[k]
    BY <1>5
  <2> QED BY <1>1, <2>1, <2>2
<1>6. Nat \subseteq T
  <2> HIDE DEF T
  <2> QED BY <1>4, <1>5, Induction
<1> QED
  BY <1>2, <1>3, <1>6

-----------------------------------------------------------------------------
(* The steps.                                                              *)

(* A block has steps: st_prep_buffer() never loads an empty one.           *)
LEMMA LengthFacts == \A l \in Lengths : l \in Nat /\ l # 0
BY LengthAssumption

(* The ring as the sequence of its segments, oldest first.                 *)
LEMMA ViewFacts ==
  ASSUME TypeOK
  PROVE  /\ Count = Distance(segment_buffer_tail, segment_buffer_head)
         /\ Count \in 0 .. Size - 1
         /\ Count = 0 <=> segment_buffer_head = segment_buffer_tail
         /\ \A k \in 0 .. Count - 1 : View[k] = Segment(k)
         /\ Count > 0 => View[0] = segment_buffer[segment_buffer_tail]
<1>1. Count = Distance(segment_buffer_tail, segment_buffer_head)
  BY DEF Count, Distance
<1>2. /\ Count \in 0 .. Size - 1
      /\ Count = 0 <=> segment_buffer_head = segment_buffer_tail
  BY <1>1, RingFacts DEF TypeOK
<1>3. \A k \in 0 .. Count - 1 : View[k] = Segment(k)
  BY DEF View
<1>4. Segment(0) = segment_buffer[segment_buffer_tail]
  BY SlotFacts DEF Segment, TypeOK
<1> QED
  BY <1>1, <1>2, <1>3, <1>4

(* It is the same as long as nothing of the ring is written.               *)
LEMMA ViewKept ==
  ASSUME UNCHANGED <<segment_buffer, segment_buffer_tail, segment_buffer_head>>
  PROVE  Count' = Count /\ View' = View /\ Segment(0)' = Segment(0)
BY DEF Count, View, Segment

(* The invariant holds after st_reset().                                   *)
THEOREM Initial == Init => IInv
<1> SUFFICES ASSUME Init PROVE IInv
  OBVIOUS
<1> USE DEF Init
<1>1. TypeOK
  <2>1. length \in Nat \ {0}
    BY LengthFacts
  <2>2. segment_buffer \in [Slots -> [index : BlockSlots, n_step : Nat, block : Nat]]
    BY SizeAssumption DEF Slots, BlockSlots, NoSegment
  <2>3. st_block_buffer \in [BlockSlots -> Nat]
    OBVIOUS
  <2>4. 0 \in Slots /\ 1 \in Slots /\ 0 \in BlockSlots
    BY SizeAssumption DEF Slots, BlockSlots
  <2> QED
    BY <2>1, <2>2, <2>3, <2>4 DEF TypeOK
<1>2. Count = 0
  BY DEF Count
<1>3. Final(Count, View, counters) = 0
  BY <1>2 DEF Final
<1>4. PrepOK
  BY <1>3, SizeAssumption DEF PrepOK, NextSlot
<1>5. Chain(Count, View, counters, block)
  BY <1>2, <1>3, SizeAssumption DEF Chain
<1>6. Indexed(Count, View, counters, block, st_block_index, exec_block_index, st_block_buffer)
  BY <1>2, SizeAssumption DEF Indexed, Back
<1> QED
  BY <1>1, <1>4, <1>5, <1>6 DEF IInv, ExecOK

(* Steps that only change whether a block is being prepared, or nothing.   *)
LEMMA RingKept ==
  ASSUME IInv,
         UNCHANGED <<ring, st_block_buffer, current, length, st_block_index, block,
                     steps_remaining, pc, exec>>,
         pl_block' \in BOOLEAN, recalculate' \in BOOLEAN, ~(pl_block' /\ recalculate'),
         pc = "ready" \/ pl_block' = pl_block,
         (pl_block' \/ recalculate') <=> (pl_block \/ recalculate)
  PROVE  IInv'
<1>1. Count' = Count /\ View' = View /\ Segment(0)' = Segment(0)
  BY ViewKept DEF ring
<1>2. TypeOK'
  BY DEF IInv, TypeOK, ring, exec
<1>3. PrepOK'
  BY <1>1 DEF IInv, PrepOK, ring, exec
<1>4. ExecOK'
  BY <1>1 DEF IInv, ExecOK, exec
<1>5. Chain(Count, View, counters, block)'
  BY <1>1 DEF IInv, exec
<1>6. Indexed(Count, View, counters, block, st_block_index, exec_block_index, st_block_buffer)'
  BY <1>1 DEF IInv, exec
<1> QED
  BY <1>2, <1>3, <1>4, <1>5, <1>6 DEF IInv

(* Loading a block: the slot taken is not the one of any segment.          *)
LEMMA LoadBlockStep == ASSUME IInv, LoadBlock PROVE IInv'
<1> DEFINE j == NextBlockIndex(st_block_index)
<1> USE DEF IInv
<1>1. /\ pc = "ready" /\ segment_buffer_tail # segment_next_head
      /\ ~pl_block /\ ~recalculate /\ pl_block' = TRUE /\ block' = current
      /\ steps_remaining' = length /\ st_block_index' = j
      /\ st_block_buffer' = [st_block_buffer EXCEPT ![j] = current]
      /\ UNCHANGED <<segment_buffer, segment_buffer_tail, segment_buffer_head, segment_next_head,
                     current, length, recalculate, pc, exec_segment, exec_block_index,
                     counters, step_count>>
  BY DEF LoadBlock, Prepares, ring, exec
<1>2. /\ current = block + 1 /\ Final(Count, View, counters) = block
      /\ NextSlot(segment_buffer_head) # segment_buffer_tail
  BY <1>1 DEF PrepOK
<1>3. Count <= Size - 2 /\ Count \in Nat
  BY <1>2, ViewFacts, RingFacts, SizeAssumption DEF TypeOK
<1>4. Count' = Count /\ View' = View /\ Segment(0)' = Segment(0)
  BY <1>1, ViewKept
<1>5. j \in BlockSlots
  BY BackFacts DEF TypeOK
<1>6. TypeOK'
  <2> HIDE DEF j
  <2> QED
    BY <1>1, <1>5 DEF TypeOK
<1>7. /\ Chain(Count, View, counters, block + 1)
      /\ Indexed(Count, View, counters, block + 1, j, exec_block_index,
                 [st_block_buffer EXCEPT ![j] = block + 1])
  BY <1>2, <1>3, Loaded DEF TypeOK
<1>8. st_block_buffer'[j] = current
  BY <1>1, <1>5 DEF TypeOK
<1>9. PrepOK'
  BY <1>1, <1>8 DEF PrepOK
<1>10. ExecOK'
  BY <1>1, <1>4 DEF ExecOK
<1> QED
  BY <1>1, <1>2, <1>4, <1>6, <1>7, <1>9, <1>10

(* The slot at the head is not one of the segments the interrupt may see.  *)
LEMMA WriteSegmentStep == ASSUME IInv, WriteSegment PROVE IInv'
<1> USE DEF IInv
<1> PICK n \in 1 .. steps_remaining :
      /\ segment_buffer' = [segment_buffer EXCEPT ![segment_buffer_head] =
           [index |-> st_block_index, n_step |-> n, block |-> block]]
      /\ steps_remaining' = steps_remaining - n
  BY DEF WriteSegment
<1>1. /\ pc = "ready" /\ segment_buffer_tail # segment_next_head /\ pl_block /\ pc' = "publish"
      /\ UNCHANGED <<segment_buffer_tail, segment_buffer_head, segment_next_head,
                     st_block_buffer, current, length, pl_block, st_block_index, block,
                     recalculate, exec_segment, exec_block_index, counters, step_count>>
  BY DEF WriteSegment, Prepares, exec
<1>2. NextSlot(segment_buffer_head) = segment_next_head
  BY <1>1 DEF PrepOK
<1>3. /\ segment_buffer'[segment_buffer_head] =
           [index |-> st_block_index, n_step |-> n, block |-> block]
      /\ \A i \in Slots \ {segment_buffer_head} : segment_buffer'[i] = segment_buffer[i]
  BY DEF TypeOK
<1>4. [index |-> st_block_index, n_step |-> n, block |-> block] \in SegmentType
  BY DEF TypeOK, SegmentType
<1>5. TypeOK'
  <2>1. steps_remaining' \in Nat
    BY DEF TypeOK
  <2>2. segment_buffer' \in [Slots -> [index : BlockSlots, n_step : Nat, block : Nat]]
    BY <1>4 DEF TypeOK, SegmentType
  <2> QED
    BY <1>1, <2>1, <2>2 DEF TypeOK
<1>6. Count' = Count
  BY <1>1 DEF Count
<1>7. \A k \in 0 .. Count - 1 : Segment(k)' = Segment(k)
  <2>1. \A k \in 0 .. Count - 1 :
          SlotAt(segment_buffer_tail, k) \in Slots \ {segment_buffer_head}
    BY ViewFacts, SlotFacts DEF TypeOK
  <2> QED
    BY <1>1, <1>3, <2>1 DEF Segment
<1>8. View' = View
  BY <1>6, <1>7 DEF View
<1>9. PrepOK'
  BY <1>1, <1>2, <1>3, <1>4, <1>6, <1>8 DEF PrepOK
<1>10. ExecOK'
  BY <1>1, <1>6, <1>7, ViewFacts DEF ExecOK
<1> QED
  BY <1>1, <1>5, <1>6, <1>8, <1>9, <1>10

(* The head moves over the segment just written.                           *)
LEMMA PublishStep == ASSUME IInv, Publish PROVE IInv'
<1> USE DEF IInv
<1> DEFINE s == segment_buffer[segment_buffer_head]
<1>1. /\ pc = "publish" /\ pc' = "advance" /\ segment_buffer_head' = segment_next_head
      /\ UNCHANGED <<segment_buffer, segment_buffer_tail, segment_next_head, st_block_buffer,
                     current, length, pl_block, st_block_index, block, steps_remaining,
                     recalculate, exec_segment, exec_block_index, counters, step_count>>
  BY DEF Publish, prep, exec
<1>2. /\ segment_next_head = NextSlot(segment_buffer_head)
      /\ NextSlot(segment_buffer_head) # segment_buffer_tail
      /\ s \in SegmentType /\ s.index = st_block_index /\ s.block = block
      /\ pl_block /\ st_block_buffer[st_block_index] = block
  BY <1>1 DEF PrepOK
<1>3. TypeOK'
  BY <1>1 DEF TypeOK
<1>4. Count' = Count + 1 /\ Count \in Nat
  <2>1. Count' = Distance(segment_buffer_tail, NextSlot(segment_buffer_head))
    BY <1>1, <1>2 DEF Count, Distance
  <2> QED
    BY <2>1, <1>2, ViewFacts, RingFacts DEF TypeOK
<1>5. View' = [k \in 0 .. Count |-> IF k < Count THEN View[k] ELSE s]
  <2>1. \A k \in 0 .. Count : Segment(k)' = Segment(k)
    BY <1>1 DEF Segment
  <2>2. Segment(Count) = s
    BY ViewFacts, SlotFacts DEF Segment, TypeOK
  <2>3. View' = [k \in 0 .. Count |-> Segment(k)']
    BY <1>4 DEF View
  <2>4. \A k \in 0 .. Count : Segment(k) = IF k < Count THEN View[k] ELSE s
    BY <2>2, ViewFacts, <1>4
  <2> HIDE DEF s
  <2> QED
    BY <2>1, <2>3, <2>4
<1>6. /\ Chain(Count + 1, View', counters, block)
      /\ Final(Count + 1, View', counters) = block
      /\ Indexed(Count + 1, View', counters, block, st_block_index, exec_block_index,
                 st_block_buffer)
  <2>1. counters \in Nat /\ block \in Nat /\ st_block_index \in BlockSlots
    BY DEF TypeOK
  <2> HIDE DEF s
  <2> DEFINE T == [k \in 0 .. Count |-> IF k < Count THEN View[k] ELSE s]
  <2>2. /\ Chain(Count + 1, T, counters, block) /\ Final(Count + 1, T, counters) = block
        /\ Indexed(Count + 1, T, counters, block, st_block_index, exec_block_index,
                   st_block_buffer)
    BY <2>1, <1>2, <1>4, Pushed
  <2> QED
    BY <2>2, <1>5
<1>7. PrepOK'
  BY <1>1, <1>2, <1>4, <1>6 DEF PrepOK
<1>8. ExecOK'
  BY <1>1, <1>4 DEF ExecOK, Segment
<1> QED
  BY <1>1, <1>3, <1>4, <1>6, <1>7, <1>8

(* A block is discarded only after its last segment was published.         *)
LEMMA AdvanceStep == ASSUME IInv, Advance PROVE IInv'
<1> USE DEF IInv
<1>1. /\ pc = "advance" /\ pc' = "ready" /\ segment_next_head' = NextSlot(segment_next_head)
      /\ UNCHANGED <<segment_buffer, segment_buffer_tail, segment_buffer_head, st_block_buffer,
                     st_block_index, block, steps_remaining, recalculate, exec_segment,
                     exec_block_index, counters, step_count>>
      /\ \/ pl_block' = FALSE /\ current' = current + 1 /\ length' \in Lengths
         \/ UNCHANGED <<pl_block, current, length>>
  BY DEF Advance, exec
<1>2. /\ segment_next_head = segment_buffer_head /\ pl_block /\ ~recalculate
      /\ Final(Count, View, counters) = block /\ current = block
      /\ st_block_buffer[st_block_index] = block
  BY <1>1 DEF PrepOK
<1>3. Count' = Count /\ View' = View /\ Segment(0)' = Segment(0)
  BY <1>1, ViewKept
<1>4. TypeOK'
  <2>1. segment_next_head' \in Slots
    BY <1>1, RingFacts DEF TypeOK
  <2>2. pl_block' \in BOOLEAN
    BY <1>1, Zenon DEF TypeOK
  <2>3. length' \in Nat \ {0} /\ current' \in Nat
    BY <1>1, LengthFacts, SMT DEF TypeOK
  <2> QED
    BY <1>1, <2>1, <2>2, <2>3 DEF TypeOK
<1>5. PrepOK'
  BY <1>1, <1>2, <1>3 DEF PrepOK
<1>6. ExecOK'
  BY <1>1, <1>3 DEF ExecOK
<1> QED
  BY <1>1, <1>3, <1>4, <1>5, <1>6

(* st_reset() empties the ring and forgets the block.                      *)
LEMMA ResetStep == ASSUME IInv, Reset PROVE IInv'
<1> USE DEF IInv
<1>1. /\ pc = "ready" /\ pc' = "ready"
      /\ segment_buffer_tail' = 0 /\ segment_buffer_head' = 0 /\ segment_next_head' = 1
      /\ pl_block' = FALSE /\ st_block_index' = 0 /\ recalculate' = FALSE /\ steps_remaining' = 0
      /\ current' = current + 1 /\ length' \in Lengths /\ block' = current
      /\ exec_segment' = FALSE /\ exec_block_index' = 0 /\ counters' = current
      /\ step_count' = 0
      /\ UNCHANGED <<segment_buffer, st_block_buffer>>
  BY DEF Reset
<1>2. TypeOK'
  <2>1. length' \in Nat \ {0}
    BY <1>1, LengthFacts
  <2>2. /\ {0, 1} \subseteq Slots /\ 0 \in BlockSlots
        /\ current' \in Nat /\ current \in Nat
    BY <1>1, SizeAssumption DEF TypeOK, Slots, BlockSlots
  <2> QED
    BY <1>1, <2>1, <2>2 DEF TypeOK
<1>3. Count' = 0
  BY <1>1 DEF Count
<1>4. Final(Count', View', counters') = current
  BY <1>1, <1>3 DEF Final
<1>5. PrepOK'
  BY <1>1, <1>4, SizeAssumption DEF PrepOK, NextSlot
<1>6. ExecOK'
  BY <1>1 DEF ExecOK
<1>7. Chain(0, View', current, current)
  BY SizeAssumption DEF Chain, Final, TypeOK
<1>8. Indexed(0, View', current, current, 0, 0, st_block_buffer')
  BY SizeAssumption DEF Indexed, Back, TypeOK
<1> QED
  BY <1>1, <1>2, <1>3, <1>5, <1>6, <1>7, <1>8

(* What the interrupt takes up: a segment of the block of its counters.    *)
LEMMA TickFacts ==
  ASSUME IInv, Tick
  PROVE  LET own == segment_buffer[segment_buffer_tail]
         IN /\ Count > 0 /\ View[0] = own /\ own \in SegmentType
            /\ counters' = own.block /\ exec_block_index' = own.index
            /\ st_block_buffer[own.index] = own.block
            /\ Chain(Count, View, own.block, block)
            /\ Final(Count, View, own.block) = Final(Count, View, counters)
            /\ Indexed(Count, View, own.block, block, st_block_index, own.index,
                       st_block_buffer)
<1> USE DEF IInv
<1> DEFINE own == segment_buffer[segment_buffer_tail]
<1>1. Count > 0 /\ Count \in Nat \ {0} /\ Count <= Size - 1 /\ View[0] = own
  BY ViewFacts DEF Tick, ExecOK
<1>2. own \in SegmentType /\ st_block_buffer[own.index] = own.block
  BY <1>1, SizeAssumption DEF Chain, Indexed
<1>3. /\ exec_block_index = own.index <=> own.block = counters
      /\ Chain(Count, View, own.block, block)
      /\ Final(Count, View, own.block) = Final(Count, View, counters)
      /\ Indexed(Count, View, own.block, block, st_block_index, own.index, st_block_buffer)
  BY <1>1, Fetched DEF TypeOK
<1>4. /\ counters' = IF ~exec_segment /\ exec_block_index # own.index
                     THEN st_block_buffer[own.index] ELSE counters
      /\ exec_block_index' = IF ~exec_segment /\ exec_block_index # own.index
                             THEN own.index ELSE exec_block_index
  BY DEF Tick
<1>5. exec_segment => own.block = counters
  BY <1>1, ViewFacts DEF ExecOK
<1> HIDE DEF own
<1>6. counters' = own.block /\ exec_block_index' = own.index
  BY <1>2, <1>3, <1>4, <1>5
<1> QED
  BY <1>1, <1>2, <1>3, <1>6 DEF own

(* The interrupt takes a step, and releases the segment with its last one. *)
LEMMA TickStep == ASSUME IInv, Tick PROVE IInv'
<1> USE DEF IInv
<1> DEFINE own == segment_buffer[segment_buffer_tail]
           count == IF exec_segment THEN step_count ELSE own.n_step
<1>1. /\ step_count' = count - 1 /\ exec_segment' = (count # 1)
      /\ segment_buffer_tail' = IF count = 1 THEN NextSlot(segment_buffer_tail)
                                ELSE segment_buffer_tail
      /\ UNCHANGED <<segment_buffer, segment_buffer_head, segment_next_head,
                     st_block_buffer, current, length, pl_block, st_block_index, block,
                     steps_remaining, recalculate, pc>>
  BY DEF Tick, prep
<1>2. /\ Count > 0 /\ View[0] = own /\ own \in SegmentType
      /\ counters' = own.block /\ exec_block_index' = own.index
      /\ Chain(Count, View, own.block, block)
      /\ Final(Count, View, own.block) = Final(Count, View, counters)
      /\ Indexed(Count, View, own.block, block, st_block_index, own.index, st_block_buffer)
  BY TickFacts
<1>3. count \in Nat \ {0}
  BY <1>2 DEF ExecOK, TypeOK, SegmentType
<1>4. segment_buffer_head # segment_buffer_tail /\ Count \in Nat \ {0} /\ Count <= Size - 1
  BY <1>2, ViewFacts
<1>5. TypeOK'
  <2>1. segment_buffer_tail' \in Slots
    BY <1>1, RingFacts DEF TypeOK
  <2>2. own.block \in Nat /\ own.index \in BlockSlots
    BY <1>2 DEF SegmentType
  <2>3. step_count' \in Nat /\ exec_segment' \in BOOLEAN
    BY <1>1, <1>3
  <2> HIDE DEF own, count
  <2> QED
    BY <1>1, <1>2, <2>1, <2>2, <2>3 DEF TypeOK
<1>6. /\ Chain(Count', View', own.block, block)
      /\ Final(Count', View', own.block) = Final(Count, View, counters)
      /\ Indexed(Count', View', own.block, block, st_block_index, own.index, st_block_buffer)
  <2>1. CASE count = 1
    <3>1. Count' = Count - 1
      <4>1. Count' = Distance(NextSlot(segment_buffer_tail), segment_buffer_head)
        BY <2>1, <1>1 DEF Count, Distance
      <4> QED
        BY <4>1, <1>4, ViewFacts, RingFacts DEF TypeOK
    <3>2. \A k \in 0 .. Count - 2 : Segment(k)' = Segment(k + 1)
      <4>1. \A k \in 0 .. Size - 2 :
              SlotAt(NextSlot(segment_buffer_tail), k) = SlotAt(segment_buffer_tail, k + 1)
        BY SlotFacts DEF TypeOK
      <4>2. \A k \in 0 .. Count - 2 : k \in 0 .. Size - 2
        BY <1>4, SizeAssumption
      <4>3. \A k : Segment(k)' = segment_buffer[SlotAt(NextSlot(segment_buffer_tail), k)]
        BY <2>1, <1>1 DEF Segment, SlotAt
      <4> QED
        BY <4>1, <4>2, <4>3 DEF Segment
    <3>3. \A k \in 0 .. Count - 2 : Segment(k + 1) = View[k + 1]
      BY <1>4, ViewFacts
    <3>4. View' = [k \in 0 .. Count - 2 |-> View[k + 1]]
      <4>1. View' = [k \in 0 .. Count' - 1 |-> Segment(k)']
        BY DEF View
      <4>2. 0 .. Count' - 1 = 0 .. Count - 2
        BY <3>1, <1>4
      <4> QED
        BY <3>2, <3>3, <4>1, <4>2
    <3>5. own.block \in Nat
      BY <1>2 DEF SegmentType
    <3>6. block \in Nat
      BY DEF TypeOK
    <3> HIDE DEF own
    <3>7. /\ Chain(Count - 1, View', own.block, block)
          /\ Final(Count - 1, View', own.block) = Final(Count, View, own.block)
          /\ Indexed(Count - 1, View', own.block, block, st_block_index, own.index,
                     st_block_buffer)
      BY <3>4, <3>5, <3>6, <1>2, <1>4, Popped
    <3> QED
      BY <3>1, <3>7, <1>2
  <2>2. CASE count # 1
    <3>1. Count' = Count /\ View' = View
      BY <2>2, <1>1, ViewKept
    <3> QED
      BY <3>1, <1>2
  <2> QED
    BY <2>1, <2>2
<1>7. PrepOK'
  <2>1. pc = "publish" => NextSlot(segment_buffer_head) # segment_buffer_tail'
    BY <1>1, <1>4, RingFacts DEF PrepOK, TypeOK
  <2>2. Final(Count', View', counters') = Final(Count, View, counters)
    BY <1>2, <1>6
  <2> HIDE DEF own, count
  <2> QED
    BY <1>1, <2>1, <2>2 DEF PrepOK
<1>8. ExecOK'
  <2> SUFFICES ASSUME exec_segment' PROVE ExecOK'
    BY DEF ExecOK
  <2>1. count # 1 /\ step_count' > 0
    <3> HIDE DEF count
    <3>1. count # 1
      BY <1>1, Zenon
    <3> QED
      BY <3>1, <1>1, <1>3, SMT
  <2>2. Count' = Count /\ Segment(0)' = Segment(0)
    BY <2>1, <1>1, ViewKept
  <2>3. Segment(0) = own
    BY <1>2, <1>4, ViewFacts
  <2> QED
    BY <1>2, <2>1, <2>2, <2>3 DEF ExecOK
<1> QED
  BY <1>1, <1>2, <1>5, <1>6, <1>7, <1>8

(* Every step of the main program and of the interrupt keeps the invariant.*)
THEOREM Inductive == IInv /\ [Next]_vars => IInv'
<1> SUFFICES ASSUME IInv, [Next]_vars PROVE IInv'
  OBVIOUS
<1> USE DEF IInv, TypeOK, PrepOK
<1>1. CASE LoadBlock
  BY <1>1, LoadBlockStep
<1>2. CASE Recompute
  BY <1>2, RingKept DEF Recompute, Prepares
<1>3. CASE WriteSegment
  BY <1>3, WriteSegmentStep
<1>4. CASE HoldTooShort
  BY <1>4, RingKept DEF HoldTooShort, prep
<1>5. CASE Publish
  BY <1>5, PublishStep
<1>6. CASE Advance
  BY <1>6, AdvanceStep
<1>7. CASE Replan
  BY <1>7, RingKept DEF Replan, UpdatePlanBlock
<1>8. CASE FeedHold
  BY <1>8, RingKept DEF FeedHold, UpdatePlanBlock
<1>9. CASE HoldComplete
  BY <1>9, RingKept DEF HoldComplete, UpdatePlanBlock
<1>10. CASE CycleStart
  BY <1>10, RingKept DEF CycleStart, prep
<1>11. CASE WakeUp
  BY <1>11, RingKept DEF WakeUp, prep
<1>12. CASE Reset
  BY <1>12, ResetStep
<1>13. CASE Tick
  BY <1>13, TickStep
<1>14. CASE RunsDry
  BY <1>14, RingKept DEF RunsDry, prep
<1>15. CASE Kill
  BY <1>15, RingKept DEF Kill, prep
<1>16. CASE UNCHANGED vars
  BY <1>16, RingKept DEF vars, prep
<1> QED
  BY <1>1, <1>2, <1>3, <1>4, <1>5, <1>6, <1>7, <1>8, <1>9, <1>10, <1>11, <1>12,
     <1>13, <1>14, <1>15, <1>16 DEF Next

-----------------------------------------------------------------------------
(* No segment is overwritten before it is executed and no block data while *)
(* one of its segments is left (stepper.c:62, 387, 608, 696).              *)
THEOREM StepsTakenWithOwnBlock == Spec => StepsOwnBlock
<1>1. IInv /\ [Next]_vars =>
        [Tick => LET own == segment_buffer[segment_buffer_tail].block
                 IN counters' = own /\ st_block_buffer[exec_block_index'] = own]_vars
  BY TickFacts
<1> QED
  BY <1>1, Initial, Inductive, PTL DEF Spec, StepsOwnBlock


-----------------------------------------------------------------------------
(* The count of the steps.  Between the writing of a segment and its       *)
(* publication its steps are neither in the ring nor left of the block.    *)
Unpublished == IF pc = "publish" THEN segment_buffer[segment_buffer_head].n_step ELSE 0
Conserved ==
  /\ executed \in Nat /\ loaded \in Nat
  /\ executed + Total(Held, Count) + Unpublished + steps_remaining = loaded
  /\ ~pl_block /\ ~recalculate => steps_remaining = 0

(* What the segments of the ring hold are numbers.                         *)
LEMMA HeldFacts ==
  ASSUME IInv
  PROVE  /\ Count \in Nat /\ Counted(Held, Count) /\ Total(Held, Count) \in Nat
         /\ \A k \in 0 .. Count - 1 :
              Held[k] = IF k = 0 /\ exec_segment THEN step_count ELSE Segment(k).n_step
<1>1. Count \in Nat /\ \A k \in 0 .. Count - 1 : Segment(k) \in SegmentType
  BY ViewFacts, SizeAssumption DEF IInv, Chain
<1>2. \A k \in 0 .. Count - 1 :
        Held[k] = IF k = 0 /\ exec_segment THEN step_count ELSE Segment(k).n_step
  BY DEF Held
<1>3. \A k \in 0 .. Count - 1 : Held[k] \in Nat
  BY <1>1, <1>2 DEF IInv, TypeOK, SegmentType
<1> QED
  BY <1>1, <1>2, <1>3, TotalType DEF Counted

(* Nothing of the ring changes, nor what the interrupt has of a segment.   *)
LEMMA HeldKept ==
  ASSUME UNCHANGED <<segment_buffer, segment_buffer_tail, segment_buffer_head, exec_segment, step_count>>
  PROVE  Total(Held, Count)' = Total(Held, Count)
BY DEF Held, Count, Segment

(* Nothing is loaded, nothing taken.                                       *)
LEMMA CountInit == Init => Conserved
<1> SUFFICES ASSUME Init PROVE Conserved
  OBVIOUS
<1>1. Count = 0
  BY DEF Init, Count
<1> QED
  BY <1>1, TotalEmpty DEF Init, Conserved, Unpublished

(* Steps leave the block for the slot at the head.                         *)
LEMMA CountWritten == ASSUME IInv, Conserved, WriteSegment PROVE Conserved'
<1>1. PICK n \in 1 .. steps_remaining :
        /\ segment_buffer' = [segment_buffer EXCEPT ![segment_buffer_head] =
             [index |-> st_block_index, n_step |-> n, block |-> block]]
        /\ steps_remaining' = steps_remaining - n
  BY DEF WriteSegment
<1>2. /\ pc = "ready" /\ pc' = "publish" /\ pl_block /\ pl_block'
      /\ UNCHANGED <<segment_buffer_tail, segment_buffer_head, exec_segment, step_count, executed, loaded>>
  BY DEF WriteSegment, Prepares, exec
<1>3. Count' = Count
  BY <1>2 DEF Count
<1>4. \A k \in 0 .. Count - 1 : Segment(k)' = Segment(k)
  <2>1. \A k \in 0 .. Count - 1 :
          SlotAt(segment_buffer_tail, k) \in Slots \ {segment_buffer_head}
    BY ViewFacts, SlotFacts DEF IInv, TypeOK
  <2>2. \A i \in Slots \ {segment_buffer_head} : segment_buffer'[i] = segment_buffer[i]
    BY <1>1 DEF IInv, TypeOK
  <2> QED
    BY <1>2, <2>1, <2>2 DEF Segment
<1>5. Held' = Held
  BY <1>2, <1>3, <1>4 DEF Held
<1>6. Unpublished = 0 /\ Unpublished' = n
  BY <1>1, <1>2 DEF Unpublished, IInv, TypeOK
<1>7. steps_remaining \in Nat /\ Total(Held, Count) \in Nat
  BY HeldFacts DEF IInv, TypeOK
<1>8. Total(Held, Count)' = Total(Held, Count)
  BY <1>3, <1>5
<1> QED
  BY <1>1, <1>2, <1>6, <1>7, <1>8 DEF Conserved

(* They are added at the end of the ring.                                  *)
LEMMA CountPublished == ASSUME IInv, Conserved, Publish PROVE Conserved'
<1>1. /\ pc = "publish" /\ pc' = "advance" /\ segment_buffer_head' = segment_next_head
      /\ UNCHANGED <<segment_buffer, segment_buffer_tail, pl_block, recalculate, steps_remaining,
                     exec_segment, step_count, executed, loaded>>
  BY DEF Publish, prep, exec
<1>2. segment_next_head = NextSlot(segment_buffer_head) /\ NextSlot(segment_buffer_head) # segment_buffer_tail
  BY <1>1 DEF IInv, PrepOK
<1>3. Count' = Count + 1 /\ Count \in Nat
  <2>1. Count' = Distance(segment_buffer_tail, NextSlot(segment_buffer_head))
    BY <1>1, <1>2 DEF Count, Distance
  <2> QED
    BY <2>1, <1>2, ViewFacts, RingFacts DEF IInv, TypeOK
<1>4. \A k \in 0 .. Count : Segment(k)' = Segment(k)
  BY <1>1 DEF Segment
<1>5. PICK h : h = Held'
  OBVIOUS
<1>6. \A k \in 0 .. Count : h[k] = IF k = 0 /\ exec_segment THEN step_count ELSE Segment(k).n_step
  BY <1>1, <1>3, <1>4, <1>5 DEF Held
<1>7. Segment(Count) = segment_buffer[segment_buffer_head] /\ ~(Count = 0 /\ exec_segment)
  BY ViewFacts, SlotFacts DEF Segment, IInv, TypeOK, ExecOK
<1>8. h[Count] = Unpublished /\ Unpublished \in Nat /\ Unpublished' = 0
  <2>1. h[Count] = segment_buffer[segment_buffer_head].n_step
    BY <1>3, <1>6, <1>7
  <2> QED BY <1>1, <2>1 DEF Unpublished, IInv, PrepOK, SegmentType
<1>9. \A k \in 0 .. Count - 1 : h[k] = Held[k]
  BY <1>3, <1>6, HeldFacts
<1>10. Counted(h, Count + 1)
  BY <1>3, <1>8, <1>9, HeldFacts DEF Counted
<1>11. Total(h, Count + 1) = Total(Held, Count) + h[Count]
  BY <1>3, <1>9, <1>10, TotalAppend
<1>12. Total(Held, Count)' = Total(Held, Count) + Unpublished
  BY <1>3, <1>5, <1>8, <1>11
<1>13. Total(Held, Count) \in Nat /\ steps_remaining \in Nat
  BY HeldFacts DEF IInv, TypeOK
<1> QED
  BY <1>1, <1>8, <1>12, <1>13 DEF Conserved

(* The interrupt takes a step out of the first segment.                    *)
LEMMA CountTaken == ASSUME IInv, Conserved, Tick PROVE Conserved'
<1> DEFINE own == segment_buffer[segment_buffer_tail]
           count == IF exec_segment THEN step_count ELSE own.n_step
<1>1. /\ step_count' = count - 1 /\ exec_segment' = (count # 1) /\ executed' = executed + 1
      /\ segment_buffer_tail' = IF count = 1 THEN NextSlot(segment_buffer_tail)
                                ELSE segment_buffer_tail
      /\ UNCHANGED <<segment_buffer, segment_buffer_head, pl_block, recalculate, steps_remaining,
                     loaded, pc>>
  BY DEF Tick, prep
<1>2. /\ Count > 0 /\ Count \in Nat \ {0} /\ Count <= Size - 1 /\ View[0] = own /\ own \in SegmentType
      /\ segment_buffer_head # segment_buffer_tail /\ Segment(0) = own
  BY TickFacts, ViewFacts, SizeAssumption DEF IInv
<1>3. count \in Nat \ {0} /\ Held[0] = count
  BY <1>2, HeldFacts DEF IInv, ExecOK, TypeOK, SegmentType
<1> HIDE DEF count
<1>4. PICK t : t = [k \in 0 .. Count - 2 |-> Held[k + 1]]
  OBVIOUS
<1>5. Total(Held, Count) = count + Total(t, Count - 1)
  <2>1. Count - 1 \in Nat /\ (Count - 1) + 1 = Count /\ Counted(Held, Count)
    BY <1>2, HeldFacts
  <2>2. \A k \in 0 .. (Count - 1) - 1 : t[k] = Held[k + 1]
    BY <1>2, <1>4
  <2>3. Total(Held, (Count - 1) + 1) = Held[0] + Total(t, Count - 1)
    BY <2>1, <2>2, TotalTail
  <2> QED BY <1>3, <2>1, <2>3
<1>6. Counted(t, Count - 1)
  BY <1>2, <1>4, HeldFacts DEF Counted
<1>7. Total(Held, Count)' = (count - 1) + Total(t, Count - 1)
  <2>1. PICK h : h = Held'
    OBVIOUS
  <2>2. CASE count = 1
    <3>1. Count' = Count - 1
      <4>1. Count' = Distance(NextSlot(segment_buffer_tail), segment_buffer_head)
        BY <2>2, <1>1 DEF Count, Distance
      <4> QED
        BY <4>1, <1>2, ViewFacts, RingFacts DEF IInv, TypeOK
    <3>2. \A k \in 0 .. Count - 2 : Segment(k)' = Segment(k + 1)
      <4>1. \A k \in 0 .. Size - 2 :
              SlotAt(NextSlot(segment_buffer_tail), k) = SlotAt(segment_buffer_tail, k + 1)
        BY SlotFacts DEF IInv, TypeOK
      <4>2. \A k \in 0 .. Count - 2 : k \in 0 .. Size - 2
        BY <1>2, SizeAssumption
      <4>3. \A k : Segment(k)' = segment_buffer[SlotAt(NextSlot(segment_buffer_tail), k)]
        BY <2>2, <1>1 DEF Segment, SlotAt
      <4> QED
        BY <4>1, <4>2, <4>3 DEF Segment
    <3>3. ~ exec_segment'
      BY <1>1, <2>2
    <3>4. \A k \in 0 .. Count - 2 : h[k] = t[k]
      <4> TAKE k \in 0 .. Count - 2
      <4>1. h[k] = Segment(k)'.n_step
        BY <2>1, <3>1, <3>3, <1>2 DEF Held
      <4>2. t[k] = Segment(k + 1).n_step
        BY <1>2, <1>4, HeldFacts
      <4> QED BY <3>2, <4>1, <4>2
    <3>5. Count - 1 \in Nat /\ \A k \in 0 .. (Count - 1) - 1 : t[k] = h[k]
      BY <1>2, <3>4
    <3>6. Total(t, Count - 1) = Total(h, Count - 1)
      BY <1>6, <3>5, TotalSame
    <3>7. Total(t, Count - 1) \in Nat
      BY <1>6, <3>5, TotalType
    <3> QED BY <2>1, <2>2, <3>1, <3>6, <3>7
  <2>3. CASE count # 1
    <3>1. /\ Count' = Count /\ exec_segment' /\ step_count' = count - 1
          /\ \A k \in 0 .. Count - 1 : Segment(k)' = Segment(k)
      BY <2>3, <1>1 DEF Count, Segment
    <3>2. h[0] = count - 1 /\ \A k \in 0 .. Count - 2 : t[k] = h[k + 1]
      <4>1. h[0] = count - 1
        BY <1>2, <2>1, <3>1 DEF Held
      <4>2. ASSUME NEW k \in 0 .. Count - 2 PROVE t[k] = h[k + 1]
        <5>1. k + 1 \in 0 .. Count - 1 /\ k + 1 # 0
          BY <1>2
        <5>2. h[k + 1] = Segment(k + 1).n_step
          BY <2>1, <3>1, <5>1 DEF Held
        <5> QED BY <1>4, <5>1, <5>2, HeldFacts
      <4> QED BY <4>1, <4>2
    <3>3. Counted(h, (Count - 1) + 1)
      <4>0. ((Count - 1) + 1) - 1 = Count - 1
        BY <1>2
      <4> SUFFICES ASSUME NEW k \in 0 .. Count - 1 PROVE h[k] \in Nat
        BY <4>0 DEF Counted
      <4>1. CASE k = 0
        BY <1>3, <3>2, <4>1
      <4>2. CASE k # 0
        <5>1. k - 1 \in 0 .. Count - 2 /\ (k - 1) + 1 = k /\ k - 1 \in 0 .. (Count - 1) - 1
          BY <1>2, <4>2
        <5> QED BY <1>6, <3>2, <5>1 DEF Counted
      <4> QED BY <4>1, <4>2
    <3>4. Count - 1 \in Nat /\ (Count - 1) + 1 = Count /\ \A k \in 0 .. (Count - 1) - 1 : t[k] = h[k + 1]
      BY <1>2, <3>2
    <3>5. Total(h, (Count - 1) + 1) = h[0] + Total(t, Count - 1)
      BY <3>3, <3>4, TotalTail
    <3> QED BY <2>1, <3>1, <3>2, <3>4, <3>5
  <2> QED BY <2>2, <2>3
<1>8. Unpublished' = Unpublished
  <2>1. segment_buffer' = segment_buffer /\ segment_buffer_head' = segment_buffer_head /\ pc' = pc
    BY <1>1
  <2> QED BY <2>1 DEF Unpublished
<1>9. /\ Total(t, Count - 1) \in Nat /\ steps_remaining \in Nat /\ executed \in Nat
      /\ Unpublished \in Nat
  <2>1. Total(t, Count - 1) \in Nat
    BY <1>2, <1>6, TotalType
  <2>2. Unpublished \in Nat
    BY DEF Unpublished, IInv, PrepOK, SegmentType
  <2> QED BY <2>1, <2>2 DEF IInv, TypeOK, Conserved
<1> QED
  BY <1>1, <1>3, <1>5, <1>7, <1>8, <1>9 DEF Conserved

(* The steps that touch neither the ring nor what is loaded.               *)
LEMMA CountKept ==
  ASSUME IInv, Conserved,
         UNCHANGED <<segment_buffer, segment_buffer_tail, segment_buffer_head, exec_segment, step_count,
                     executed, loaded, steps_remaining>>,
         pc' = pc \/ (pc # "publish" /\ pc' # "publish"),
         pl_block' \/ recalculate' \/ steps_remaining = 0
  PROVE  Conserved'
<1>1. Total(Held, Count)' = Total(Held, Count)
  BY HeldKept
<1>2. Unpublished' = Unpublished
  BY DEF Unpublished
<1> QED
  BY <1>1, <1>2 DEF Conserved

(* Every step of the main program and of the interrupt keeps the count.    *)
LEMMA CountInductive == ASSUME IInv, Conserved, [Next]_vars PROVE Conserved'
<1>1. CASE LoadBlock
  <2>1. /\ pc = "ready" /\ pc' = pc /\ ~pl_block /\ ~recalculate /\ pl_block' /\ steps_remaining' = length
        /\ loaded' = IF block = current THEN loaded ELSE loaded + length
        /\ UNCHANGED <<segment_buffer, segment_buffer_tail, segment_buffer_head, exec_segment, step_count,
                       executed>>
    BY <1>1 DEF LoadBlock, Prepares, ring, exec
  <2>2. current = block + 1 /\ block \in Nat /\ length \in Nat
    BY <2>1 DEF IInv, PrepOK, TypeOK
  <2>3. loaded' = loaded + length
    BY <2>1, <2>2
  <2>4. Total(Held, Count)' = Total(Held, Count) /\ Total(Held, Count) \in Nat
    BY <2>1, HeldKept, HeldFacts
  <2>5. Unpublished = 0 /\ Unpublished' = 0
    BY <2>1 DEF Unpublished
  <2> QED BY <2>1, <2>2, <2>3, <2>4, <2>5 DEF Conserved
<1>2. CASE Recompute \/ HoldTooShort \/ CycleStart \/ WakeUp \/ RunsDry \/ Kill \/ UNCHANGED vars
  BY <1>2, CountKept DEF Recompute, HoldTooShort, CycleStart, WakeUp, RunsDry, Kill, vars, ring, prep,
                         exec, Conserved
<1>3. CASE Replan \/ FeedHold \/ HoldComplete
  BY <1>3, CountKept DEF Replan, FeedHold, HoldComplete, UpdatePlanBlock, ring, exec, Conserved
<1>4. CASE WriteSegment
  BY <1>4, CountWritten
<1>5. CASE Publish
  BY <1>5, CountPublished
<1>6. CASE Advance
  <2>1. steps_remaining \in Nat /\ pl_block
    BY <1>6 DEF IInv, TypeOK, PrepOK, Advance
  <2> QED BY <1>6, <2>1, CountKept DEF Advance, exec
<1>7. CASE Reset
  <2>1. /\ Count' = 0 /\ pc' = "ready" /\ executed' = 0 /\ loaded' = 0 /\ steps_remaining' = 0
    BY <1>7 DEF Reset, Count
  <2>2. Total(Held, Count)' = 0
    BY <2>1, TotalEmpty
  <2>3. Unpublished' = 0
    BY <2>1 DEF Unpublished
  <2> QED BY <2>1, <2>2, <2>3 DEF Conserved
<1>8. CASE Tick
  BY <1>8, CountTaken
<1> QED
  BY <1>1, <1>2, <1>3, <1>4, <1>5, <1>6, <1>7, <1>8 DEF Next

(* No step is lost or taken twice, for every size of the ring and however  *)
(* the interrupt, holds, overrides and resets interleave (st_prep_buffer(),*)
(* the stepper interrupt).                                                 *)
THEOREM StepsAlwaysConserved == Spec => []StepsConserved
<1>1. IInv /\ Conserved => StepsConserved
  BY HeldFacts DEF Conserved, StepsConserved, Unpublished, IInv, TypeOK
<1>2. Init => IInv /\ Conserved
  BY Initial, CountInit
<1>3. (IInv /\ Conserved) /\ [Next]_vars => (IInv /\ Conserved)'
  BY Inductive, CountInductive
<1> QED
  BY <1>1, <1>2, <1>3, PTL DEF Spec

=============================================================================
