--------------------------- MODULE PlannerProofs ---------------------------
(***************************************************************************)
(* What is proved of Planner, for every size of the ring, all lines and    *)
(* every order of lines, segments, holds, cancels, overrides and resets.   *)
(*                                                                         *)
(* The passes of the planner are recursive functions: the lemmas of the    *)
(* first part say that they have values and which equations these satisfy. *)
(* The type invariant then needs the forms that a velocity profile takes   *)
(* (PlannerTyped).  For the ends of blocks, the queue is numbered from its *)
(* tail; what the passes guarantee of new entry speeds is Recalculation,   *)
(* and DriveOK relates plan, generator and the speed of the machine.       *)
(* While no override changes, PlanDriven says that the plan can also be    *)
(* sped up along, and PlanTight that each entry speed has its reason: the  *)
(* plan is then feasible and the fastest there is.                         *)
(***************************************************************************)
EXTENDS Planner, WellFoundedInduction, TLAPS

(* Induction over the natural numbers, for a set in place of a predicate.  *)
LEMMA Induction ==
  ASSUME NEW T, 0 \in T, \A i \in Nat : i \in T => i + 1 \in T
  PROVE  Nat \subseteq T
<1> DEFINE Less == {ss \in Nat \X Nat : ss[1] < ss[2]}
<1>1. SUFFICES ASSUME Nat \ T # {} PROVE FALSE
  OBVIOUS
<1>2. IsWellFoundedOn(Less, Nat)
  BY NatLessThanWellFounded DEF OpToRel
<1>3. PICK x \in Nat \ T : \A y \in Nat \ T : ~ (<<y, x>> \in Less)
  <2> HIDE DEF Less
  <2> QED BY <1>1, <1>2, WFMin
<1>4. x # 0 /\ x - 1 \in Nat /\ x - 1 \notin T
  BY <1>3
<1>5. <<x - 1, x>> \in Less
  BY <1>4
<1> QED
  BY <1>3, <1>4, <1>5

(* A function may be defined by recursion: the values up to any number.    *)
Steps(V) == [Nat -> [V -> V]]
Follows(f, V, first, next, m) ==
  /\ f \in [0 .. m -> V]
  /\ \A i \in 0 .. m : f[i] = IF i = 0 THEN first ELSE next[i][f[i - 1]]
(* A function that is defined by recursion exists: step by step.           *)
LEMMA Recursion ==
  ASSUME NEW V, NEW first \in V, NEW next \in Steps(V), NEW m \in Nat
  PROVE  \E f : Follows(f, V, first, next, m)
<1> DEFINE Upto(k) == \E f \in [0 .. k -> V] :
              \A i \in 0 .. k : f[i] = IF i = 0 THEN first ELSE next[i][f[i - 1]]
           T == {k \in Nat : Upto(k)}
<1>1. 0 \in T
  <2> DEFINE f == [i \in 0 .. 0 |-> first]
  <2>1. f \in [0 .. 0 -> V] /\ \A i \in 0 .. 0 : i = 0 /\ f[i] = first
    OBVIOUS
  <2>2. Upto(0)
    <3> HIDE DEF f
    <3> QED BY <2>1
  <2> QED BY <2>2
<1>2. ASSUME NEW k \in Nat, k \in T PROVE k + 1 \in T
  <2>1. PICK f \in [0 .. k -> V] :
          \A i \in 0 .. k : f[i] = IF i = 0 THEN first ELSE next[i][f[i - 1]]
    BY <1>2
  <2> DEFINE g == [i \in 0 .. k + 1 |-> IF i = k + 1 THEN next[k + 1][f[k]] ELSE f[i]]
  <2>2. next[k + 1][f[k]] \in V
    BY <2>1 DEF Steps
  <2>3. g \in [0 .. k + 1 -> V]
    BY <2>1, <2>2
  <2>4. \A i \in 0 .. k + 1 : g[i] = IF i = 0 THEN first ELSE next[i][g[i - 1]]
    <3> TAKE i \in 0 .. k + 1
    <3>1. CASE i = k + 1
      BY <3>1
    <3>2. CASE i # k + 1
      <4>1. i \in 0 .. k /\ g[i] = f[i] /\ (i # 0 => g[i - 1] = f[i - 1])
        BY <3>2
      <4> QED BY <2>1, <4>1
    <3> QED BY <3>1, <3>2
  <2>5. Upto(k + 1)
    <3> HIDE DEF g
    <3> QED BY <2>3, <2>4
  <2> QED
    BY <2>5
<1>3. Nat \subseteq T
  <2> HIDE DEF T
  <2> QED BY <1>1, <1>2, Induction
<1> QED
  BY <1>3 DEF Follows

(* A nonempty set of numbers up to a bound has a largest one.              *)
LEMMA MaxFacts ==
  ASSUME NEW n \in Nat, NEW X, X \subseteq 1 .. n, X # {}
  PROVE  Max(X) \in X /\ \A x \in X : x <= Max(X)
<1> DEFINE Has(k) == \A Y : Y \subseteq 1 .. k /\ Y # {} => \E m \in Y : \A y \in Y : y <= m
           T == {k \in Nat : Has(k)}
<1>1. 0 \in T
  OBVIOUS
<1>2. ASSUME NEW k \in Nat, k \in T PROVE k + 1 \in T
  <2> SUFFICES ASSUME NEW Y, Y \subseteq 1 .. k + 1, Y # {}
               PROVE  \E m \in Y : \A y \in Y : y <= m
    OBVIOUS
  <2>1. CASE k + 1 \in Y
    BY <2>1
  <2>2. CASE k + 1 \notin Y
    <3>1. Y \subseteq 1 .. k
      BY <2>2
    <3> QED
      BY <1>2, <3>1
  <2> QED
    BY <2>1, <2>2
<1>3. Has(n)
  <2> HIDE DEF T
  <2>1. n \in T
    BY <1>1, <1>2, Induction
  <2> QED
    BY <2>1 DEF T
<1>4. \E m \in X : \A y \in X : y <= m
  BY <1>3
<1>5. X \subseteq Int
  OBVIOUS
<1> QED
  BY <1>4, <1>5 DEF Max

-----------------------------------------------------------------------------
(* The ring.                                                               *)
LEMMA RingFacts ==
  ASSUME NEW i \in Slot
  PROVE  /\ plan_next_block_index(i) \in Slot /\ plan_prev_block_index(i) \in Slot
         /\ plan_prev_block_index(plan_next_block_index(i)) = i
         /\ plan_next_block_index(plan_prev_block_index(i)) = i
         /\ plan_next_block_index(i) # i
         /\ \A j \in Slot : Behind(i, j) \in 0 .. BlockBufferSize - 1
         /\ \A j \in Slot : SlotBehind(i, Behind(i, j)) = j
         /\ \A k \in 0 .. BlockBufferSize - 1 : SlotBehind(i, k) \in Slot
         /\ \A k \in 0 .. BlockBufferSize - 1 : Behind(i, SlotBehind(i, k)) = k
         /\ SlotBehind(i, 0) = i
         /\ \A k \in 0 .. BlockBufferSize - 2 :
              /\ SlotBehind(i, k + 1) = plan_next_block_index(SlotBehind(i, k))
              /\ SlotBehind(plan_next_block_index(i), k) = SlotBehind(i, k + 1)
         /\ \A j \in Slot : j # i =>
              /\ Behind(i, plan_prev_block_index(j)) = Behind(i, j) - 1
              /\ Behind(plan_next_block_index(i), j) = Behind(i, j) - 1
              /\ Behind(i, j) >= 1
         /\ Behind(i, i) = 0
         /\ Behind(i, plan_prev_block_index(i)) = BlockBufferSize - 1
BY SizeAssumption DEF Slot, Behind, SlotBehind, plan_next_block_index, plan_prev_block_index

LEMMA SlotFacts ==
  ASSUME NEW i \in Slot, NEW k \in 0 .. BlockBufferSize - 1
  PROVE  SlotBehind(i, k) \in Slot /\ Behind(i, SlotBehind(i, k)) = k
BY RingFacts

LEMMA BehindFacts ==
  ASSUME NEW i \in Slot, NEW j \in Slot
  PROVE  /\ Behind(i, j) \in 0 .. BlockBufferSize - 1 /\ Behind(i, j) \in Nat
         /\ SlotBehind(i, Behind(i, j)) = j
         /\ i = j <=> Behind(i, j) = 0
BY SizeAssumption DEF Slot, Behind, SlotBehind

-----------------------------------------------------------------------------
(* The two passes compute numbers, and what their equations say.           *)
Blocks == [dist : Nat, junction : Nat, rate : Rates, max : Nat, entry : Nat]
Buffers == [Slot -> Blocks]

LEMMA SmallerFacts ==
  ASSUME NEW a \in Int, NEW b \in Int
  PROVE  /\ Smaller(a, b) \in {a, b} /\ Smaller(a, b) <= a /\ Smaller(a, b) <= b
BY DEF Smaller

LEMMA LastTyped ==
  ASSUME NEW p \in Slot, NEW h \in Slot PROVE Last(p, h) \in 0 .. BlockBufferSize - 1
BY RingFacts DEF Last

LEMMA ReversePassFacts ==
  ASSUME NEW buffer \in Buffers, NEW p \in Slot, NEW h \in Slot
  PROVE  /\ ReversePass(buffer, p, h) \in [1 .. Last(p, h) -> Nat]
         /\ \A k \in 1 .. Last(p, h) :
              ReversePass(buffer, p, h)[k] =
                LET b == buffer[SlotBehind(p, k)]
                IN IF k = Last(p, h) THEN Smaller(b.max, b.dist)
                   ELSE IF b.entry = b.max THEN b.max
                   ELSE Smaller(b.max, ReversePass(buffer, p, h)[k + 1] + b.dist)
<1> DEFINE last == Last(p, h)
           b(k) == buffer[SlotBehind(p, k)]
           Value(k, after) ==
             IF k = last THEN Smaller(b(k).max, b(k).dist)
             ELSE IF b(k).entry = b(k).max THEN b(k).max
             ELSE Smaller(b(k).max, after + b(k).dist)
           Is(f) == f = [k \in 1 .. last |-> Value(k, f[k + 1])]
           pass == CHOOSE f : Is(f)
<1>1. last \in 0 .. BlockBufferSize - 1
  BY LastTyped
<1>2. \A k \in 1 .. last : b(k) \in Blocks
  BY <1>1, RingFacts, SizeAssumption DEF Buffers
<1>3. \A k \in 1 .. last : \A m \in Nat : Value(k, m) \in Nat
  <2> TAKE k \in 1 .. last
  <2> TAKE m \in Nat
  <2>1. b(k).max \in Nat /\ b(k).dist \in Nat
    BY <1>2 DEF Blocks
  <2> HIDE DEF b
  <2> QED
    BY <2>1, SmallerFacts
<1> HIDE DEF last, Value, b
<1>4. \E f : Is(f)
  <2>1. CASE last = 0
    BY <2>1
  <2>2. CASE last # 0
    <3> DEFINE first == Value(last, 0)
               step == [i \in Nat |-> [m \in Nat |->
                          IF i \in 1 .. last - 1 THEN Value(last - i, m) ELSE m]]
    <3>1. last \in Nat /\ last - 1 \in Nat /\ first \in Nat
      BY <1>1, <1>3, <2>2
    <3>2. step \in Steps(Nat)
      <4>1. \A i \in 1 .. last - 1 : last - i \in 1 .. last
        BY <3>1
      <4> QED
        BY <1>3, <4>1 DEF Steps
    <3>3. PICK r : Follows(r, Nat, first, step, last - 1)
      <4> HIDE DEF first, step
      <4> QED
        BY <3>1, <3>2, Recursion
    <3>4. /\ r \in [0 .. last - 1 -> Nat]
          /\ \A i \in 0 .. last - 1 : r[i] = IF i = 0 THEN first ELSE step[i][r[i - 1]]
      BY <3>3 DEF Follows
    <3>5. \A i \in 0 .. last - 1 : r[i] = IF i = 0 THEN first ELSE Value(last - i, r[i - 1])
      <4> TAKE i \in 0 .. last - 1
      <4>1. i # 0 => i \in 1 .. last - 1 /\ i \in Nat /\ r[i - 1] \in Nat
        BY <3>1, <3>4
      <4> QED
        BY <3>4, <4>1
    <3> HIDE DEF step, first
    <3> DEFINE f == [k \in 1 .. last |-> r[last - k]]
    <3>6. ASSUME NEW k \in 1 .. last PROVE f[k] = Value(k, f[k + 1])
      <4>1. CASE k = last
        <5>1. f[k] = Value(last, 0)
          BY <3>1, <3>5, <4>1 DEF first
        <5>2. Value(last, 0) = Value(last, f[k + 1])
          BY DEF Value
        <5> QED
          BY <4>1, <5>1, <5>2
      <4>2. CASE k # last
        <5>1. k + 1 \in 1 .. last /\ last - k \in 0 .. last - 1 /\ last - k # 0
              /\ (last - k) - 1 = last - (k + 1) /\ last - (last - k) = k
          BY <3>1, <4>2
        <5>2. f[k + 1] = r[last - (k + 1)] /\ f[k] = r[last - k]
          BY <5>1
        <5>3. r[last - k] = Value(last - (last - k), r[(last - k) - 1])
          BY <5>1, <3>5
        <5> QED
          BY <5>1, <5>2, <5>3
      <4> QED
        BY <4>1, <4>2
    <3>7. f = [k \in 1 .. last |-> f[k]]
      OBVIOUS
    <3>8. Is(f)
      <4> HIDE DEF f
      <4> QED
        BY <3>6, <3>7
    <3> QED
      BY <3>8
  <2> QED
    BY <2>1, <2>2
<1>5. Is(pass)
  <2> HIDE DEF Is
  <2> QED
    BY <1>4
<1>6. ReversePass(buffer, p, h) = pass
  BY DEF ReversePass, last, Value, b
<1> HIDE DEF pass
<1>7. \A k \in 1 .. last : pass[k] = Value(k, pass[k + 1])
  BY <1>5
<1>8. \A k \in 1 .. last : pass[k] \in Nat
  <2> DEFINE T == {i \in Nat : i < last => pass[last - i] \in Nat}
  <2>1. last \in Nat
    BY <1>1
  <2>2. 0 \in T
    <3>1. last # 0 => last \in 1 .. last /\ Value(last, pass[last + 1]) = Value(last, 0)
      BY <2>1 DEF Value
    <3> QED
      BY <1>3, <1>7, <2>1, <3>1
  <2>3. ASSUME NEW i \in Nat, i \in T PROVE i + 1 \in T
    <3> SUFFICES ASSUME i + 1 < last PROVE pass[last - (i + 1)] \in Nat
      OBVIOUS
    <3>1. pass[last - i] \in Nat
      BY <2>1, <2>3
    <3>2. last - (i + 1) \in 1 .. last /\ (last - (i + 1)) + 1 = last - i
      BY <2>1
    <3> QED
      BY <1>3, <1>7, <3>1, <3>2
  <2>4. Nat \subseteq T
    <3> HIDE DEF T
    <3> QED
      BY <2>2, <2>3, Induction
  <2> TAKE k \in 1 .. last
  <2>5. last - k \in Nat /\ last - k < last /\ last - (last - k) = k
    BY <2>1
  <2>6. last - k \in T
    <3> HIDE DEF T
    <3> QED
      BY <2>4, <2>5
  <2> QED
    BY <2>5, <2>6
<1>9. pass = [k \in 1 .. last |-> pass[k]]
  <2>1. DOMAIN pass = 1 .. last
    BY <1>5
  <2>2. \E S : \E f : pass = [k \in S |-> f[k]]
    <3>1. PICK g : g = [k \in 1 .. last |-> Value(k, pass[k + 1])]
      OBVIOUS
    <3>2. g = [k \in 1 .. last |-> g[k]]
      BY <3>1
    <3> QED
      BY <1>5, <3>1, <3>2
  <2> QED
    BY <2>1, <2>2
<1>10. pass \in [1 .. last -> Nat]
  BY <1>8, <1>9
<1> QED
  BY <1>6, <1>7, <1>10 DEF last, Value, b

LEMMA ForwardPassFacts ==
  ASSUME NEW buffer \in Buffers, NEW p \in Slot, NEW h \in Slot
  PROVE  /\ ForwardPass(buffer, p, h) \in [0 .. Last(p, h) -> Nat]
         /\ ForwardPass(buffer, p, h)[0] = buffer[p].entry
         /\ \A k \in 1 .. Last(p, h) :
              ForwardPass(buffer, p, h)[k] =
                Smaller(ReversePass(buffer, p, h)[k],
                        ForwardPass(buffer, p, h)[k - 1] + buffer[SlotBehind(p, k - 1)].dist)
<1> DEFINE last == Last(p, h)
           reverse == ReversePass(buffer, p, h)
           d(k) == buffer[SlotBehind(p, k)].dist
           Value(k, before) ==
             IF k = 0 THEN buffer[p].entry ELSE Smaller(reverse[k], before + d(k - 1))
           Is(f) == f = [k \in 0 .. last |-> Value(k, f[k - 1])]
           pass == CHOOSE f : Is(f)
<1>1. last \in 0 .. BlockBufferSize - 1 /\ reverse \in [1 .. last -> Nat] /\ buffer[p].entry \in Nat
  BY LastTyped, ReversePassFacts DEF Buffers, Blocks
<1>2. \A k \in 1 .. last : d(k - 1) \in Nat
  <2> TAKE k \in 1 .. last
  <2>1. k - 1 \in 0 .. BlockBufferSize - 1
    BY <1>1, SizeAssumption
  <2>2. SlotBehind(p, k - 1) \in Slot
    BY <2>1, RingFacts
  <2> QED
    BY <2>2 DEF Buffers, Blocks
<1> HIDE DEF last, d, reverse
<1>3. \A k \in 1 .. last : \A m \in Nat : Value(k, m) \in Nat
  <2> TAKE k \in 1 .. last
  <2> TAKE m \in Nat
  <2>1. reverse[k] \in Nat /\ m + d(k - 1) \in Nat /\ k # 0
    BY <1>1, <1>2
  <2> QED
    BY <2>1, SmallerFacts
<1>4. \E f : Is(f)
  <2> DEFINE first == buffer[p].entry
             step == [i \in Nat |-> [m \in Nat |-> IF i \in 1 .. last THEN Value(i, m) ELSE m]]
  <2>1. last \in Nat /\ first \in Nat
    BY <1>1
  <2> HIDE DEF Value
  <2>2. step \in Steps(Nat)
    BY <1>3 DEF Steps
  <2>3. PICK r : Follows(r, Nat, first, step, last)
    <3> HIDE DEF first, step
    <3> QED
      BY <2>1, <2>2, Recursion
  <2>4. /\ r \in [0 .. last -> Nat]
        /\ \A i \in 0 .. last : r[i] = IF i = 0 THEN first ELSE step[i][r[i - 1]]
    BY <2>3 DEF Follows
  <2>5. ASSUME NEW i \in 0 .. last PROVE r[i] = Value(i, r[i - 1])
    <3>1. i # 0 => i \in 1 .. last /\ i \in Nat /\ r[i - 1] \in Nat
      BY <2>1, <2>4
    <3> QED
      BY <2>4, <3>1 DEF Value
  <2>6. r = [i \in 0 .. last |-> r[i]]
    BY <2>4
  <2>7. Is(r)
    BY <2>5, <2>6
  <2> QED
    BY <2>7
<1>5. Is(pass)
  <2> HIDE DEF Is
  <2> QED
    BY <1>4
<1>6. ForwardPass(buffer, p, h) = pass
  BY DEF ForwardPass, last, Value, d, reverse
<1> HIDE DEF pass
<1>7. \A k \in 0 .. last : pass[k] = Value(k, pass[k - 1])
  BY <1>5
<1>8. \A k \in 0 .. last : pass[k] \in Nat
  <2> DEFINE T == {i \in Nat : i <= last => pass[i] \in Nat}
  <2>1. 0 \in T
    BY <1>1, <1>7
  <2>2. ASSUME NEW i \in Nat, i \in T PROVE i + 1 \in T
    <3> SUFFICES ASSUME i + 1 <= last PROVE pass[i + 1] \in Nat
      OBVIOUS
    <3>1. pass[i] \in Nat /\ i + 1 \in 1 .. last /\ i + 1 \in 0 .. last /\ (i + 1) - 1 = i
      BY <1>1, <2>2
    <3> HIDE DEF Value
    <3> QED
      BY <1>3, <1>7, <3>1
  <2>3. Nat \subseteq T
    <3> HIDE DEF T
    <3> QED
      BY <2>1, <2>2, Induction
  <2> QED
    BY <2>3
<1>9. pass = [k \in 0 .. last |-> pass[k]]
  <2>1. PICK g : g = [k \in 0 .. last |-> Value(k, pass[k - 1])]
    OBVIOUS
  <2>2. g = [k \in 0 .. last |-> g[k]]
    BY <2>1
  <2> QED
    BY <1>5, <2>1, <2>2
<1>10. pass \in [0 .. last -> Nat]
  BY <1>8, <1>9
<1>11. \A k \in 1 .. last : pass[k] = Smaller(reverse[k], pass[k - 1] + d(k - 1))
  BY <1>1, <1>7
<1>12. pass[0] = buffer[p].entry
  BY <1>1, <1>7
<1> QED
  BY <1>6, <1>10, <1>11, <1>12 DEF last, d, reverse

(* Where the planned pointer goes: the last block that is settled.         *)
Settled(buffer, p, h, k) ==
  \/ ForwardPass(buffer, p, h)[k] < ReversePass(buffer, p, h)[k]
  \/ ForwardPass(buffer, p, h)[k] = buffer[SlotBehind(p, k)].max

LEMMA PlannedFacts ==
  ASSUME NEW buffer \in Buffers, NEW p \in Slot, NEW h \in Slot
  PROVE  \E k \in 0 .. Last(p, h) :
           /\ PlannedUpTo(buffer, p, h) = SlotBehind(p, k)
           /\ k # 0 => Settled(buffer, p, h, k)
           /\ \A j \in k + 1 .. Last(p, h) : ~Settled(buffer, p, h, j)
<1> DEFINE last == Last(p, h)
           optimal == {k \in 1 .. last : Settled(buffer, p, h, k)}
<1>1. last \in Nat
  BY LastTyped
<1>2. PlannedUpTo(buffer, p, h) = IF optimal = {} THEN p ELSE SlotBehind(p, Max(optimal))
  BY DEF PlannedUpTo, Settled
<1>3. CASE optimal = {}
  <2>1. PlannedUpTo(buffer, p, h) = SlotBehind(p, 0)
    BY <1>2, <1>3, RingFacts
  <2>2. \A j \in 0 + 1 .. last : ~Settled(buffer, p, h, j)
    BY <1>3
  <2>3. 0 \in 0 .. last
    BY <1>1
  <2> QED
    BY <2>1, <2>2, <2>3
<1>4. CASE optimal # {}
  <2>1. optimal \subseteq 1 .. last
    OBVIOUS
  <2> HIDE DEF last
  <2>2. Max(optimal) \in optimal /\ \A x \in optimal : x <= Max(optimal)
    <3> HIDE DEF optimal
    <3> QED
      BY <1>1, <1>4, <2>1, MaxFacts
  <2>3. PICK k : k = Max(optimal)
    OBVIOUS
  <2>4. k \in 1 .. last /\ Settled(buffer, p, h, k) /\ PlannedUpTo(buffer, p, h) = SlotBehind(p, k)
    BY <1>2, <1>4, <2>2, <2>3
  <2>5. ASSUME NEW j \in k + 1 .. last PROVE ~Settled(buffer, p, h, j)
    BY <1>1, <2>2, <2>3, <2>4
  <2> QED
    BY <1>1, <2>4, <2>5 DEF last
<1> QED
  BY <1>3, <1>4

(* The blocks the passes have not looked at keep what they have, the other *)
(* get the entry speed of the forward pass.                                *)
LEMMA RecalculatedFacts ==
  ASSUME NEW buffer \in Buffers, NEW p \in Slot, NEW h \in Slot
  PROVE  /\ Recalculated(buffer, p, h) \in Buffers
         /\ PlannedUpTo(buffer, p, h) \in Slot
         /\ \A i \in Slot : \E e \in Nat :
              Recalculated(buffer, p, h)[i] = [buffer[i] EXCEPT !.entry = e]
         /\ \A i \in Slot : Behind(p, i) \notin 1 .. Last(p, h) =>
              Recalculated(buffer, p, h)[i] = buffer[i]
         /\ \A k \in 1 .. Last(p, h) :
              Recalculated(buffer, p, h)[SlotBehind(p, k)]
                = [buffer[SlotBehind(p, k)] EXCEPT !.entry = ForwardPass(buffer, p, h)[k]]
<1> DEFINE forward == ForwardPass(buffer, p, h)
<1>1. forward \in [0 .. Last(p, h) -> Nat] /\ Last(p, h) \in 0 .. BlockBufferSize - 1
  BY ForwardPassFacts, LastTyped
<1> HIDE DEF forward
<1>2. ASSUME NEW i \in Slot, Behind(p, i) \in 1 .. Last(p, h)
      PROVE  forward[Behind(p, i)] \in Nat
  BY <1>1, <1>2
<1>3. Recalculated(buffer, p, h) =
        [i \in Slot |-> IF Behind(p, i) \in 1 .. Last(p, h)
                          THEN [buffer[i] EXCEPT !.entry = forward[Behind(p, i)]]
                          ELSE buffer[i]]
  BY DEF Recalculated, forward
<1>4. Recalculated(buffer, p, h) \in Buffers
  BY <1>2, <1>3 DEF Buffers, Blocks
<1>5. PlannedUpTo(buffer, p, h) \in Slot
  <2>1. PICK k \in 0 .. Last(p, h) : PlannedUpTo(buffer, p, h) = SlotBehind(p, k)
    BY PlannedFacts
  <2>2. k \in 0 .. BlockBufferSize - 1
    BY <1>1, <2>1, SizeAssumption
  <2> QED
    BY <2>1, <2>2, SlotFacts
<1>6. ASSUME NEW k \in 1 .. Last(p, h)
      PROVE  Recalculated(buffer, p, h)[SlotBehind(p, k)]
               = [buffer[SlotBehind(p, k)] EXCEPT !.entry = forward[k]]
  <2>1. k \in 0 .. BlockBufferSize - 1
    BY <1>1, SizeAssumption
  <2>2. SlotBehind(p, k) \in Slot /\ Behind(p, SlotBehind(p, k)) = k
    BY <2>1, RingFacts
  <2> QED
    BY <1>3, <2>2
<1>7. ASSUME NEW i \in Slot
      PROVE  \E e \in Nat : Recalculated(buffer, p, h)[i] = [buffer[i] EXCEPT !.entry = e]
  <2>1. CASE Behind(p, i) \in 1 .. Last(p, h)
    BY <1>2, <1>3, <2>1
  <2>2. CASE Behind(p, i) \notin 1 .. Last(p, h)
    <3>1. buffer[i].entry \in Nat /\ buffer[i] = [buffer[i] EXCEPT !.entry = buffer[i].entry]
      BY DEF Buffers, Blocks
    <3>2. Recalculated(buffer, p, h)[i] = buffer[i]
      BY <1>3, <2>2
    <3> QED
      BY <3>1, <3>2
  <2> QED
    BY <2>1, <2>2
<1> QED
  BY <1>3, <1>4, <1>5, <1>6, <1>7 DEF forward

-----------------------------------------------------------------------------
(* Type correctness.                                                       *)
Preps == [recalc : BOOLEAN, decel : BOOLEAN, current : Nat, exit : Nat]
Profiles == [ramp : {"ACCEL", "TRAPEZOID", "DECEL", "OVERRIDE"}, exit : Nat,
             nominal : Nat, complete : Nat, until : Nat, decel : BOOLEAN]

(* The head is followed by the next head, and the block that is cut or to  *)
(* be reloaded is queued.                                                  *)
RingOK ==
  /\ next_head = plan_next_block_index(head)
  /\ pl_block # NULL => ~Empty
  /\ prep.recalc => ~Empty /\ pl_block = NULL
(* The form of the rest of a profile: for a hold, slowing down to a lower  *)
(* override through a whole block, or as planned; v is the speed at its    *)
(* start and d is the distance.                                            *)
HoldForm(p, v, d) ==
  /\ p.ramp = "DECEL" /\ ~p.decel /\ v + p.complete = d + p.exit
  /\ p.complete = 0 \/ p.exit = 0
SlowForm(p, v, d) == p.ramp = "DECEL" /\ p.decel /\ p.complete = 0 /\ v = d + p.exit
PlanForm(p, v, d) ==
  /\ p.complete = 0 /\ ~p.decel
  /\ \/ p.ramp = "ACCEL" /\ v + d <= p.exit
     \/ p.ramp = "DECEL" /\ v >= d + p.exit
     \/ p.ramp = "TRAPEZOID" /\ (p.nominal >= p.exit => v + d >= p.exit)
     \/ p.ramp = "OVERRIDE" /\ p.until > 0 /\ (d >= p.until => v + p.until = p.nominal + d)
Formed(p, v, d) == HoldForm(p, v, d) \/ SlowForm(p, v, d) \/ PlanForm(p, v, d)
ProfileFormed == pl_block # NULL => Formed(profile, prep.current, block_buffer[tail].dist)
PlannerTyped == TypeOK /\ RingOK /\ ProfileFormed

LEMMA Typed ==
  ASSUME TypeOK
  PROVE  /\ block_buffer \in Buffers /\ prep \in Preps /\ profile \in Profiles
         /\ tail \in Slot /\ head \in Slot /\ next_head \in Slot /\ planned \in Slot
         /\ NULL \notin Slot /\ Count \in 0 .. BlockBufferSize - 1
         /\ block_buffer[tail] \in Blocks
         /\ ~Empty <=> Count >= 1
<1>1. NULL \notin Slot
  BY SizeAssumption DEF NULL, Slot
<1>2. Count \in 0 .. BlockBufferSize - 1 /\ (~Empty <=> Count >= 1)
  BY BehindFacts, SizeAssumption DEF TypeOK, Count, Empty
<1> QED
  BY <1>1, <1>2 DEF TypeOK, Buffers, Blocks, Preps, Profiles

LEMMA NothingTyped ==
  /\ NoBlock \in Blocks /\ NotPrepared \in Preps /\ NoProfile \in Profiles
  /\ {0, 1} \subseteq Slot /\ plan_next_block_index(0) = 1
<1>1. (CHOOSE r \in Rates : TRUE) \in Rates
  BY RatesAssumption
<1>2. NoBlock \in Blocks
  BY <1>1 DEF NoBlock, Blocks
<1>3. NotPrepared \in Preps /\ NoProfile \in Profiles
  BY DEF NotPrepared, Preps, NoProfile, Profiles
<1> QED
  BY <1>2, <1>3, SizeAssumption DEF Slot, plan_next_block_index

(* What the passes do not change of a block.                               *)
Same(b, c) == b.dist = c.dist /\ b.junction = c.junction /\ b.rate = c.rate /\ b.max = c.max

LEMMA UpdatedFacts ==
  ASSUME TypeOK, NEW buffer \in Buffers
  PROVE  /\ ParametersUpdated(buffer) \in Buffers
         /\ \A i \in Slot : Same(ParametersUpdated(buffer)[i], buffer[i])
         /\ \A i \in Slot \ {tail} : ParametersUpdated(buffer)[i] = buffer[i]
         /\ pl_block # NULL => ParametersUpdated(buffer)[tail].entry = prep.current
         /\ pl_block = NULL => ParametersUpdated(buffer) = buffer
<1>1. CASE pl_block = NULL
  BY <1>1 DEF ParametersUpdated, Same
<1>2. CASE pl_block # NULL
  <2>1. pl_block = tail /\ tail \in Slot /\ prep.current \in Nat
    BY <1>2 DEF TypeOK
  <2>2. ParametersUpdated(buffer) = [buffer EXCEPT ![tail].entry = prep.current]
    BY <1>2, <2>1 DEF ParametersUpdated
  <2>3. [buffer[tail] EXCEPT !.entry = prep.current] \in Blocks
    BY <2>1 DEF Buffers, Blocks
  <2>4. ParametersUpdated(buffer) \in Buffers
    BY <2>1, <2>2, <2>3 DEF Buffers
  <2>5. ParametersUpdated(buffer)[tail] = [buffer[tail] EXCEPT !.entry = prep.current]
    BY <2>1, <2>2 DEF Buffers
  <2>6. \A i \in Slot \ {tail} : ParametersUpdated(buffer)[i] = buffer[i]
    BY <2>1, <2>2 DEF Buffers
  <2>7. buffer[tail] \in Blocks
    BY <2>1 DEF Buffers
  <2>8. Same([buffer[tail] EXCEPT !.entry = prep.current], buffer[tail])
        /\ [buffer[tail] EXCEPT !.entry = prep.current].entry = prep.current
    BY <2>7 DEF Same, Blocks
  <2> QED
    BY <1>2, <2>4, <2>5, <2>6, <2>8 DEF Same
<1> QED
  BY <1>1, <1>2

LEMMA UpdateTyped ==
  ASSUME TypeOK, st_update_plan_block_parameters
  PROVE  /\ pl_block' = NULL /\ prep' \in Preps /\ profile' \in Profiles
         /\ prep'.recalc => prep.recalc \/ pl_block # NULL
         /\ prep'.current = prep.current /\ prep'.decel = prep.decel /\ prep'.exit = prep.exit
         /\ pl_block = NULL => prep' = prep
         /\ pl_block # NULL => prep'.recalc
BY NothingTyped DEF st_update_plan_block_parameters, TypeOK, Preps

LEMMA SameKept ==
  ASSUME NEW buffer \in Buffers, NEW p \in Slot, NEW h \in Slot
  PROVE  \A i \in Slot : Same(Recalculated(buffer, p, h)[i], buffer[i])
<1> TAKE i \in Slot
<1>1. PICK e \in Nat : Recalculated(buffer, p, h)[i] = [buffer[i] EXCEPT !.entry = e]
  BY RecalculatedFacts
<1>2. buffer[i] \in Blocks
  BY DEF Buffers
<1> QED
  BY <1>1, <1>2 DEF Same, Blocks

(* A recalculation leaves the generator alone or makes it reload its block.*)
LEMMA RecalculateTyped ==
  ASSUME TypeOK, NEW buffer \in Buffers, NEW p \in Slot, NEW h \in Slot,
         planner_recalculate(buffer, p, h)
  PROVE  /\ block_buffer' \in Buffers /\ planned' \in Slot
         /\ \A i \in Slot : Same(block_buffer'[i], buffer[i])
         /\ UNCHANGED prepVars \/ st_update_plan_block_parameters
<1> DEFINE current == IF ReachesTail(p, h) THEN ParametersUpdated(buffer) ELSE buffer
<1>1. current \in Buffers /\ \A i \in Slot : Same(current[i], buffer[i])
  BY UpdatedFacts DEF Same
<1>2. \/ block_buffer' = buffer /\ planned' = p /\ UNCHANGED prepVars
      \/ /\ block_buffer' = Recalculated(current, p, h)
         /\ planned' = PlannedUpTo(current, p, h)
         /\ UNCHANGED prepVars \/ st_update_plan_block_parameters
  BY DEF planner_recalculate
<1> HIDE DEF current
<1>3. Recalculated(current, p, h) \in Buffers /\ PlannedUpTo(current, p, h) \in Slot
  BY <1>1, RecalculatedFacts
<1>4. \A i \in Slot : Same(Recalculated(current, p, h)[i], current[i])
  BY <1>1, SameKept
<1> QED
  BY <1>1, <1>2, <1>3, <1>4 DEF Same

LEMMA ReinitializeTyped ==
  ASSUME TypeOK, NEW buffer \in Buffers, plan_cycle_reinitialize(buffer)
  PROVE  /\ block_buffer' \in Buffers /\ planned' \in Slot
         /\ \A i \in Slot : Same(block_buffer'[i], buffer[i])
         /\ ~Empty => Behind(tail, planned') < Count
<1> DEFINE current == ParametersUpdated(buffer)
<1>1. current \in Buffers /\ (\A i \in Slot : Same(current[i], buffer[i])) /\ tail \in Slot /\ head \in Slot
  BY UpdatedFacts DEF TypeOK
<1>2. block_buffer' = Recalculated(current, tail, head) /\ planned' = PlannedUpTo(current, tail, head)
  BY DEF plan_cycle_reinitialize
<1> HIDE DEF current
<1>3. Recalculated(current, tail, head) \in Buffers /\ PlannedUpTo(current, tail, head) \in Slot
  BY <1>1, RecalculatedFacts
<1>4. \A i \in Slot : Same(Recalculated(current, tail, head)[i], current[i])
  BY <1>1, SameKept
<1>5. ASSUME ~Empty PROVE Behind(tail, planned') < Count
  <2>1. PICK k \in 0 .. Last(tail, head) : planned' = SlotBehind(tail, k)
    BY <1>1, <1>2, PlannedFacts
  <2>2. Last(tail, head) = Count - 1 /\ Count \in 0 .. BlockBufferSize - 1
    BY <1>1, <1>5, RingFacts DEF Last, Count, Empty
  <2>3. k \in 0 .. BlockBufferSize - 1 /\ k < Count
    BY <2>1, <2>2, SizeAssumption
  <2>4. Behind(tail, planned') = k
    BY <1>1, <2>1, <2>3, SlotFacts
  <2> QED
    BY <2>3, <2>4
<1> QED
  BY <1>1, <1>2, <1>3, <1>4, <1>5 DEF Same

-----------------------------------------------------------------------------
LEMMA NominalTyped ==
  ASSUME TypeOK, NEW j \in Slot
  PROVE  NominalSqr[block_buffer[j].rate][override] \in Nat \ {0}
BY RatesAssumption DEF TypeOK

(* The profile of a block, and the speed along it.                         *)
LEMMA VariantTyped ==
  ASSUME NEW ramp \in {"ACCEL", "TRAPEZOID", "DECEL", "OVERRIDE"}, NEW exit \in Nat,
         NEW x \in Nat
  PROVE  /\ [NoProfile EXCEPT !.ramp = ramp, !.complete = x, !.exit = exit] \in Profiles
         /\ [NoProfile EXCEPT !.ramp = ramp, !.exit = exit] \in Profiles
         /\ [NoProfile EXCEPT !.ramp = ramp, !.exit = exit, !.decel = TRUE] \in Profiles
         /\ [NoProfile EXCEPT !.ramp = ramp, !.exit = exit, !.nominal = x] \in Profiles
BY NothingTyped DEF Profiles

LEMMA HoldProfileFacts ==
  ASSUME NEW v \in Nat, NEW d \in Nat
  PROVE  /\ HoldProfile(v, d) \in Profiles /\ HoldForm(HoldProfile(v, d), v, d)
         /\ HoldProfile(v, d).complete <= d
<1> DEFINE exit == IF d < v THEN v - d ELSE 0
           complete == IF d < v THEN 0 ELSE d - v
<1>1. exit \in Nat /\ complete \in Nat /\ v + complete = d + exit /\ complete <= d
      /\ (complete = 0 \/ exit = 0)
  OBVIOUS
<1>2. HoldProfile(v, d) = [NoProfile EXCEPT !.ramp = "DECEL", !.complete = complete, !.exit = exit]
  BY DEF HoldProfile
<1> HIDE DEF exit, complete
<1>3. HoldProfile(v, d) \in Profiles
  BY <1>1, <1>2, NothingTyped DEF Profiles
<1>4. /\ HoldProfile(v, d).ramp = "DECEL" /\ ~HoldProfile(v, d).decel
      /\ HoldProfile(v, d).complete = complete /\ HoldProfile(v, d).exit = exit
  BY <1>2 DEF NoProfile
<1> QED
  BY <1>1, <1>3, <1>4 DEF HoldForm

LEMMA OverrideProfileFacts ==
  ASSUME NEW v \in Nat, NEW d \in Nat, NEW nominal \in Nat, NEW exit \in Nat, v > nominal
  PROVE  LET p == OverrideProfile(v, d, nominal, exit)
         IN /\ p \in Profiles
            /\ \/ SlowForm(p, v, d)
               \/ PlanForm(p, v, d) /\ p.exit = exit /\ p.ramp = "OVERRIDE" /\ p.nominal = nominal
<1> DEFINE p == OverrideProfile(v, d, nominal, exit)
<1>1. CASE d <= v - nominal
  <2>1. PICK e \in Nat : e = v - d
    BY <1>1
  <2>2. p = [NoProfile EXCEPT !.ramp = "DECEL", !.exit = e, !.decel = TRUE]
    BY <1>1, <2>1 DEF OverrideProfile
  <2>3. p.ramp = "DECEL" /\ p.exit = e /\ p.complete = 0
    BY <2>2 DEF NoProfile
  <2>4. p.decel
    BY <2>2 DEF NoProfile
  <2>5. p \in Profiles
    BY <2>1, <2>2, VariantTyped
  <2>6. v = d + e
    BY <1>1, <2>1
  <2> QED
    BY <2>3, <2>4, <2>5, <2>6 DEF SlowForm
<1>2. CASE ~(d <= v - nominal)
  <2>1. PICK u \in Nat : u = d - (v - nominal)
    BY <1>2
  <2>2. p = [NoProfile EXCEPT !.ramp = "OVERRIDE", !.exit = exit, !.nominal = nominal, !.until = u]
    BY <1>2, <2>1 DEF OverrideProfile
  <2>3. p.ramp = "OVERRIDE" /\ p.exit = exit /\ p.nominal = nominal /\ p.complete = 0 /\ p.until = u
    BY <2>2 DEF NoProfile
  <2>4. ~p.decel
    BY <2>2 DEF NoProfile
  <2>5. p \in Profiles
    BY <2>1, <2>2, NothingTyped DEF Profiles
  <2>6. v + u = nominal + d /\ u > 0
    BY <1>2, <2>1
  <2> QED
    BY <2>3, <2>4, <2>5, <2>6 DEF PlanForm
<1> QED
  BY <1>1, <1>2

LEMMA NormalProfileFacts ==
  ASSUME NEW v \in Nat, NEW d \in Nat, NEW nominal \in Nat, NEW exit \in Nat
  PROVE  LET p == NormalProfile(v, d, nominal, exit)
         IN /\ p \in Profiles /\ PlanForm(p, v, d) /\ p.exit = exit
            /\ \/ p.ramp = "ACCEL" /\ d + v <= exit
               \/ p.ramp = "DECEL" /\ exit + d <= v
               \/ p.ramp = "TRAPEZOID" /\ p.nominal = nominal /\ d + v > exit /\ exit + d > v
<1> DEFINE p == NormalProfile(v, d, nominal, exit)
<1>1. CASE d + v <= exit
  <2>1. p = [NoProfile EXCEPT !.ramp = "ACCEL", !.exit = exit]
    BY <1>1 DEF NormalProfile
  <2>2. p.ramp = "ACCEL" /\ p.exit = exit /\ p.complete = 0 /\ ~p.decel
    BY <2>1 DEF NoProfile
  <2>3. p \in Profiles
    BY <2>1, VariantTyped
  <2>4. v + d <= exit
    BY <1>1
  <2> QED
    BY <1>1, <2>2, <2>3, <2>4 DEF PlanForm
<1>2. CASE ~(d + v <= exit) /\ exit + d <= v
  <2>1. p = [NoProfile EXCEPT !.ramp = "DECEL", !.exit = exit]
    BY <1>2 DEF NormalProfile
  <2>2. p.ramp = "DECEL" /\ p.exit = exit /\ p.complete = 0 /\ ~p.decel
    BY <2>1 DEF NoProfile
  <2>3. p \in Profiles
    BY <2>1, VariantTyped
  <2>4. v >= d + exit
    BY <1>2
  <2> QED
    BY <1>2, <2>2, <2>3, <2>4 DEF PlanForm
<1>3. CASE ~(d + v <= exit) /\ ~(exit + d <= v)
  <2>1. p = [NoProfile EXCEPT !.ramp = "TRAPEZOID", !.exit = exit, !.nominal = nominal]
    BY <1>3 DEF NormalProfile
  <2>2. p.ramp = "TRAPEZOID" /\ p.exit = exit /\ p.complete = 0 /\ p.nominal = nominal /\ ~p.decel
    BY <2>1 DEF NoProfile
  <2>3. p \in Profiles
    BY <2>1, NothingTyped DEF Profiles
  <2>4. v + d >= exit /\ d + v > exit /\ exit + d > v
    BY <1>3
  <2> QED
    BY <2>2, <2>3, <2>4 DEF PlanForm
<1> QED
  BY <1>1, <1>2, <1>3

LEMMA LoadTyped ==
  ASSUME TypeOK PROVE LoadSpeed \in Nat /\ plan_get_exec_block_exit_speed_sqr \in Nat
<1>1. tail \in Slot /\ plan_next_block_index(tail) \in Slot
  BY RingFacts DEF TypeOK
<1> QED
  BY <1>1 DEF TypeOK, LoadSpeed, plan_get_exec_block_exit_speed_sqr

(* The speed the segment begins with.                                      *)
SegmentSpeed == IF pl_block = NULL THEN LoadSpeed ELSE prep.current

LEMMA ProfileTyped ==
  ASSUME PlannerTyped
  PROVE  /\ Profile \in Profiles /\ SegmentSpeed \in Nat
         /\ block_buffer[tail].dist \in Nat
         /\ Formed(Profile, SegmentSpeed, block_buffer[tail].dist)
<1>1. /\ LoadSpeed \in Nat /\ plan_get_exec_block_exit_speed_sqr \in Nat
      /\ block_buffer[tail].dist \in Nat /\ NominalSqr[block_buffer[tail].rate][override] \in Nat
      /\ prep.current \in Nat /\ profile \in Profiles
  BY LoadTyped, NominalTyped DEF PlannerTyped, TypeOK, Profiles
<1>2. CASE pl_block # NULL
  BY <1>1, <1>2 DEF PlannerTyped, ProfileFormed, Profile, SegmentSpeed
<1>3. CASE pl_block = NULL
  <2>1. PICK v \in Nat, d \in Nat, n \in Nat, x \in Nat :
          /\ v = LoadSpeed /\ d = block_buffer[tail].dist
          /\ n = NominalSqr[block_buffer[tail].rate][override]
          /\ x = plan_get_exec_block_exit_speed_sqr
    BY <1>1
  <2>2. \/ Profile = HoldProfile(v, d)
        \/ v > n /\ Profile = OverrideProfile(v, d, n, x)
        \/ Profile = NormalProfile(v, d, n, x)
    BY <1>3, <2>1 DEF Profile
  <2>3. Profile \in Profiles /\ Formed(Profile, v, d)
    BY <2>2, HoldProfileFacts, OverrideProfileFacts, NormalProfileFacts DEF Formed
  <2> QED
    BY <1>3, <2>1, <2>3 DEF SegmentSpeed
<1> QED
  BY <1>2, <1>3

(* The speed along a profile stays a speed, and the rest of the block keeps*)
(* its form.                                                               *)
LEMMA SpeedAtTyped ==
  ASSUME NEW p \in Profiles, NEW v \in Nat, NEW d \in Nat, Formed(p, v, d),
         NEW r \in p.complete .. d
  PROVE  /\ SpeedAt(p, v, d, r) \in Nat
         /\ HoldForm(p, v, d) => HoldForm(p, SpeedAt(p, v, d, r), r)
         /\ SlowForm(p, v, d) => SlowForm(p, SpeedAt(p, v, d, r), r)
         /\ PlanForm(p, v, d) => PlanForm(p, SpeedAt(p, v, d, r), r)
<1>1. p.complete \in Nat /\ p.exit \in Nat /\ p.nominal \in Nat /\ p.until \in Nat /\ r \in Nat /\ r <= d
  BY DEF Profiles
<1>2. p.ramp \in {"ACCEL", "TRAPEZOID", "DECEL", "OVERRIDE"}
  BY DEF Profiles
<1> USE DEF Formed, HoldForm, SlowForm, PlanForm
<1>3. CASE p.ramp = "DECEL"
  <2>1. SpeedAt(p, v, d, r) = IF r = p.complete THEN p.exit ELSE v - (d - r)
    BY <1>3 DEF SpeedAt
  <2> QED
    BY <1>1, <1>3, <2>1
<1>4. CASE p.ramp = "ACCEL"
  <2>1. SpeedAt(p, v, d, r) = IF r = p.complete THEN p.exit ELSE v + (d - r)
    BY <1>4 DEF SpeedAt
  <2> QED
    BY <1>1, <1>4, <2>1
<1>5. CASE p.ramp = "TRAPEZOID"
  <2>1. SpeedAt(p, v, d, r) = Smaller(v + (d - r), Smaller(p.nominal, p.exit + r))
    BY <1>5 DEF SpeedAt
  <2> QED
    BY <1>1, <1>5, <2>1 DEF Smaller
<1>6. CASE p.ramp = "OVERRIDE"
  <2>1. SpeedAt(p, v, d, r) = IF r >= p.until THEN v - (d - r) ELSE Smaller(p.nominal, p.exit + r)
    BY <1>6 DEF SpeedAt
  <2> QED
    BY <1>1, <1>6, <2>1 DEF Smaller
<1> QED
  BY <1>2, <1>3, <1>4, <1>5, <1>6

(* The ring behind the tail: the head moves on, and so does the pointer.   *)
LEMMA QueueFacts ==
  ASSUME NEW t \in Slot, NEW p \in Slot, NEW k \in Nat, Behind(t, p) + k <= BlockBufferSize - 1
  PROVE  /\ SlotBehind(p, k) = SlotBehind(t, Behind(t, p) + k)
         /\ Behind(t, SlotBehind(p, k)) = Behind(t, p) + k
BY SizeAssumption DEF Slot, Behind, SlotBehind

LEMMA GrowsFacts ==
  ASSUME NEW t \in Slot, NEW h \in Slot, plan_next_block_index(h) # t
  PROVE  /\ Behind(t, plan_next_block_index(h)) = Behind(t, h) + 1
         /\ \A p \in Slot : Behind(t, p) <= Behind(t, h) =>
              Last(p, plan_next_block_index(h)) = Behind(t, h) - Behind(t, p)
         /\ \A p \in Slot : Last(p, plan_next_block_index(h)) = Behind(p, h)
BY SizeAssumption DEF Slot, Behind, Last, plan_next_block_index, plan_prev_block_index

(* The block that plan_buffer_line adds, and the buffer with it.           *)
NewBlock(shape) ==
  [dist |-> shape.dist, junction |-> IF Empty THEN 0 ELSE shape.junction, rate |-> shape.rate,
   max |-> Smaller(IF Empty THEN 0 ELSE shape.junction,
                   Smaller(NominalSqr[shape.rate][override], prev_nominal)),
   entry |-> 0]
Buffered(shape) == [block_buffer EXCEPT ![head] = NewBlock(shape)]

LEMMA BufferedTyped ==
  ASSUME TypeOK, NEW shape \in Shapes
  PROVE  /\ Buffered(shape) \in Buffers /\ Buffered(shape)[head] = NewBlock(shape)
         /\ \A i \in Slot \ {head} : Buffered(shape)[i] = block_buffer[i]
         /\ NewBlock(shape) \in Blocks
         /\ Empty => NewBlock(shape).max = 0
<1>1. /\ shape.dist \in Nat /\ shape.junction \in Nat /\ shape.rate \in Rates
  BY ShapesAssumption
<1>2. NominalSqr[shape.rate][override] \in Nat /\ prev_nominal \in Nat
  BY <1>1, RatesAssumption DEF TypeOK
<1>3. PICK n \in Nat : n = NominalSqr[shape.rate][override]
  BY <1>2
<1>4. PICK j \in Nat : j = IF Empty THEN 0 ELSE shape.junction
  BY <1>1
<1>5. PICK m \in Nat : m = Smaller(j, Smaller(n, prev_nominal)) /\ m <= j
  BY <1>2, SmallerFacts
<1>6. NewBlock(shape) = [dist |-> shape.dist, junction |-> j, rate |-> shape.rate,
                         max |-> m, entry |-> 0]
  BY <1>3, <1>4, <1>5 DEF NewBlock
<1>7. NewBlock(shape) \in Blocks
  BY <1>1, <1>6 DEF Blocks
<1>8. Empty => NewBlock(shape).max = 0
  BY <1>4, <1>5, <1>6
<1> QED
  BY <1>7, <1>8, Typed DEF Buffered, Buffers

LEMMA BufferLineIs ==
  ASSUME NEW shape \in Shapes, BufferLine(shape)
  PROVE  /\ mode \in {"idle", "cycle"} /\ tail # next_head
         /\ lines < MaxLines /\ lines' = lines + 1
         /\ prev_nominal' = NominalSqr[shape.rate][override]
         /\ head' = next_head /\ next_head' = plan_next_block_index(next_head)
         /\ planner_recalculate(Buffered(shape), planned, next_head)
         /\ UNCHANGED <<tail, override, step_control, mode>>
BY DEF BufferLine, plan_check_full_buffer, Buffered, NewBlock

(* The last block is settled when its maximum is 0.                        *)
LEMMA LastSettled ==
  ASSUME NEW buffer \in Buffers, NEW p \in Slot, NEW h \in Slot,
         Last(p, h) # 0, buffer[SlotBehind(p, Last(p, h))].max = 0
  PROVE  /\ PlannedUpTo(buffer, p, h) = SlotBehind(p, Last(p, h))
         /\ Recalculated(buffer, p, h)[SlotBehind(p, Last(p, h))].entry = 0
<1>1. PICK last \in 1 .. BlockBufferSize - 1 : last = Last(p, h)
  BY LastTyped
<1>2. last \in Nat /\ last - 1 \in 0 .. BlockBufferSize - 1 /\ last - 1 \in 0 .. last /\ last \in 0 .. BlockBufferSize - 1
  BY SizeAssumption
<1>3. PICK s \in Slot, b \in Slot : s = SlotBehind(p, last) /\ b = SlotBehind(p, last - 1)
  BY <1>2, SlotFacts
<1>4. ReversePass(buffer, p, h)[last] = Smaller(buffer[s].max, buffer[s].dist)
  BY <1>1, <1>3, ReversePassFacts
<1>5. buffer[s].max = 0 /\ buffer[s].dist \in Nat /\ buffer[b].dist \in Nat
  BY <1>1, <1>3 DEF Buffers, Blocks
<1>6. ReversePass(buffer, p, h)[last] = 0
  BY <1>4, <1>5 DEF Smaller
<1>7. ForwardPass(buffer, p, h)[last] = Smaller(0, ForwardPass(buffer, p, h)[last - 1] + buffer[b].dist)
  BY <1>1, <1>3, <1>6, ForwardPassFacts
<1>8. ForwardPass(buffer, p, h)[last - 1] \in Nat
  BY <1>1, <1>2, ForwardPassFacts
<1>9. ForwardPass(buffer, p, h)[last] = 0
  BY <1>5, <1>7, <1>8 DEF Smaller
<1>10. Settled(buffer, p, h, last)
  BY <1>3, <1>5, <1>9 DEF Settled
<1>11. PICK k \in 0 .. Last(p, h) : PlannedUpTo(buffer, p, h) = SlotBehind(p, k)
             /\ \A j \in k + 1 .. Last(p, h) : ~Settled(buffer, p, h, j)
  BY PlannedFacts
<1>12. k = last
  BY <1>1, <1>10, <1>11
<1>13. Recalculated(buffer, p, h)[s].entry = 0
  <2>1. Recalculated(buffer, p, h)[s] = [buffer[s] EXCEPT !.entry = 0] /\ buffer[s] \in Blocks
    BY <1>1, <1>3, <1>9, RecalculatedFacts DEF Buffers
  <2> QED
    BY <2>1 DEF Blocks
<1> QED
  BY <1>1, <1>3, <1>11, <1>12, <1>13

(* The planned pointer stays in the queue when a line is added.            *)
LEMMA BufferLinePlanned ==
  ASSUME TypeOK, RingOK, NEW shape \in Shapes, BufferLine(shape)
  PROVE  Count' = Count + 1 /\ Behind(tail, planned') <= Count
<1> DEFINE buffer == Buffered(shape)
           current == IF ReachesTail(planned, next_head) THEN ParametersUpdated(buffer) ELSE buffer
<1>1. /\ tail \in Slot /\ head \in Slot /\ planned \in Slot /\ next_head \in Slot
      /\ next_head = plan_next_block_index(head) /\ next_head # tail
      /\ tail' = tail /\ head' = next_head
  BY BufferLineIs DEF TypeOK, RingOK
<1>2. Count' = Count + 1 /\ Last(planned, next_head) = Behind(planned, head)
  BY <1>1, GrowsFacts DEF Count
<1>3. buffer \in Buffers /\ current \in Buffers
  BY BufferedTyped, UpdatedFacts
<1>4. \/ Last(planned, next_head) = 0 /\ planned' = planned
      \/ Last(planned, next_head) # 0 /\ planned' = PlannedUpTo(current, planned, next_head)
  BY BufferLineIs DEF planner_recalculate
<1>5. CASE ~Empty
  <2>1. Behind(tail, planned) < Count
    BY <1>5 DEF TypeOK
  <2> HIDE DEF current
  <2>2. \E k \in 0 .. Last(planned, next_head) : planned' = SlotBehind(planned, k)
    <3>1. 0 \in 0 .. Last(planned, next_head) /\ SlotBehind(planned, 0) = planned
      BY <1>1, LastTyped, RingFacts
    <3> QED
      BY <1>1, <1>3, <1>4, <3>1, PlannedFacts
  <2>3. PICK k \in 0 .. Last(planned, next_head) : planned' = SlotBehind(planned, k)
    BY <2>2
  <2>4. /\ Count \in 0 .. BlockBufferSize - 1 /\ Behind(tail, planned) \in Nat
        /\ Last(planned, next_head) = Count - Behind(tail, planned)
    BY <1>1, <2>1, BehindFacts, GrowsFacts DEF Count
  <2>5. Behind(tail, planned') = Behind(tail, planned) + k
    BY <1>1, <2>3, <2>4, QueueFacts, SizeAssumption
  <2> QED
    BY <1>2, <2>3, <2>4, <2>5
<1>6. CASE Empty
  <2>1. pl_block = NULL /\ tail = head
    BY <1>6 DEF RingOK, Empty
  <2>2. current = buffer
    BY <2>1 DEF ParametersUpdated
  <2> HIDE DEF current
  <2>3. SlotBehind(planned, Last(planned, next_head)) = head
    BY <1>1, <1>2, BehindFacts
  <2>4. buffer[head].max = 0
    BY <1>6, BufferedTyped
  <2>5. planned' = head
    <3>1. CASE Last(planned, next_head) = 0
      BY <1>1, <1>2, <1>4, <3>1, BehindFacts
    <3>2. CASE Last(planned, next_head) # 0
      BY <1>1, <1>3, <1>4, <2>2, <2>3, <2>4, <3>2, LastSettled
    <3> QED
      BY <3>1, <3>2
  <2>6. Behind(tail, planned') = 0 /\ Count \in Nat
    BY <1>1, <2>1, <2>5, BehindFacts DEF Count
  <2> QED
    BY <1>2, <2>6
<1> QED
  BY <1>2, <1>5, <1>6

LEMMA TypedAgain ==
  ASSUME /\ block_buffer' \in Buffers
         /\ tail' \in Slot /\ head' \in Slot /\ next_head' \in Slot /\ planned' \in Slot
         /\ prev_nominal' \in Nat /\ override' \in Overrides /\ lines' \in 0 .. MaxLines
         /\ pl_block' \in {tail', NULL}
         /\ prep' \in Preps /\ profile' \in Profiles
         /\ step_control' \subseteq {"EXECUTE_HOLD", "END_MOTION"}
         /\ mode' \in {"idle", "cycle", "hold", "cancel", "held"}
         /\ head' # tail' => Behind(tail', planned') < Behind(tail', head')
  PROVE  TypeOK'
BY DEF TypeOK, Empty, Count, Buffers, Blocks, Preps, Profiles

LEMMA InitTyped == Init => PlannerTyped
<1> SUFFICES ASSUME Init PROVE PlannerTyped
  OBVIOUS
<1>1. [i \in Slot |-> NoBlock] \in Buffers
  BY NothingTyped DEF Buffers
<1>2. TypeOK
  BY <1>1, NothingTyped, RatesAssumption, SizeAssumption
     DEF Init, TypeOK, Empty, Buffers, Blocks, Preps, Profiles
<1>3. ~NotPrepared.recalc
  BY DEF NotPrepared
<1>4. RingOK
  BY <1>3, NothingTyped DEF Init, RingOK
<1>5. ProfileFormed
  BY DEF Init, ProfileFormed
<1> QED
  BY <1>2, <1>4, <1>5 DEF PlannerTyped

LEMMA BufferLineTyped ==
  ASSUME PlannerTyped, NEW shape \in Shapes, BufferLine(shape)
  PROVE  PlannerTyped'
<1>1. TypeOK /\ RingOK /\ ProfileFormed
  BY DEF PlannerTyped
<1>2. /\ block_buffer \in Buffers /\ prep \in Preps /\ profile \in Profiles
      /\ tail \in Slot /\ head \in Slot /\ next_head \in Slot /\ planned \in Slot
      /\ Count \in 0 .. BlockBufferSize - 1
  BY <1>1, Typed
<1>3. Buffered(shape) \in Buffers /\ \A i \in Slot \ {head} : Buffered(shape)[i] = block_buffer[i]
  BY <1>1, BufferedTyped
<1>4. planner_recalculate(Buffered(shape), planned, next_head)
  BY BufferLineIs
<1>5. /\ block_buffer' \in Buffers /\ planned' \in Slot
      /\ \A i \in Slot : Same(block_buffer'[i], Buffered(shape)[i])
      /\ UNCHANGED prepVars \/ st_update_plan_block_parameters
  BY <1>1, <1>2, <1>3, <1>4, RecalculateTyped
<1>6. /\ pl_block' \in {NULL, pl_block} /\ prep' \in Preps /\ profile' \in Profiles
      /\ prep'.recalc => pl_block' = NULL \/ prep.recalc
  BY <1>1, <1>2, <1>5, UpdateTyped DEF prepVars
<1>7. Count' = Count + 1 /\ Behind(tail, planned') <= Count
  BY <1>1, BufferLinePlanned
<1>8. TypeOK'
  <2>1. NominalSqr[shape.rate][override] \in Nat /\ lines' \in 0 .. MaxLines /\ next_head' \in Slot
    <3>1. shape.rate \in Rates
      BY ShapesAssumption
    <3>2. NominalSqr[shape.rate][override] \in Nat
      BY <1>1, <3>1, RatesAssumption DEF TypeOK
    <3> QED
      <4>1. lines' \in 0 .. MaxLines
        BY <1>1, BufferLineIs, SizeAssumption DEF TypeOK
      <4> QED
        BY <1>2, <3>2, <4>1, BufferLineIs, RingFacts
  <2>2. Behind(tail', planned') < Behind(tail', head')
    <3>1. Behind(tail, planned') \in Nat
      BY <1>2, <1>5, BehindFacts
    <3> QED
      BY <1>2, <1>7, <3>1, BufferLineIs DEF Count
  <2> QED
    BY <1>1, <1>2, <1>5, <1>6, <2>1, <2>2, BufferLineIs, TypedAgain DEF TypeOK
<1>9. RingOK'
  <2>1. head' # tail'
    BY BufferLineIs
  <2>2. next_head' = plan_next_block_index(head')
    BY BufferLineIs
  <2>3. prep'.recalc => pl_block' = NULL
    BY <1>1, <1>6 DEF RingOK
  <2> QED
    BY <2>1, <2>2, <2>3 DEF RingOK, Empty
<1>10. ProfileFormed'
  <2> SUFFICES ASSUME pl_block' # NULL
               PROVE  Formed(profile', prep'.current, block_buffer'[tail'].dist)
    BY DEF ProfileFormed
  <2>1. UNCHANGED prepVars
    BY <1>1, <1>5, UpdateTyped
  <2>2. tail' = tail /\ tail # head
    BY <1>1, <2>1, BufferLineIs DEF RingOK, prepVars, Empty
  <2>3. block_buffer'[tail].dist = block_buffer[tail].dist
    BY <1>2, <1>3, <1>5, <2>2 DEF Same
  <2> QED
    BY <1>1, <2>1, <2>2, <2>3 DEF ProfileFormed, prepVars
<1> QED
  BY <1>8, <1>9, <1>10 DEF PlannerTyped

LEMMA MaxEntryTyped ==
  ASSUME TypeOK, NEW o \in Overrides
  PROVE  /\ MaxEntry(o) \in Buffers
         /\ \A i \in Slot :
              LET b == MaxEntry(o)[i]
              IN /\ b.dist = block_buffer[i].dist /\ b.junction = block_buffer[i].junction
                 /\ b.rate = block_buffer[i].rate /\ b.entry = block_buffer[i].entry
<1>1. block_buffer \in Buffers
  BY Typed
<1>2. ASSUME NEW i \in Slot
      PROVE  LET b == MaxEntry(o)[i]
             IN /\ b \in Blocks
                /\ b.dist = block_buffer[i].dist /\ b.junction = block_buffer[i].junction
                /\ b.rate = block_buffer[i].rate /\ b.entry = block_buffer[i].entry
  <2>1. plan_prev_block_index(i) \in Slot
    BY RingFacts
  <2>2. PICK n \in Nat : n = NominalSqr[block_buffer[i].rate][o]
    BY <1>1, RatesAssumption DEF Buffers, Blocks
  <2>3. PICK before \in Nat : before = NominalSqr[block_buffer[plan_prev_block_index(i)].rate][o]
    BY <1>1, <2>1, RatesAssumption DEF Buffers, Blocks
  <2>4. PICK top \in Nat : top = IF i = tail \/ n < before THEN n ELSE before
    OBVIOUS
  <2>5. block_buffer[i] \in Blocks
    BY <1>1 DEF Buffers
  <2>6. PICK m \in Nat : m = Smaller(block_buffer[i].junction, top)
    BY <2>5, SmallerFacts DEF Blocks
  <2>7. MaxEntry(o)[i] \in {[block_buffer[i] EXCEPT !.max = m], block_buffer[i]}
    BY <2>2, <2>3, <2>4, <2>6 DEF MaxEntry
  <2> QED
    BY <2>5, <2>7 DEF Blocks
<1>3. MaxEntry(o) = [i \in Slot |-> MaxEntry(o)[i]]
  BY DEF MaxEntry
<1> QED
  BY <1>2, <1>3 DEF Buffers

(* A plan that starts anew: after a hold, or with new overrides.           *)
LEMMA ReinitializedTyped ==
  ASSUME PlannerTyped, NEW buffer \in Buffers, plan_cycle_reinitialize(buffer),
         \A i \in Slot : buffer[i].dist = block_buffer[i].dist,
         UNCHANGED <<tail, head, next_head, lines>>,
         override' \in Overrides, prev_nominal' \in Nat,
         step_control' \subseteq {"EXECUTE_HOLD", "END_MOTION"},
         mode' \in {"idle", "cycle", "hold", "cancel", "held"}
  PROVE  PlannerTyped'
<1>1. TypeOK /\ RingOK
  BY DEF PlannerTyped
<1>2. st_update_plan_block_parameters
  BY DEF plan_cycle_reinitialize
<1>3. /\ pl_block' = NULL /\ prep' \in Preps /\ profile' \in Profiles
      /\ prep'.recalc => prep.recalc \/ pl_block # NULL
  BY <1>1, <1>2, UpdateTyped
<1>4. /\ block_buffer' \in Buffers /\ planned' \in Slot
      /\ ~Empty => Behind(tail, planned') < Count
  BY <1>1, ReinitializeTyped
<1>5. TypeOK'
  BY <1>1, <1>3, <1>4, TypedAgain DEF TypeOK, Empty, Count
<1>6. RingOK'
  BY <1>1, <1>3 DEF RingOK, Empty
<1>7. ProfileFormed'
  BY <1>3 DEF ProfileFormed
<1> QED
  BY <1>5, <1>6, <1>7 DEF PlannerTyped

LEMMA OverrideTyped ==
  ASSUME PlannerTyped, NEW o \in Overrides, Override(o)
  PROVE  PlannerTyped'
<1>1. TypeOK
  BY DEF PlannerTyped
<1>2. MaxEntry(o) \in Buffers /\ \A i \in Slot : MaxEntry(o)[i].dist = block_buffer[i].dist
  BY <1>1, MaxEntryTyped
<1>3. prev_nominal' \in Nat
  <2>1. plan_prev_block_index(head) \in Slot
    BY <1>1, Typed, RingFacts
  <2>2. NominalSqr[block_buffer[plan_prev_block_index(head)].rate][o] \in Nat
    BY <1>1, <2>1, Typed, RatesAssumption DEF Buffers, Blocks
  <2> QED
    BY <2>2 DEF Override, SOME_LARGE_VALUE
<1> QED
  BY <1>1, <1>2, <1>3, ReinitializedTyped DEF Override, TypeOK

LEMMA HoldDoneTyped ==
  ASSUME PlannerTyped, HoldDone
  PROVE  PlannerTyped'
<1>1. TypeOK
  BY DEF PlannerTyped
<1>2. block_buffer \in Buffers
  BY <1>1, Typed
<1> QED
  BY <1>1, <1>2, ReinitializedTyped DEF HoldDone, TypeOK

LEMMA HoldBeginTyped ==
  ASSUME PlannerTyped, HoldBegin
  PROVE  PlannerTyped'
<1>1. TypeOK /\ RingOK
  BY DEF PlannerTyped
<1>2. block_buffer' \in Buffers
  BY <1>1, Typed, UpdatedFacts DEF HoldBegin
<1>3. /\ pl_block' = NULL /\ prep' \in Preps /\ profile' \in Profiles
      /\ prep'.recalc => prep.recalc \/ pl_block # NULL
  BY <1>1, UpdateTyped DEF HoldBegin
<1>4. TypeOK'
  BY <1>1, <1>2, <1>3, TypedAgain DEF HoldBegin, TypeOK, Empty, Count
<1>5. RingOK'
  BY <1>1, <1>3 DEF HoldBegin, RingOK, Empty
<1>6. ProfileFormed'
  BY <1>3 DEF ProfileFormed
<1> QED
  BY <1>4, <1>5, <1>6 DEF PlannerTyped

LEMMA ResetTyped ==
  ASSUME PlannerTyped, ResetBuffers, override' \in Overrides,
         step_control' \subseteq {"EXECUTE_HOLD", "END_MOTION"}, mode' = "idle"
  PROVE  PlannerTyped'
<1>1. TypeOK
  BY DEF PlannerTyped
<1>2. TypeOK'
  BY <1>1, NothingTyped, TypedAgain DEF ResetBuffers, TypeOK, Buffers, Blocks
<1>3. ~NotPrepared.recalc
  BY DEF NotPrepared
<1>4. RingOK'
  BY <1>3, NothingTyped DEF ResetBuffers, RingOK
<1>5. ProfileFormed'
  BY DEF ResetBuffers, ProfileFormed
<1> QED
  BY <1>2, <1>4, <1>5 DEF PlannerTyped

(* Steps that leave planner and generator alone.                           *)
LEMMA OthersTyped ==
  ASSUME PlannerTyped, UNCHANGED <<ringVars, prepVars, override, lines>>,
         step_control' \subseteq {"EXECUTE_HOLD", "END_MOTION"},
         mode' \in {"idle", "cycle", "hold", "cancel", "held"}
  PROVE  PlannerTyped'
<1>1. TypeOK /\ RingOK /\ ProfileFormed
  BY DEF PlannerTyped
<1>2. TypeOK'
  BY <1>1 DEF TypeOK, ringVars, prepVars, Empty, Count
<1>3. RingOK' /\ ProfileFormed'
  BY <1>1 DEF RingOK, ProfileFormed, ringVars, prepVars, Empty
<1> QED
  BY <1>2, <1>3 DEF PlannerTyped

LEMMA PrepSegmentIs ==
  ASSUME NEW r, PrepSegment(r)
  PROVE  LET p == Profile
             d == block_buffer[tail].dist
             v == SegmentSpeed
         IN /\ Prepping
            /\ r \in p.complete .. d /\ (r < d \/ r = p.complete)
            /\ r = p.complete \/ p.ramp # "DECEL" \/ v > d - r
            /\ prep' = [recalc |-> FALSE, decel |-> p.decel, exit |-> p.exit,
                        current |-> SpeedAt(p, v, d, r)]
            /\ block_buffer' =
                 [block_buffer EXCEPT ![tail].dist = r,
                    ![tail].entry = IF pl_block = NULL THEN v ELSE @]
            /\ r = 0 => /\ pl_block' = NULL /\ profile' = NoProfile
                        /\ plan_discard_current_block /\ UNCHANGED step_control
            /\ r # 0 => /\ pl_block' = tail /\ profile' = p /\ UNCHANGED <<tail, planned>>
                        /\ step_control' = IF r = p.complete
                                    THEN step_control \cup {"END_MOTION"} ELSE step_control
            /\ UNCHANGED <<head, next_head, prev_nominal, override, mode, lines>>
BY DEF PrepSegment, SegmentSpeed

(* The block that a segment is cut from; the others stay as they are.      *)
LEMMA CutFacts ==
  ASSUME PlannerTyped, NEW r, PrepSegment(r)
  PROVE  /\ r \in Nat /\ block_buffer' \in Buffers
         /\ block_buffer'[tail].dist = r
         /\ block_buffer'[tail].entry = IF pl_block = NULL THEN SegmentSpeed ELSE block_buffer[tail].entry
         /\ /\ block_buffer'[tail].rate = block_buffer[tail].rate
            /\ block_buffer'[tail].junction = block_buffer[tail].junction
            /\ block_buffer'[tail].max = block_buffer[tail].max
         /\ \A i \in Slot \ {tail} : block_buffer'[i] = block_buffer[i]
<1>1. block_buffer \in Buffers /\ tail \in Slot /\ block_buffer[tail] \in Blocks /\ Profile \in Profiles
      /\ SegmentSpeed \in Nat
  BY Typed, ProfileTyped DEF PlannerTyped
<1>2. r \in Nat
  <2>1. Profile.complete \in Nat
    BY <1>1 DEF Profiles
  <2>2. r \in Profile.complete .. block_buffer[tail].dist
    BY PrepSegmentIs
  <2> QED
    BY <2>1, <2>2
<1>3. PICK e \in Nat : e = IF pl_block = NULL THEN SegmentSpeed ELSE block_buffer[tail].entry
  BY <1>1 DEF Blocks
<1>4. block_buffer' = [block_buffer EXCEPT ![tail] = [block_buffer[tail] EXCEPT !.dist = r, !.entry = e]]
  BY <1>1, <1>3, PrepSegmentIs DEF Buffers, Blocks
<1>5. [block_buffer[tail] EXCEPT !.dist = r, !.entry = e] \in Blocks
  BY <1>1, <1>2, <1>3 DEF Blocks
<1>6. block_buffer'[tail] = [block_buffer[tail] EXCEPT !.dist = r, !.entry = e]
  BY <1>1, <1>4 DEF Buffers
<1>7. block_buffer' \in Buffers /\ \A i \in Slot \ {tail} : block_buffer'[i] = block_buffer[i]
  BY <1>1, <1>4, <1>5 DEF Buffers
<1>8. /\ block_buffer'[tail].dist = r /\ block_buffer'[tail].entry = e
      /\ block_buffer'[tail].rate = block_buffer[tail].rate
      /\ block_buffer'[tail].junction = block_buffer[tail].junction
      /\ block_buffer'[tail].max = block_buffer[tail].max
  BY <1>1, <1>6 DEF Blocks
<1> QED
  BY <1>2, <1>3, <1>7, <1>8

(* The ring when its first block is done.                                  *)
LEMMA DiscardFacts ==
  ASSUME TypeOK, ~Empty, plan_discard_current_block, head' = head
  PROVE  /\ tail' \in Slot /\ planned' \in Slot
         /\ Count' = Count - 1
         /\ Behind(tail, planned) = 0 => Behind(tail', planned') = 0
         /\ Behind(tail, planned) # 0 =>
              planned' = planned /\ Behind(tail', planned') = Behind(tail, planned) - 1
<1>1. tail \in Slot /\ head \in Slot /\ planned \in Slot /\ head # tail
  BY DEF TypeOK, Empty
<1>2. /\ tail' = plan_next_block_index(tail)
      /\ planned' = IF tail = planned THEN tail' ELSE planned
  BY DEF plan_discard_current_block
<1>3. tail' \in Slot /\ planned' \in Slot
  BY <1>1, <1>2, RingFacts
<1>4. Count' = Count - 1
  BY <1>1, <1>2, RingFacts DEF Count
<1>5. CASE tail = planned
  <2>1. Behind(tail, planned) = 0 /\ planned' = tail' /\ Behind(tail', planned') = 0
    BY <1>1, <1>2, <1>3, <1>5, BehindFacts
  <2> QED
    BY <1>3, <1>4, <2>1
<1>6. CASE tail # planned
  <2>1. Behind(tail, planned) # 0
    BY <1>1, <1>6, BehindFacts
  <2>2. planned' = planned
    BY <1>2, <1>6
  <2>3. Behind(tail', planned) = Behind(tail, planned) - 1
    BY <1>1, <1>2, <1>6, RingFacts
  <2> QED
    BY <1>3, <1>4, <2>1, <2>2, <2>3
<1> QED
  BY <1>5, <1>6

LEMMA SegmentFormed ==
  ASSUME PlannerTyped, NEW r, PrepSegment(r)
  PROVE  /\ prep' \in Preps /\ prep'.current \in Nat /\ Profile \in Profiles
         /\ prep'.exit = Profile.exit /\ (prep'.decel <=> Profile.decel) /\ ~prep'.recalc
         /\ prep'.current = SpeedAt(Profile, SegmentSpeed, block_buffer[tail].dist, r)
         /\ Formed(Profile, SegmentSpeed, block_buffer[tail].dist)
         /\ Formed(Profile, prep'.current, r)
<1>1. PICK p \in Profiles, v \in Nat, d \in Nat :
        p = Profile /\ v = SegmentSpeed /\ d = block_buffer[tail].dist /\ Formed(p, v, d)
  BY ProfileTyped
<1>2. /\ r \in p.complete .. d
      /\ prep' = [recalc |-> FALSE, decel |-> p.decel, exit |-> p.exit,
                  current |-> SpeedAt(p, v, d, r)]
  BY <1>1, PrepSegmentIs
<1>3. SpeedAt(p, v, d, r) \in Nat /\ Formed(p, SpeedAt(p, v, d, r), r)
  BY <1>1, <1>2, SpeedAtTyped DEF Formed
<1>4. p.decel \in BOOLEAN /\ p.exit \in Nat
  BY DEF Profiles
<1>5. prep' \in Preps
  BY <1>2, <1>3, <1>4 DEF Preps
<1>6. /\ prep'.exit = p.exit /\ (prep'.decel <=> p.decel) /\ ~prep'.recalc
      /\ prep'.current = SpeedAt(p, v, d, r)
  BY <1>2
<1> QED
  BY <1>1, <1>3, <1>5, <1>6

LEMMA PrepSegmentTyped ==
  ASSUME PlannerTyped, NEW r, PrepSegment(r)
  PROVE  PlannerTyped'
<1>1. TypeOK /\ RingOK /\ ProfileFormed /\ ~Empty
  BY PrepSegmentIs DEF PlannerTyped, Prepping
<1>2. /\ prep' \in Preps /\ ~prep'.recalc /\ Profile \in Profiles
      /\ Formed(Profile, prep'.current, r)
  BY SegmentFormed
<1>3. r \in Nat /\ block_buffer' \in Buffers /\ block_buffer'[tail].dist = r
  BY CutFacts
<1>4. /\ UNCHANGED <<head, next_head, prev_nominal, override, mode, lines>>
      /\ head \in Slot /\ next_head \in Slot /\ tail \in Slot /\ planned \in Slot
  BY <1>1, PrepSegmentIs DEF TypeOK
<1>5. CASE r = 0
  <2>1. pl_block' = NULL /\ profile' = NoProfile /\ plan_discard_current_block /\ UNCHANGED step_control
    BY <1>5, PrepSegmentIs
  <2>2. /\ tail' \in Slot /\ planned' \in Slot /\ Count' = Count - 1
        /\ Behind(tail, planned) = 0 => Behind(tail', planned') = 0
        /\ Behind(tail, planned) # 0 => Behind(tail', planned') = Behind(tail, planned) - 1
    BY <1>1, <1>4, <2>1, DiscardFacts
  <2>3. head' # tail' => Behind(tail', planned') < Behind(tail', head')
    <3> SUFFICES ASSUME head' # tail' PROVE Behind(tail', planned') < Behind(tail', head')
      OBVIOUS
    <3>1. Behind(tail', head') # 0 /\ Behind(tail', head') \in Nat
      BY <1>4, <2>2, BehindFacts
    <3>2. Behind(tail', head') = Count - 1 /\ Behind(tail, planned) < Count
      BY <1>1, <2>2 DEF Count, TypeOK
    <3>3. Behind(tail, planned) \in Nat /\ Count \in Nat
      BY <1>1, <1>4, BehindFacts, Typed
    <3> QED
      BY <2>2, <3>1, <3>2, <3>3
  <2>4. TypeOK'
    BY <1>1, <1>2, <1>3, <1>4, <2>1, <2>2, <2>3, NothingTyped, TypedAgain DEF TypeOK
  <2>5. RingOK'
    BY <1>1, <1>2, <1>4, <2>1 DEF RingOK
  <2>6. ProfileFormed'
    BY <2>1 DEF ProfileFormed
  <2> QED
    BY <2>4, <2>5, <2>6 DEF PlannerTyped
<1>6. CASE r # 0
  <2>1. /\ pl_block' = tail /\ profile' = Profile /\ UNCHANGED <<tail, planned>>
        /\ step_control' \subseteq {"EXECUTE_HOLD", "END_MOTION"}
    <3>1. /\ pl_block' = tail /\ profile' = Profile /\ UNCHANGED <<tail, planned>>
          /\ step_control' = IF r = Profile.complete
                               THEN step_control \cup {"END_MOTION"} ELSE step_control
      BY <1>6, PrepSegmentIs
    <3> QED
      BY <1>1, <3>1 DEF TypeOK
  <2>2. TypeOK'
    BY <1>1, <1>2, <1>3, <1>4, <2>1, TypedAgain DEF TypeOK, Empty, Count
  <2>3. RingOK'
    BY <1>1, <1>2, <1>4, <2>1 DEF RingOK, Empty
  <2>4. ProfileFormed'
    BY <1>2, <1>3, <2>1 DEF ProfileFormed
  <2> QED
    BY <2>2, <2>3, <2>4 DEF PlannerTyped
<1> QED
  BY <1>5, <1>6

LEMMA StepTyped == PlannerTyped /\ [Next]_vars => PlannerTyped'
<1> SUFFICES ASSUME PlannerTyped, [Next]_vars PROVE PlannerTyped'
  OBVIOUS
<1>1. ASSUME NEW shape \in Shapes, BufferLine(shape) PROVE PlannerTyped'
  BY <1>1, BufferLineTyped
<1>2. ASSUME NEW o \in Overrides, Override(o) PROVE PlannerTyped'
  BY <1>2, OverrideTyped
<1>3. ASSUME NEW r \in 0 .. block_buffer[tail].dist, PrepSegment(r) PROVE PlannerTyped'
  BY <1>3, PrepSegmentTyped
<1> USE DEF PlannerTyped, TypeOK
<1>4. CASE CycleStart
  BY <1>4, OthersTyped DEF CycleStart
<1>5. CASE JogStart
  BY <1>5, OthersTyped DEF JogStart
<1>6. CASE HoldBegin
  BY <1>6, HoldBeginTyped
<1>7. CASE CycleDone
  BY <1>7, OthersTyped DEF CycleDone
<1>8. CASE HoldDone
  BY <1>8, HoldDoneTyped
<1>9. CASE CancelDone
  BY <1>9, ResetTyped DEF CancelDone
<1>10. CASE Abort
  BY <1>10, RatesAssumption, ResetTyped DEF Abort
<1>11. CASE UNCHANGED vars
  BY <1>11, OthersTyped DEF vars
<1> QED
  BY <1>1, <1>2, <1>3, <1>4, <1>5, <1>6, <1>7, <1>8, <1>9, <1>10, <1>11 DEF Next

(* TypeOK of Planner: the indices stay in the ring, the squared speeds are *)
(* never negative and the planned pointer is on a queued block, wherever   *)
(* the generator discards, the main program adds and overrides replan.     *)
THEOREM PlannerTypeCorrect == Spec => []TypeOK
<1>1. PlannerTyped => TypeOK
  BY DEF PlannerTyped
<1> QED
  BY InitTyped, StepTyped, <1>1, PTL DEF Spec

-----------------------------------------------------------------------------
(* What a recalculation comes to.  A floor is a plan that can be driven    *)
(* behind the planned pointer: positions 1 .. Last(p, h), and a stop after *)
(* them.  Where it is not below its maximum, the shortcut of the reverse   *)
(* pass finds a block that it may take to be unchanged.                    *)
Floor(g, buffer, p, last) ==
  /\ g \in [1 .. last + 1 -> Nat] /\ g[last + 1] = 0
  /\ \A k \in 1 .. last :
       LET b == buffer[SlotBehind(p, k)]
       IN /\ g[k] <= b.max /\ g[k] <= g[k + 1] + b.dist
          /\ b.entry = b.max => g[k] = b.max

LEMMA PositionTyped ==
  ASSUME NEW buffer \in Buffers, NEW p \in Slot, NEW h \in Slot, NEW k \in 0 .. Last(p, h)
  PROVE  /\ SlotBehind(p, k) \in Slot /\ buffer[SlotBehind(p, k)] \in Blocks
         /\ buffer[SlotBehind(p, k)].max \in Nat /\ buffer[SlotBehind(p, k)].dist \in Nat
         /\ buffer[SlotBehind(p, k)].entry \in Nat
<1>1. k \in 0 .. BlockBufferSize - 1
  BY LastTyped, SizeAssumption
<1>2. SlotBehind(p, k) \in Slot
  BY <1>1, SlotFacts
<1> QED
  BY <1>2 DEF Buffers, Blocks

(* The reverse pass stays above a floor, and with that it is as if there   *)
(* were no shortcut.                                                       *)
LEMMA ReverseFloor ==
  ASSUME NEW buffer \in Buffers, NEW p \in Slot, NEW h \in Slot,
         NEW g, Floor(g, buffer, p, Last(p, h))
  PROVE  \A k \in 1 .. Last(p, h) :
           LET b == buffer[SlotBehind(p, k)]
               reverse == ReversePass(buffer, p, h)
           IN /\ reverse[k] \in Nat /\ reverse[k] >= g[k]
              /\ reverse[k] = Smaller(b.max, (IF k = Last(p, h) THEN 0 ELSE reverse[k + 1]) + b.dist)
<1>1. PICK last \in Nat : last = Last(p, h)
  BY LastTyped
<1>2. PICK reverse : reverse = ReversePass(buffer, p, h)
  OBVIOUS
<1>3. reverse \in [1 .. last -> Nat]
  BY <1>1, <1>2, ReversePassFacts
<1> DEFINE B(k) == buffer[SlotBehind(p, k)]
<1>4. \A k \in 1 .. last : B(k).max \in Nat /\ B(k).dist \in Nat /\ B(k).entry \in Nat
  BY <1>1, PositionTyped
<1>5. ASSUME NEW k \in 1 .. last
      PROVE  reverse[k] = IF k = last THEN Smaller(B(k).max, B(k).dist)
                          ELSE IF B(k).entry = B(k).max THEN B(k).max
                          ELSE Smaller(B(k).max, reverse[k + 1] + B(k).dist)
  BY <1>1, <1>2, ReversePassFacts
<1>6. /\ g \in [1 .. last + 1 -> Nat] /\ g[last + 1] = 0
      /\ \A k \in 1 .. last : /\ g[k] <= B(k).max /\ g[k] <= g[k + 1] + B(k).dist
                              /\ B(k).entry = B(k).max => g[k] = B(k).max
  BY <1>1 DEF Floor
<1> HIDE DEF B
<1>7. ASSUME NEW k \in 1 .. last, k # last => reverse[k + 1] >= g[k + 1]
      PROVE  /\ reverse[k] >= g[k]
             /\ reverse[k] = Smaller(B(k).max, (IF k = last THEN 0 ELSE reverse[k + 1]) + B(k).dist)
  <2>1. PICK m \in Nat, d \in Nat, e \in Nat : m = B(k).max /\ d = B(k).dist /\ e = B(k).entry
    BY <1>4
  <2>2. PICK y \in Nat : y = g[k]
    BY <1>6
  <2>3. y <= m /\ (e = m => y = m)
    BY <1>6, <2>1, <2>2
  <2>4. CASE k = last
    <3>1. reverse[k] = Smaller(m, d) /\ y <= 0 + d
      BY <1>5, <1>6, <2>1, <2>2, <2>4
    <3>2. 0 + d = d
      OBVIOUS
    <3> QED
      BY <2>1, <2>2, <2>3, <2>4, <3>1, <3>2 DEF Smaller
  <2>5. CASE k # last
    <3>1. k + 1 \in 1 .. last + 1 /\ k + 1 \in 1 .. last
      BY <1>1, <2>5
    <3>2. PICK y1 \in Nat, r1 \in Nat : y1 = g[k + 1] /\ r1 = reverse[k + 1] /\ r1 >= y1
      BY <1>3, <1>6, <1>7, <2>5, <3>1
    <3>3. y <= y1 + d
      BY <1>6, <2>1, <2>2, <3>2
    <3>4. reverse[k] = IF e = m THEN m ELSE Smaller(m, r1 + d)
      BY <1>5, <2>1, <2>5, <3>2
    <3>5. reverse[k] = Smaller(m, r1 + d) /\ reverse[k] >= y
      BY <2>3, <3>2, <3>3, <3>4 DEF Smaller
    <3> QED
      BY <2>1, <2>2, <2>5, <3>2, <3>5
  <2> QED
    BY <2>4, <2>5
<1> DEFINE T == {i \in Nat : i < last => reverse[last - i] >= g[last - i]}
<1>8. 0 \in T
  <2>1. last > 0 => last - 0 = last /\ last \in 1 .. last
    BY <1>1
  <2> QED
    BY <1>7, <2>1
<1>9. ASSUME NEW i \in Nat, i \in T PROVE i + 1 \in T
  <2> SUFFICES ASSUME i + 1 < last PROVE reverse[last - (i + 1)] >= g[last - (i + 1)]
    OBVIOUS
  <2>1. PICK k \in 1 .. last : k = last - (i + 1) /\ k + 1 = last - i
    BY <1>1
  <2>2. reverse[k + 1] >= g[k + 1]
    BY <1>9, <2>1
  <2> QED
    BY <1>7, <2>1, <2>2
<1>10. Nat \subseteq T
  <2> HIDE DEF T
  <2> QED
    BY <1>8, <1>9, Induction
<1>11. ASSUME NEW k \in 1 .. last PROVE reverse[k] >= g[k]
  <2>1. last - k \in Nat /\ last - k < last /\ last - (last - k) = k
    BY <1>1
  <2> QED
    BY <1>10, <2>1
<1>12. ASSUME NEW k \in 1 .. last
       PROVE  /\ reverse[k] \in Nat /\ reverse[k] >= g[k]
              /\ reverse[k] = Smaller(B(k).max, (IF k = last THEN 0 ELSE reverse[k + 1]) + B(k).dist)
  <2>1. k # last => k + 1 \in 1 .. last
    BY <1>1
  <2> QED
    BY <1>3, <1>7, <1>11, <2>1
<1> QED
  BY <1>1, <1>2, <1>12 DEF B

(* The speeds of the forward pass: no block is entered faster than it may  *)
(* be, nor faster than the blocks on both sides allow, and each as fast as *)
(* that.                                                                   *)
LEMMA ForwardFacts ==
  ASSUME NEW buffer \in Buffers, NEW p \in Slot, NEW h \in Slot,
         NEW g, Floor(g, buffer, p, Last(p, h)),
         NEW k \in 1 .. Last(p, h)
  PROVE  LET b == buffer[SlotBehind(p, k)]
             forward == ForwardPass(buffer, p, h)
             after == IF k = Last(p, h) THEN 0 ELSE forward[k + 1]
             before == forward[k - 1] + buffer[SlotBehind(p, k - 1)].dist
         IN /\ forward[k] <= b.max /\ forward[k] <= after + b.dist /\ forward[k] <= before
            /\ forward[k] \in {b.max, after + b.dist, before}
            /\ forward[k] = before \/ forward[k] >= g[k]
            /\ Settled(buffer, p, h, k) => forward[k] \in {b.max, before}
<1>1. PICK last \in Nat : last = Last(p, h)
  BY LastTyped
<1>2. PICK forward, reverse : forward = ForwardPass(buffer, p, h) /\ reverse = ReversePass(buffer, p, h)
  OBVIOUS
<1>3. forward \in [0 .. last -> Nat]
      /\ \A i \in 1 .. last :
           forward[i] = Smaller(reverse[i], forward[i - 1] + buffer[SlotBehind(p, i - 1)].dist)
  BY <1>1, <1>2, ForwardPassFacts
<1>4. k \in 1 .. last /\ k \in 0 .. last /\ k - 1 \in 0 .. last /\ (k + 1) - 1 = k
      /\ (k # last => k + 1 \in 1 .. last /\ k + 1 \in 0 .. last)
  BY <1>1
<1>5. PICK m \in Nat, d \in Nat, d0 \in Nat :
        /\ m = buffer[SlotBehind(p, k)].max /\ d = buffer[SlotBehind(p, k)].dist
        /\ d0 = buffer[SlotBehind(p, k - 1)].dist
  BY <1>1, <1>4, PositionTyped
<1>6. PICK f \in Nat, f0 \in Nat : f = forward[k] /\ f0 = forward[k - 1]
  BY <1>3, <1>4
<1>7. PICK r, y : r \in Nat /\ r = reverse[k] /\ y = g[k] /\ r >= y
  BY <1>1, <1>2, <1>4, ReverseFloor
<1>8. y \in Nat
  BY <1>1, <1>4, <1>7 DEF Floor
<1>9. f = Smaller(r, f0 + d0)
  BY <1>3, <1>4, <1>5, <1>6, <1>7
<1>10. Settled(buffer, p, h, k) => f < r \/ f = m
  BY <1>2, <1>5, <1>6, <1>7 DEF Settled
<1>11. CASE k = last
  <2>1. r = Smaller(m, 0 + d)
    BY <1>1, <1>2, <1>4, <1>5, <1>7, <1>11, ReverseFloor
  <2>2. /\ f <= m /\ f <= 0 + d /\ f <= f0 + d0
        /\ f \in {m, 0 + d, f0 + d0}
        /\ f = f0 + d0 \/ f >= y
        /\ Settled(buffer, p, h, k) => f \in {m, f0 + d0}
    BY <1>7, <1>8, <1>9, <1>10, <2>1 DEF Smaller
  <2> QED
    BY <1>1, <1>2, <1>5, <1>6, <1>7, <1>11, <2>2
<1>12. CASE k # last
  <2>1. PICK r1 \in Nat : r1 = reverse[k + 1] /\ r = Smaller(m, r1 + d)
    BY <1>1, <1>2, <1>4, <1>5, <1>7, <1>12, ReverseFloor
  <2>2. PICK f1 \in Nat : f1 = forward[k + 1] /\ f1 = Smaller(r1, f + d)
    BY <1>3, <1>4, <1>5, <1>6, <1>12, <2>1
  <2>3. /\ f <= m /\ f <= f1 + d /\ f <= f0 + d0
        /\ f \in {m, f1 + d, f0 + d0}
        /\ f = f0 + d0 \/ f >= y
        /\ Settled(buffer, p, h, k) => f \in {m, f0 + d0}
    BY <1>7, <1>8, <1>9, <1>10, <2>1, <2>2 DEF Smaller
  <2> QED
    BY <1>1, <1>2, <1>5, <1>6, <1>7, <1>12, <2>2, <2>3
<1> QED
  BY <1>11, <1>12

-----------------------------------------------------------------------------
(* The same along the queue: block j of the n queued ones is j behind the  *)
(* tail t, and the planned pointer is on block q.                          *)
At(buffer, t, j) == buffer[SlotBehind(t, j)]
EndAt(buffer, t, n, j) == IF j = n THEN 0 ELSE At(buffer, t, j).entry
(* The speeds from which, and to which, block j can be driven.             *)
Ahead(buffer, t, n, j) == EndAt(buffer, t, n, j + 1) + At(buffer, t, j).dist
From(buffer, t, j) == At(buffer, t, j - 1).entry + At(buffer, t, j - 1).dist

Driven(buffer, t, n, j) ==
  LET entry == At(buffer, t, j).entry
  IN /\ entry <= At(buffer, t, j).max /\ entry <= Ahead(buffer, t, n, j)
     /\ entry <= From(buffer, t, j)
     /\ entry \in {At(buffer, t, j).max, Ahead(buffer, t, n, j), From(buffer, t, j)}
Firm(buffer, t, j) == At(buffer, t, j).entry \in {At(buffer, t, j).max, From(buffer, t, j)}

FloorAt(g, buffer, t, q, n) ==
  /\ g \in [q + 1 .. n -> Nat] /\ g[n] = 0
  /\ \A j \in q + 1 .. n - 1 :
       LET b == At(buffer, t, j)
       IN /\ g[j] <= b.max /\ g[j] <= g[j + 1] + b.dist
          /\ b.entry = b.max => g[j] = b.max

LEMMA LastInQueue ==
  ASSUME NEW t \in Slot, NEW p \in Slot, NEW h \in Slot, Behind(t, p) < Behind(t, h)
  PROVE  Last(p, h) = (Behind(t, h) - 1) - Behind(t, p)
BY SizeAssumption DEF Slot, Behind, Last, plan_prev_block_index

(* Block q + k is at position k from the planned pointer.                  *)
LEMMA PositionFacts ==
  ASSUME NEW t \in Slot, NEW p \in Slot, NEW h \in Slot, Behind(t, p) < Behind(t, h)
  PROVE  \E q \in Nat, n \in Nat, last \in Nat :
           /\ q = Behind(t, p) /\ n = Behind(t, h) /\ q < n /\ n <= BlockBufferSize - 1
           /\ last = Last(p, h) /\ q + last = n - 1
           /\ \A k \in 0 .. last : SlotBehind(p, k) = SlotBehind(t, q + k)
           /\ \A j \in 0 .. n - 1 : SlotBehind(t, j) \in Slot
           /\ \A j \in 0 .. q : Behind(p, SlotBehind(t, j)) \notin 1 .. last
<1>1. PICK q \in Nat, n \in Nat : q = Behind(t, p) /\ n = Behind(t, h) /\ n <= BlockBufferSize - 1
  BY BehindFacts
<1>2. PICK last \in Nat : last = Last(p, h) /\ q + last = n - 1
  BY <1>1, LastInQueue
<1>3. \A k \in 0 .. last : SlotBehind(p, k) = SlotBehind(t, q + k)
  <2> TAKE k \in 0 .. last
  <2>1. q + k <= BlockBufferSize - 1
    BY <1>1, <1>2, SizeAssumption
  <2> QED
    BY <1>1, <2>1, QueueFacts
<1>4. \A j \in 0 .. n - 1 : SlotBehind(t, j) \in Slot
  <2> TAKE j \in 0 .. n - 1
  <2>1. j \in 0 .. BlockBufferSize - 1
    BY <1>1, SizeAssumption
  <2> QED
    BY <2>1, SlotFacts
<1>5. ASSUME NEW j \in 0 .. q PROVE Behind(p, SlotBehind(t, j)) \notin 1 .. last
  BY <1>1, <1>2, SizeAssumption DEF Slot, Behind, SlotBehind
<1> QED
  BY <1>1, <1>2, <1>3, <1>4, <1>5

(* A recalculation from block q on leaves the blocks up to it as they are, *)
(* plans the others, and moves the pointer to one that stands.             *)
Recalculation(new, buffer, t, q, n, g) ==
  /\ new \in Buffers
  /\ \A j \in 0 .. q : At(new, t, j) = At(buffer, t, j)
  /\ \A j \in 0 .. n - 1 : Same(At(new, t, j), At(buffer, t, j))
  /\ \A j \in q + 1 .. n - 1 :
       /\ Driven(new, t, n, j)
       /\ At(new, t, j).entry = From(new, t, j) \/ At(new, t, j).entry >= g[j]
MovesTo(new, t, q, n, i) ==
  \E k \in q .. n - 1 : i = SlotBehind(t, k) /\ (k # q => Firm(new, t, k))

LEMMA RecalculationFacts ==
  ASSUME NEW buffer \in Buffers, NEW t \in Slot, NEW p \in Slot, NEW h \in Slot,
         Behind(t, p) < Behind(t, h),
         NEW g, FloorAt(g, buffer, t, Behind(t, p), Behind(t, h))
  PROVE  /\ Recalculation(Recalculated(buffer, p, h), buffer, t, Behind(t, p), Behind(t, h), g)
         /\ MovesTo(Recalculated(buffer, p, h), t, Behind(t, p), Behind(t, h),
                    PlannedUpTo(buffer, p, h))
<1>1. PICK q \in Nat, n \in Nat, last \in Nat :
        /\ q = Behind(t, p) /\ n = Behind(t, h) /\ q < n /\ n <= BlockBufferSize - 1
        /\ last = Last(p, h) /\ q + last = n - 1
        /\ \A k \in 0 .. last : SlotBehind(p, k) = SlotBehind(t, q + k)
        /\ \A j \in 0 .. n - 1 : SlotBehind(t, j) \in Slot
        /\ \A j \in 0 .. q : Behind(p, SlotBehind(t, j)) \notin 1 .. last
  BY PositionFacts
<1>2. PICK new, forward : new = Recalculated(buffer, p, h) /\ forward = ForwardPass(buffer, p, h)
  OBVIOUS
<1>3. new \in Buffers
  BY <1>2, RecalculatedFacts
<1>4. ASSUME NEW j \in 0 .. q PROVE At(new, t, j) = At(buffer, t, j)
  <2>1. j \in 0 .. n - 1
    BY <1>1
  <2> QED
    BY <1>1, <1>2, <2>1, RecalculatedFacts DEF At
<1>5. ASSUME NEW j \in 0 .. n - 1 PROVE Same(At(new, t, j), At(buffer, t, j))
  BY <1>1, <1>2, SameKept DEF At
<1>6. ASSUME NEW k \in 1 .. last
      PROVE  /\ At(new, t, q + k) = [At(buffer, t, q + k) EXCEPT !.entry = forward[k]]
             /\ forward[k] \in Nat /\ At(new, t, q + k).entry = forward[k]
  <2>1. At(new, t, q + k) = [At(buffer, t, q + k) EXCEPT !.entry = forward[k]]
    BY <1>1, <1>2, RecalculatedFacts DEF At
  <2>2. forward[k] \in Nat
    <3>1. forward \in [0 .. last -> Nat] /\ k \in 0 .. last
      BY <1>1, <1>2, ForwardPassFacts
    <3> QED
      BY <3>1
  <2>3. At(buffer, t, q + k) \in Blocks
    <3>1. q + k \in 0 .. n - 1
      BY <1>1
    <3> QED
      BY <1>1, <3>1 DEF At, Buffers
  <2> QED
    BY <2>1, <2>2, <2>3 DEF Blocks
<1>7. forward[0] = At(new, t, q).entry
  <2>1. SlotBehind(t, q) = p
    BY <1>1, BehindFacts
  <2> QED
    BY <1>1, <1>2, <1>4, <2>1, ForwardPassFacts DEF At
<1>8. PICK f : f = [k \in 1 .. last + 1 |-> g[q + k]]
  OBVIOUS
<1>9. Floor(f, buffer, p, last)
  <2>1. /\ g \in [q + 1 .. n -> Nat] /\ g[n] = 0
        /\ \A j \in q + 1 .. n - 1 :
             /\ g[j] <= At(buffer, t, j).max /\ g[j] <= g[j + 1] + At(buffer, t, j).dist
             /\ At(buffer, t, j).entry = At(buffer, t, j).max => g[j] = At(buffer, t, j).max
    BY <1>1 DEF FloorAt
  <2>2. f \in [1 .. last + 1 -> Nat] /\ f[last + 1] = 0
    <3>1. \A k \in 1 .. last + 1 : q + k \in q + 1 .. n
      BY <1>1
    <3>2. q + (last + 1) = n /\ last + 1 \in 1 .. last + 1
      BY <1>1
    <3> QED
      BY <1>8, <2>1, <3>1, <3>2
  <2>3. ASSUME NEW k \in 1 .. last
        PROVE  LET b == buffer[SlotBehind(p, k)]
               IN /\ f[k] <= b.max /\ f[k] <= f[k + 1] + b.dist
                  /\ b.entry = b.max => f[k] = b.max
    <3>1. q + k \in q + 1 .. n - 1 /\ (q + k) + 1 = q + (k + 1) /\ k + 1 \in 1 .. last + 1
          /\ k \in 1 .. last + 1 /\ k \in 0 .. last
      BY <1>1
    <3>2. f[k] = g[q + k] /\ f[k + 1] = g[(q + k) + 1]
      BY <1>8, <3>1
    <3>3. buffer[SlotBehind(p, k)] = At(buffer, t, q + k)
      BY <1>1, <3>1 DEF At
    <3> QED
      BY <2>1, <3>1, <3>2, <3>3
  <2> QED
    BY <2>2, <2>3 DEF Floor
<1>10. ASSUME NEW k \in 1 .. last
       PROVE  /\ Driven(new, t, n, q + k)
              /\ At(new, t, q + k).entry = From(new, t, q + k) \/ At(new, t, q + k).entry >= g[q + k]
              /\ Settled(buffer, p, h, k) => Firm(new, t, q + k)
  <2>1. k \in 0 .. last /\ k - 1 \in 0 .. last /\ q + (k - 1) = (q + k) - 1 /\ k \in 1 .. last + 1
        /\ q + k \in 0 .. n - 1 /\ (q + k) - 1 \in 0 .. n - 1 /\ (q + k) + 1 = q + (k + 1)
        /\ (k = last <=> (q + k) + 1 = n) /\ (k # last => k + 1 \in 1 .. last)
        /\ (k # 1 => k - 1 \in 1 .. last) /\ (k = 1 => k - 1 = 0 /\ (q + k) - 1 = q)
    BY <1>1
  <2>2. forward[k] = At(new, t, q + k).entry
    BY <1>6
  <2>3. buffer[SlotBehind(p, k)] = At(buffer, t, q + k)
        /\ buffer[SlotBehind(p, k - 1)] = At(buffer, t, (q + k) - 1)
    <3>1. SlotBehind(p, k) = SlotBehind(t, q + k) /\ SlotBehind(p, k - 1) = SlotBehind(t, q + (k - 1))
      BY <1>1, <2>1
    <3> QED
      BY <2>1, <3>1 DEF At
  <2>4. /\ At(buffer, t, q + k).max = At(new, t, q + k).max
        /\ At(buffer, t, q + k).dist = At(new, t, q + k).dist
        /\ At(buffer, t, (q + k) - 1).dist = At(new, t, (q + k) - 1).dist
    BY <1>5, <2>1 DEF Same
  <2>5. forward[k - 1] = At(new, t, (q + k) - 1).entry
    <3>1. CASE k = 1
      BY <1>7, <2>1, <3>1
    <3>2. CASE k # 1
      <4>1. At(new, t, q + (k - 1)).entry = forward[k - 1]
        BY <1>6, <2>1, <3>2
      <4> QED
        BY <2>1, <4>1
    <3> QED
      BY <3>1, <3>2
  <2>6. (IF k = last THEN 0 ELSE forward[k + 1]) = EndAt(new, t, n, (q + k) + 1)
    <3>1. k # last => At(new, t, q + (k + 1)).entry = forward[k + 1]
      BY <1>6, <2>1
    <3> QED
      BY <2>1, <3>1 DEF EndAt
  <2>7. f[k] = g[q + k]
    BY <1>8, <2>1
  <2>8. /\ forward[k] <= At(buffer, t, q + k).max
        /\ forward[k] <= (IF k = last THEN 0 ELSE forward[k + 1]) + At(buffer, t, q + k).dist
        /\ forward[k] <= forward[k - 1] + At(buffer, t, (q + k) - 1).dist
        /\ forward[k] \in {At(buffer, t, q + k).max,
                           (IF k = last THEN 0 ELSE forward[k + 1]) + At(buffer, t, q + k).dist,
                           forward[k - 1] + At(buffer, t, (q + k) - 1).dist}
        /\ forward[k] = forward[k - 1] + At(buffer, t, (q + k) - 1).dist \/ forward[k] >= f[k]
        /\ Settled(buffer, p, h, k) =>
             forward[k] \in {At(buffer, t, q + k).max, forward[k - 1] + At(buffer, t, (q + k) - 1).dist}
    BY <1>1, <1>2, <1>9, <2>3, ForwardFacts
  <2> QED
    BY <2>2, <2>4, <2>5, <2>6, <2>7, <2>8 DEF Driven, Firm, Ahead, From
<1>11. ASSUME NEW j \in q + 1 .. n - 1
       PROVE  /\ Driven(new, t, n, j)
              /\ At(new, t, j).entry = From(new, t, j) \/ At(new, t, j).entry >= g[j]
  <2>1. j - q \in 1 .. last /\ q + (j - q) = j
    BY <1>1
  <2> QED
    BY <1>10, <2>1
<1>12. MovesTo(new, t, q, n, PlannedUpTo(buffer, p, h))
  <2>1. PICK k \in 0 .. last : PlannedUpTo(buffer, p, h) = SlotBehind(p, k)
                               /\ (k # 0 => Settled(buffer, p, h, k))
    BY <1>1, PlannedFacts
  <2>2. q + k \in q .. n - 1 /\ (k # 0 => k \in 1 .. last) /\ (q + k # q => k # 0)
    BY <1>1
  <2>3. PlannedUpTo(buffer, p, h) = SlotBehind(t, q + k)
    BY <1>1, <2>1
  <2>4. q + k # q => Firm(new, t, q + k)
    BY <1>10, <2>1, <2>2
  <2> QED
    BY <2>2, <2>3, <2>4 DEF MovesTo
<1>13. Recalculation(new, buffer, t, q, n, g)
  BY <1>3, <1>4, <1>5, <1>11 DEF Recalculation
<1> QED
  BY <1>1, <1>2, <1>12, <1>13

-----------------------------------------------------------------------------
(* The ends of the blocks.                                                 *)

(* No override, or one kind of rate: what an override does to the maximum  *)
(* of a block it then does to all of them.                                 *)
OneRateOrNoOverride ==
  \/ Overrides = {Normal}
  \/ \A r \in Rates, s \in Rates : NominalSqr[r] = NominalSqr[s]

Braking == mode \in {"hold", "cancel"}
Nominal(j) == NominalSqr[Block(j).rate][override]
EndOf(j) == EndAt(block_buffer, tail, Count, j)

Lengths == \A j \in 0 .. Count - 1 : Block(j).dist > 0
(* No block may be entered faster than its corner and the two blocks at it *)
(* allow.                                                                  *)
Limits ==
  /\ ~Empty => prev_nominal = Nominal(Count - 1)
  /\ \A j \in 1 .. Count - 1 :
       /\ Block(j).max <= Block(j).junction
       /\ Block(j).max <= Nominal(j) /\ Block(j).max <= Nominal(j - 1)
(* The plan stays below that, and can be slowed down along.                *)
Chain ==
  \A j \in 1 .. Count - 1 :
    Block(j).entry <= Block(j).max /\ Block(j).entry <= EndOf(j + 1) + Block(j).dist

(* From the speed it has the machine can stop before the end of the queue, *)
(* through every corner no faster than allowed: g are speeds to do so.     *)
Brakes(g) ==
  /\ g \in [1 .. Count -> Nat] /\ g[Count] = 0
  /\ \A j \in 1 .. Count - 1 : g[j] <= Block(j).junction /\ g[j] <= g[j + 1] + Block(j).dist
Stoppable ==
  IF Empty THEN prep.current = 0
  ELSE \E g : Brakes(g) /\ prep.current <= g[1] + Block(0).dist

(* Where the generator is, what it takes up next is the speed it has.      *)
Speeds ==
  /\ pl_block = NULL /\ ~prep.recalc => prep.exit = prep.current
  /\ prep.recalc => Block(0).entry = prep.current
  /\ pl_block = NULL /\ ~prep.recalc /\ ~Empty /\ ~prep.decel /\ ~Braking =>
       Block(0).entry = prep.current
Holds ==
  /\ "END_MOTION" \in step_control => prep.current = 0
  /\ Holding /\ ~Braking => prep.current = 0 /\ ~prep.decel
  /\ Braking => Holding
  /\ mode = "hold" /\ "END_MOTION" \in step_control => pl_block # NULL \/ prep.recalc

(* The profile p of the rest d of a block, at speed v.                     *)
Held(p, v, d) == HoldForm(p, v, d) /\ (~Braking => v = 0 /\ p.complete = d)
Slowed(p, v, d) == ~Holding /\ SlowForm(p, v, d)
Keeps(p, v, d) ==
  /\ ~Holding /\ PlanForm(p, v, d) /\ p.exit = EndOf(1)
  /\ p.ramp \in {"TRAPEZOID", "OVERRIDE"} => p.nominal >= p.exit
Followed(p, v, d) == Held(p, v, d) \/ Slowed(p, v, d) \/ Keeps(p, v, d)
ProfileFollowed == pl_block # NULL => Followed(profile, prep.current, Block(0).dist)

DriveOK ==
  /\ PlannerTyped /\ Lengths /\ Limits /\ Chain /\ Stoppable
  /\ Speeds /\ CornerSpeed /\ Holds /\ ProfileFollowed

LEMMA EndsFollow == DriveOK => EndsOfBlocks
<1> SUFFICES ASSUME DriveOK PROVE EndsOfBlocks
  OBVIOUS
<1>1. ASSUME RunOut PROVE prep.current = 0
  <2>1. "END_MOTION" \in step_control \/ Empty
    BY <1>1 DEF RunOut, Prepping
  <2> QED
    BY <2>1 DEF DriveOK, Holds, Stoppable
<1> QED
  BY <1>1 DEF DriveOK, EndsOfBlocks, StopsAtZero

(* The queued blocks.                                                      *)
Queued ==
  /\ Count \in Nat /\ (Empty <=> Count = 0)
  /\ \A j \in 0 .. Count - 1 :
       /\ Block(j) = At(block_buffer, tail, j) /\ Block(j) \in Blocks
       /\ SlotBehind(tail, j) \in Slot /\ (SlotBehind(tail, j) = tail <=> j = 0)
       /\ SlotBehind(tail, j) # head
       /\ Block(j).dist \in Nat /\ Block(j).junction \in Nat /\ Block(j).max \in Nat
       /\ Block(j).entry \in Nat /\ Block(j).rate \in Rates /\ Nominal(j) \in Nat
  /\ \A j \in 1 .. Count : EndOf(j) \in Nat
  /\ EndOf(Count) = 0 /\ \A j \in 1 .. Count - 1 : EndOf(j) = Block(j).entry
  /\ Block(0) = block_buffer[tail]
  /\ prep.current \in Nat /\ prep.exit \in Nat

LEMMA BlockFacts ==
  ASSUME TypeOK PROVE Queued
<1>1. /\ block_buffer \in Buffers /\ tail \in Slot /\ head \in Slot /\ prep \in Preps
      /\ Count \in 0 .. BlockBufferSize - 1 /\ (Empty <=> Count = 0)
  BY Typed
<1>2. ASSUME NEW j \in 0 .. Count - 1
      PROVE  /\ Block(j) = At(block_buffer, tail, j) /\ Block(j) \in Blocks
             /\ SlotBehind(tail, j) \in Slot /\ (SlotBehind(tail, j) = tail <=> j = 0)
             /\ SlotBehind(tail, j) # head
  <2>1. j \in 0 .. BlockBufferSize - 1
    BY <1>1, SizeAssumption
  <2>2. SlotBehind(tail, j) \in Slot /\ Behind(tail, SlotBehind(tail, j)) = j
    BY <1>1, <2>1, SlotFacts
  <2>3. SlotBehind(tail, j) = tail <=> j = 0
    BY <1>1, <2>2, BehindFacts
  <2>4. SlotBehind(tail, j) # head
    BY <1>1, <2>2 DEF Count
  <2> QED
    BY <1>1, <2>2, <2>3, <2>4 DEF Block, At, Buffers
<1>3. ASSUME NEW j \in 0 .. Count - 1
      PROVE  /\ Block(j).dist \in Nat /\ Block(j).junction \in Nat /\ Block(j).max \in Nat
             /\ Block(j).entry \in Nat /\ Block(j).rate \in Rates
  BY <1>2 DEF Blocks
<1>4. ASSUME NEW j \in 0 .. Count - 1 PROVE Nominal(j) \in Nat
  BY <1>3, RatesAssumption DEF Nominal, TypeOK
<1>5. ASSUME NEW j \in 1 .. Count
      PROVE  EndOf(j) \in Nat /\ (j = Count => EndOf(j) = 0) /\ (j # Count => EndOf(j) = Block(j).entry)
  <2>1. j # Count => j \in 0 .. Count - 1
    BY <1>1
  <2> QED
    BY <1>2, <1>3, <2>1 DEF EndOf, EndAt
<1>6. EndOf(Count) = 0
  BY DEF EndOf, EndAt
<1>7. \A j \in 1 .. Count - 1 : EndOf(j) = Block(j).entry
  BY <1>1, <1>5
<1>8. Block(0) = block_buffer[tail] /\ prep.current \in Nat /\ prep.exit \in Nat
  BY <1>1, RingFacts DEF Block, Preps
<1> QED
  BY <1>1, <1>2, <1>3, <1>4, <1>5, <1>6, <1>7, <1>8 DEF Queued

LEMMA BlockFactsNext == TypeOK' => Queued'
<1>1. TypeOK => Queued
  BY BlockFacts
<1> QED
  BY <1>1, PTL

LEMMA InitDriven == Init => DriveOK
<1> SUFFICES ASSUME Init PROVE DriveOK
  OBVIOUS
<1>1. PlannerTyped /\ TypeOK
  BY InitTyped DEF PlannerTyped
<1>2. Empty /\ Count = 0
  BY <1>1, BlockFacts DEF Init, Empty, Queued
<1>3. ~prep.recalc /\ prep.current = 0 /\ prep.exit = 0 /\ ~prep.decel
  BY DEF Init, NotPrepared
<1>4. Lengths /\ Limits /\ Chain /\ Stoppable
  BY <1>2, <1>3 DEF Lengths, Limits, Chain, Stoppable
<1>5. Speeds /\ CornerSpeed
  BY <1>2, <1>3 DEF Speeds, CornerSpeed
<1>6. Holds
  BY <1>3 DEF Holds, Init, Holding, Braking
<1>7. ProfileFollowed
  BY DEF Init, ProfileFollowed
<1> QED
  BY <1>1, <1>4, <1>5, <1>6, <1>7 DEF DriveOK

(* Blocks 1 .. q can be slowed down along to a floor of those behind them. *)
SlowsUpTo(buffer, t, q, n, g) ==
  \A j \in 1 .. q :
    /\ At(buffer, t, j).entry <= At(buffer, t, j).max
    /\ j = q => At(buffer, t, j).entry <= g[j + 1] + At(buffer, t, j).dist
    /\ j # q => At(buffer, t, j).entry <= Ahead(buffer, t, n, j)
Slows(buffer, t, n) ==
  \A j \in 1 .. n - 1 :
    /\ At(buffer, t, j).entry <= At(buffer, t, j).max
    /\ At(buffer, t, j).entry <= Ahead(buffer, t, n, j)

LEMMA ChainKept ==
  ASSUME NEW new \in Buffers, NEW buffer \in Buffers, NEW t \in Slot, NEW q \in Nat, NEW n \in Nat,
         q < n, n <= BlockBufferSize - 1,
         NEW g \in [q + 1 .. n -> Nat],
         Recalculation(new, buffer, t, q, n, g), g[n] = 0, SlowsUpTo(buffer, t, q, n, g)
  PROVE  Slows(new, t, n)
<1>1. \A j \in 0 .. n - 1 : At(new, t, j) \in Blocks
  <2> TAKE j \in 0 .. n - 1
  <2>1. j \in 0 .. BlockBufferSize - 1
    BY SizeAssumption
  <2>2. SlotBehind(t, j) \in Slot
    BY <2>1, SlotFacts
  <2> QED
    BY <2>2 DEF At, Buffers
<1>2. SUFFICES ASSUME NEW j \in 1 .. n - 1
               PROVE  /\ At(new, t, j).entry <= At(new, t, j).max
                      /\ At(new, t, j).entry <= Ahead(new, t, n, j)
  BY DEF Slows
<1>3. CASE j > q
  <2>1. j \in q + 1 .. n - 1
    BY <1>3
  <2> QED
    BY <2>1 DEF Recalculation, Driven
<1>4. CASE j < q
  <2>1. /\ j \in 1 .. q /\ j \in 0 .. q /\ j + 1 \in 0 .. q /\ j + 1 # n /\ j # q
    BY <1>4
  <2>2. At(new, t, j) = At(buffer, t, j) /\ At(new, t, j + 1) = At(buffer, t, j + 1)
    BY <2>1 DEF Recalculation
  <2> QED
    BY <2>1, <2>2 DEF Ahead, EndAt, SlowsUpTo
<1>5. CASE j = q
  <2>1. j \in 1 .. q /\ j \in 0 .. q /\ j + 1 \in q + 1 .. n /\ j \in 0 .. n - 1 /\ (j + 1) - 1 = j
    BY <1>5
  <2>2. At(new, t, j) = At(buffer, t, j)
    BY <2>1 DEF Recalculation
  <2>3. PICK e \in Nat, d \in Nat, f \in Nat :
          e = At(new, t, j).entry /\ d = At(new, t, j).dist /\ f = g[j + 1]
    BY <1>1, <2>1 DEF Blocks
  <2>4. e <= f + d /\ e <= At(new, t, j).max
    BY <1>5, <2>1, <2>2, <2>3 DEF SlowsUpTo
  <2>5. CASE j + 1 = n
    BY <2>3, <2>4, <2>5 DEF Ahead, EndAt
  <2>6. CASE j + 1 # n
    <3>1. j + 1 \in q + 1 .. n - 1
      BY <2>1, <2>6
    <3>2. At(new, t, j + 1).entry = From(new, t, j + 1) \/ At(new, t, j + 1).entry >= f
      BY <2>3, <3>1 DEF Recalculation
    <3>3. From(new, t, j + 1) = e + d
      BY <2>1, <2>3 DEF From
    <3>4. PICK x \in Nat : x = At(new, t, j + 1).entry
      BY <1>1, <3>1 DEF Blocks
    <3>5. e <= x + d
      <4>1. x = e + d \/ x >= f
        BY <3>2, <3>3, <3>4
      <4> QED
        BY <2>4, <4>1
    <3> QED
      BY <2>3, <2>4, <2>6, <3>4, <3>5 DEF Ahead, EndAt
  <2> QED
    BY <2>5, <2>6
<1> QED
  BY <1>3, <1>4, <1>5

(* A recalculation, from block q of the queue and over n blocks: the plan  *)
(* can be driven again.                                                    *)
LEMMA Replanned ==
  ASSUME TypeOK, NEW buffer \in Buffers, NEW current \in {buffer, ParametersUpdated(buffer)},
         NEW p \in Slot, NEW h \in Slot, Behind(tail, p) < Behind(tail, h),
         block_buffer' = Recalculated(current, p, h), tail' = tail, head' = h,
         NEW g, FloorAt(g, buffer, tail, Behind(tail, p), Behind(tail, h)),
         SlowsUpTo(buffer, tail, Behind(tail, p), Behind(tail, h), g)
  PROVE  /\ Chain' /\ Count' = Behind(tail, h)
         /\ \A j \in 0 .. Behind(tail, h) - 1 : Same(At(block_buffer', tail, j), At(buffer, tail, j))
         /\ \A j \in 1 .. Behind(tail, p) : At(block_buffer', tail, j) = At(buffer, tail, j)
         /\ block_buffer'[tail] = current[tail]
         /\ Recalculation(block_buffer', current, tail, Behind(tail, p), Behind(tail, h), g)
<1>1. tail \in Slot /\ SlotBehind(tail, 0) = tail
  BY RingFacts DEF TypeOK
<1>2. /\ current \in Buffers /\ \A i \in Slot : Same(current[i], buffer[i])
      /\ \A i \in Slot \ {tail} : current[i] = buffer[i]
  BY UpdatedFacts DEF Same
<1>3. PICK q \in Nat, n \in Nat :
        /\ q = Behind(tail, p) /\ n = Behind(tail, h) /\ q < n /\ n <= BlockBufferSize - 1
  BY <1>1, BehindFacts
<1>4. ASSUME NEW j \in 0 .. n - 1
      PROVE  /\ Same(At(current, tail, j), At(buffer, tail, j))
             /\ j # 0 => At(current, tail, j) = At(buffer, tail, j)
  <2>1. j \in 0 .. BlockBufferSize - 1
    BY <1>3, SizeAssumption
  <2>2. SlotBehind(tail, j) \in Slot /\ Behind(tail, SlotBehind(tail, j)) = j
    BY <1>1, <2>1, SlotFacts
  <2>3. j # 0 => SlotBehind(tail, j) # tail
    BY <1>1, <2>2, BehindFacts
  <2> QED
    BY <1>2, <2>2, <2>3 DEF At
<1>5. FloorAt(g, current, tail, q, n)
  <2>1. \A j \in q + 1 .. n - 1 : j \in 0 .. n - 1 /\ j # 0
    BY <1>3
  <2> QED
    BY <1>3, <1>4, <2>1 DEF FloorAt
<1>6. PICK new : new = block_buffer' /\ new \in Buffers
  BY <1>2, RecalculatedFacts
<1>7. Recalculation(new, current, tail, q, n, g)
  BY <1>1, <1>2, <1>3, <1>5, <1>6, RecalculationFacts
<1>8. Slows(new, tail, n)
  <2>1. g \in [q + 1 .. n -> Nat] /\ g[n] = 0
    BY <1>5 DEF FloorAt
  <2>2. SlowsUpTo(current, tail, q, n, g)
    <3> SUFFICES ASSUME NEW j \in 1 .. q
                 PROVE  /\ At(current, tail, j).entry <= At(current, tail, j).max
                        /\ j = q => At(current, tail, j).entry <= g[j + 1] + At(current, tail, j).dist
                        /\ j # q => At(current, tail, j).entry <= Ahead(current, tail, n, j)
      BY DEF SlowsUpTo
    <3>1. j \in 0 .. n - 1 /\ j # 0 /\ (j # q => j + 1 \in 0 .. n - 1 /\ j + 1 # 0)
      BY <1>3
    <3>2. At(current, tail, j) = At(buffer, tail, j)
          /\ (j # q => At(current, tail, j + 1) = At(buffer, tail, j + 1))
      BY <1>4, <3>1
    <3> QED
      BY <1>3, <3>2 DEF Ahead, EndAt, SlowsUpTo
  <2> QED
    BY <1>1, <1>2, <1>3, <1>6, <1>7, <2>1, <2>2, ChainKept
<1>9. Count' = n
  BY <1>3 DEF Count
<1>10. Chain'
  BY <1>6, <1>8, <1>9 DEF Slows, Chain, Block, At, Ahead, EndOf, EndAt
<1>11. ASSUME NEW j \in 0 .. n - 1 PROVE Same(At(new, tail, j), At(buffer, tail, j))
  BY <1>4, <1>7 DEF Recalculation, Same
<1>12. ASSUME NEW j \in 1 .. q PROVE At(new, tail, j) = At(buffer, tail, j)
  <2>1. j \in 0 .. q /\ j \in 0 .. n - 1 /\ j # 0
    BY <1>3
  <2> QED
    BY <1>4, <1>7, <2>1 DEF Recalculation
<1>13. new[tail] = current[tail]
  <2>1. 0 \in 0 .. q
    BY <1>3
  <2>2. At(new, tail, 0) = At(current, tail, 0)
    BY <1>7, <2>1 DEF Recalculation
  <2> QED
    BY <1>1, <2>2 DEF At
<1> QED
  BY <1>3, <1>6, <1>7, <1>9, <1>10, <1>11, <1>12, <1>13

LEMMA OneMore ==
  ASSUME NEW k \in Nat, NEW m \in Nat, m \in {k, k + 1}, NEW i \in 1 .. m - 1
  PROVE  i \in 1 .. k /\ i \in 0 .. m - 1 /\ i \in 1 .. m /\ i + 1 \in 1 .. m
OBVIOUS

(* Lengths and corners of the queued blocks stay, and one may come behind  *)
(* them: the machine can stop as before.                                   *)
LEMMA StoppableKept ==
  ASSUME TypeOK, TypeOK', Stoppable, prep'.current = prep.current, Count' \in {Count, Count + 1},
         \A j \in 0 .. Count - 1 : /\ Block(j)'.dist = Block(j).dist
                                   /\ Block(j)'.junction = Block(j).junction
  PROVE  Stoppable'
<1>1. Count \in Nat /\ (Empty <=> Count = 0) /\ (Empty' <=> Count' = 0)
      /\ Count' \in Nat
      /\ \A j \in 0 .. Count' - 1 : Block(j)'.dist \in Nat /\ Block(j)'.junction \in Nat
  <2>1. Queued /\ Queued'
    BY BlockFacts, BlockFactsNext
  <2> QED
    BY <2>1 DEF Queued
<1>2. CASE Count = 0
  <2>1. prep'.current = 0
    BY <1>1, <1>2 DEF Stoppable
  <2>2. CASE Count' = 0
    BY <1>1, <2>1, <2>2 DEF Stoppable
  <2>3. CASE Count' = 1
    <3>1. PICK g : g = [j \in 1 .. 1 |-> 0]
      OBVIOUS
    <3>2. g \in [1 .. Count' -> Nat] /\ g[Count'] = 0 /\ g[1] = 0
      BY <2>3, <3>1
    <3>3. Brakes(g)'
      BY <2>3, <3>2 DEF Brakes
    <3>4. prep'.current <= g[1] + Block(0)'.dist
      <4>1. Block(0)'.dist \in Nat
        BY <1>1, <2>3
      <4> QED
        BY <2>1, <3>2, <4>1
    <3> QED
      BY <1>1, <2>3, <3>3, <3>4 DEF Stoppable
  <2> QED
    BY <1>2, <2>2, <2>3
<1>3. CASE Count # 0
  <2>1. PICK g : Brakes(g) /\ prep.current <= g[1] + Block(0).dist
    BY <1>1, <1>3 DEF Stoppable
  <2>2. g \in [1 .. Count -> Nat] /\ g[Count] = 0
        /\ \A j \in 1 .. Count - 1 : g[j] <= Block(j).junction /\ g[j] <= g[j + 1] + Block(j).dist
    BY <2>1 DEF Brakes
  <2>3. PICK f : f = [j \in 1 .. Count' |-> IF j \in 1 .. Count THEN g[j] ELSE 0]
    OBVIOUS
  <2>4. f \in [1 .. Count' -> Nat] /\ f[Count'] = 0 /\ f[1] = g[1]
    BY <1>1, <1>3, <2>2, <2>3
  <2>5. PICK k \in Nat, m \in Nat : k = Count /\ m = Count' /\ m \in {k, k + 1} /\ k # 0
    BY <1>1, <1>3
  <2>6. ASSUME NEW i \in 1 .. m - 1
        PROVE  f[i] <= Block(i)'.junction /\ f[i] <= f[i + 1] + Block(i)'.dist
    <3>1. i \in 1 .. k /\ i \in 0 .. m - 1 /\ i \in 1 .. m /\ i + 1 \in 1 .. m
      BY <2>5, OneMore
    <3>2. f[i] = g[i]
      BY <2>3, <2>5, <3>1
    <3>3. CASE i = k
      <4>1. f[i] = 0 /\ f[i + 1] \in Nat
        BY <2>2, <2>4, <2>5, <3>1, <3>2, <3>3
      <4>2. Block(i)'.dist \in Nat /\ Block(i)'.junction \in Nat
        BY <1>1, <2>5, <3>1
      <4> QED
        BY <4>1, <4>2
    <3>4. CASE i # k
      <4>1. i \in 1 .. k - 1 /\ i \in 0 .. k - 1 /\ i + 1 \in 1 .. k
        BY <2>5, <3>1, <3>4
      <4>2. f[i + 1] = g[i + 1]
        BY <2>3, <2>5, <3>1, <4>1
      <4> QED
        BY <2>2, <2>5, <3>2, <4>1, <4>2
    <3> QED
      BY <3>3, <3>4
  <2>7. Brakes(f)'
    BY <2>4, <2>5, <2>6 DEF Brakes
  <2>8. prep'.current <= f[1] + Block(0)'.dist
    <3>1. 0 \in 0 .. Count - 1
      BY <1>1, <1>3
    <3> QED
      BY <2>1, <2>4, <3>1
  <2> QED
    BY <1>1, <1>3, <2>7, <2>8 DEF Stoppable
<1> QED
  BY <1>2, <1>3

(* The generator gives its block back, and will take it up at its speed.   *)
LEMMA GivenBack ==
  ASSUME DriveOK, TypeOK, TypeOK', st_update_plan_block_parameters,
         tail' = tail, Empty' <=> Empty,
         block_buffer'[tail].junction = block_buffer[tail].junction,
         block_buffer'[tail].entry = IF pl_block = NULL THEN block_buffer[tail].entry ELSE prep.current,
         pl_block # NULL \/ prep.recalc \/ Empty \/ (~Braking' => ~Braking)
  PROVE  Speeds' /\ CornerSpeed' /\ ProfileFollowed'
<1>1. /\ pl_block' = NULL /\ prep'.current = prep.current /\ (prep'.decel <=> prep.decel)
      /\ prep'.exit = prep.exit
      /\ pl_block = NULL => (prep'.recalc <=> prep.recalc)
      /\ pl_block # NULL => prep'.recalc
  BY UpdateTyped
<1>2. Block(0) = block_buffer[tail] /\ Block(0)' = block_buffer'[tail]
  <2>1. Queued /\ Queued'
    BY BlockFacts, BlockFactsNext
  <2> QED
    BY <2>1 DEF Queued
<1>3. Speeds /\ CornerSpeed /\ RingOK
  BY DEF DriveOK, PlannerTyped
<1>4. ~prep'.recalc => pl_block = NULL /\ ~prep.recalc
  BY <1>1
<1>5. prep'.recalc => Block(0)'.entry = prep'.current
  BY <1>1, <1>2, <1>3 DEF Speeds
<1>6. ~prep'.recalc => prep'.exit = prep'.current
  BY <1>1, <1>3, <1>4 DEF Speeds
<1>7. ~prep'.recalc /\ ~Empty' /\ ~prep'.decel /\ ~Braking' => Block(0)'.entry = prep'.current
  BY <1>1, <1>2, <1>3, <1>4 DEF Speeds
<1>8. ~prep'.recalc /\ ~Empty' => prep'.current <= Block(0)'.junction
  BY <1>1, <1>2, <1>3, <1>4 DEF CornerSpeed
<1> QED
  BY <1>1, <1>5, <1>6, <1>7, <1>8 DEF Speeds, CornerSpeed, ProfileFollowed

LEMMA LimitsKept ==
  ASSUME Queued, Limits, Count' = Count, Empty' <=> Empty, UNCHANGED <<override, prev_nominal>>,
         \A j \in 0 .. Count - 1 :
           /\ Block(j)'.max = Block(j).max /\ Block(j)'.junction = Block(j).junction
           /\ Block(j)'.rate = Block(j).rate
  PROVE  Limits'
<1>1. PICK n \in Nat : n = Count /\ n = Count' /\ (Empty <=> n = 0)
  BY DEF Queued
<1>2. \A j \in 0 .. n - 1 : Nominal(j)' = Nominal(j)
  BY <1>1 DEF Nominal
<1>3. ~Empty' => prev_nominal' = Nominal(n - 1)'
  <2>1. n # 0 => n - 1 \in 0 .. n - 1
    BY <1>1
  <2> QED
    BY <1>1, <1>2, <2>1 DEF Limits
<1>4. ASSUME NEW j \in 1 .. n - 1
      PROVE  /\ Block(j)'.max <= Block(j)'.junction
             /\ Block(j)'.max <= Nominal(j)' /\ Block(j)'.max <= Nominal(j - 1)'
  <2>1. j \in 0 .. n - 1 /\ j - 1 \in 0 .. n - 1
    BY <1>1
  <2> QED
    BY <1>1, <1>2, <2>1 DEF Limits
<1> QED
  BY <1>1, <1>3, <1>4 DEF Limits

(* A plan that starts anew, from the first block.                          *)
LEMMA ReinitializedDriven ==
  ASSUME DriveOK, TypeOK', NEW buffer \in Buffers, plan_cycle_reinitialize(buffer),
         UNCHANGED <<tail, head>>,
         \A j \in 0 .. Count - 1 :
           /\ At(buffer, tail, j).dist = Block(j).dist
           /\ At(buffer, tail, j).junction = Block(j).junction
           /\ At(buffer, tail, j).entry = Block(j).entry,
         ~Empty => \E g : FloorAt(g, buffer, tail, 0, Count),
         buffer[tail].entry = block_buffer[tail].entry,
         buffer[tail].junction = block_buffer[tail].junction,
         pl_block # NULL \/ prep.recalc \/ Empty \/ (~Braking' => ~Braking)
  PROVE  /\ Lengths' /\ Chain' /\ Stoppable' /\ Speeds' /\ CornerSpeed' /\ ProfileFollowed'
         /\ prep'.current = prep.current /\ (prep'.decel <=> prep.decel)
         /\ Count' = Count /\ (Empty' <=> Empty)
         /\ \A j \in 0 .. Count - 1 : Same(Block(j)', At(buffer, tail, j))
<1>1. TypeOK /\ Queued /\ Queued'
  BY BlockFacts, BlockFactsNext DEF DriveOK, PlannerTyped
<1>2. PICK current : current = ParametersUpdated(buffer)
  OBVIOUS
<1>3. /\ current \in Buffers /\ \A i \in Slot : Same(current[i], buffer[i])
      /\ pl_block # NULL => current[tail].entry = prep.current
      /\ pl_block = NULL => current = buffer
  BY <1>1, <1>2, UpdatedFacts
<1>4. /\ block_buffer' = Recalculated(current, tail, head) /\ st_update_plan_block_parameters
      /\ tail' = tail /\ head' = head /\ tail \in Slot /\ head \in Slot
      /\ Count' = Count /\ (Empty' <=> Empty) /\ Count \in Nat /\ (Empty <=> Count = 0)
  BY <1>1, <1>2 DEF plan_cycle_reinitialize, Count, Empty, TypeOK, Queued
<1>5. block_buffer'[tail] = current[tail]
  <2>1. Behind(tail, tail) = 0
    BY <1>4, BehindFacts
  <2>2. Behind(tail, tail) \notin 1 .. Last(tail, head)
    BY <2>1
  <2> QED
    BY <1>3, <1>4, <2>2, RecalculatedFacts
<1>6. ASSUME ~Empty
      PROVE  Chain' /\ \A j \in 0 .. Count - 1 : Same(At(block_buffer', tail, j), At(buffer, tail, j))
  <2>1. Behind(tail, tail) = 0 /\ Count = Behind(tail, head) /\ 0 < Count
    BY <1>4, <1>6, BehindFacts DEF Count
  <2>2. PICK g : FloorAt(g, buffer, tail, 0, Count)
    BY <1>6
  <2>3. SlowsUpTo(buffer, tail, 0, Count, g)
    BY DEF SlowsUpTo
  <2> QED
    BY <1>1, <1>2, <1>4, <2>1, <2>2, <2>3, Replanned
<1>7. Chain' /\ \A j \in 0 .. Count - 1 : Same(At(block_buffer', tail, j), At(buffer, tail, j))
  <2>1. CASE Empty
    BY <1>4, <2>1 DEF Chain
  <2>2. CASE ~Empty
    BY <1>6, <2>2
  <2> QED
    BY <2>1, <2>2
<1>8. \A j \in 0 .. Count - 1 : Same(Block(j)', At(buffer, tail, j))
  BY <1>4, <1>7 DEF Block, At
<1>9. prep'.current = prep.current /\ (prep'.decel <=> prep.decel)
  BY <1>1, <1>4, UpdateTyped
<1>10. \A j \in 0 .. Count - 1 : Block(j)'.dist = Block(j).dist /\ Block(j)'.junction = Block(j).junction
  BY <1>8 DEF Same
<1>11. Lengths'
  BY <1>4, <1>10 DEF Lengths, DriveOK
<1>12. Stoppable'
  BY <1>1, <1>4, <1>9, <1>10, StoppableKept DEF DriveOK
<1>13. block_buffer'[tail].junction = block_buffer[tail].junction
       /\ block_buffer'[tail].entry = IF pl_block = NULL THEN block_buffer[tail].entry ELSE prep.current
  BY <1>3, <1>4, <1>5 DEF Same
<1>14. Speeds' /\ CornerSpeed' /\ ProfileFollowed'
  BY <1>1, <1>4, <1>13, GivenBack
<1> QED
  BY <1>4, <1>7, <1>8, <1>9, <1>11, <1>12, <1>14

LEMMA HoldDoneDriven ==
  ASSUME DriveOK, HoldDone
  PROVE  DriveOK'
<1>1. TypeOK /\ Queued /\ PlannerTyped
  BY BlockFacts DEF DriveOK, PlannerTyped
<1>2. PlannerTyped' /\ TypeOK'
  BY <1>1, HoldDoneTyped DEF PlannerTyped
<1>3. block_buffer \in Buffers
  BY <1>1, Typed
<1>4. /\ mode = "hold" /\ RunOut /\ mode' = "held" /\ plan_cycle_reinitialize(block_buffer)
      /\ step_control' = step_control \ {"EXECUTE_HOLD"}
      /\ UNCHANGED <<tail, head, next_head, prev_nominal, override, lines>>
  BY DEF HoldDone
<1>5. ASSUME ~Empty PROVE \E g : FloorAt(g, block_buffer, tail, 0, Count)
  <2>1. PICK g : g = [j \in 1 .. Count |-> EndOf(j)]
    OBVIOUS
  <2>2. /\ Count \in Nat /\ Count # 0 /\ EndOf(Count) = 0
        /\ \A j \in 1 .. Count : EndOf(j) \in Nat
        /\ \A j \in 1 .. Count - 1 : EndOf(j) = Block(j).entry /\ Block(j) = At(block_buffer, tail, j)
    BY <1>1, <1>5 DEF Queued
  <2>3. g \in [0 + 1 .. Count -> Nat] /\ g[Count] = 0
    BY <2>1, <2>2
  <2>4. ASSUME NEW j \in 0 + 1 .. Count - 1
        PROVE  LET b == At(block_buffer, tail, j)
               IN /\ g[j] <= b.max /\ g[j] <= g[j + 1] + b.dist
                  /\ b.entry = b.max => g[j] = b.max
    <3>1. j \in 1 .. Count - 1 /\ j \in 1 .. Count /\ j + 1 \in 1 .. Count
      BY <2>2
    <3>2. g[j] = Block(j).entry /\ g[j + 1] = EndOf(j + 1)
      BY <2>1, <2>2, <3>1
    <3>3. Block(j).entry <= Block(j).max /\ Block(j).entry <= EndOf(j + 1) + Block(j).dist
      BY <3>1 DEF DriveOK, Chain
    <3> QED
      BY <2>2, <3>1, <3>2, <3>3
  <2>5. FloorAt(g, block_buffer, tail, 0, Count)
    BY <2>3, <2>4 DEF FloorAt
  <2> QED
    BY <2>5
<1>6. pl_block # NULL \/ prep.recalc \/ Empty
  <2>1. "END_MOTION" \in step_control \/ Empty
    BY <1>4 DEF RunOut, Prepping
  <2> QED
    BY <1>4, <2>1 DEF DriveOK, Holds
<1>7. /\ Lengths' /\ Chain' /\ Stoppable' /\ Speeds' /\ CornerSpeed' /\ ProfileFollowed'
      /\ prep'.current = prep.current
      /\ Count' = Count /\ (Empty' <=> Empty)
      /\ \A j \in 0 .. Count - 1 : Same(Block(j)', At(block_buffer, tail, j))
  <2>1. \A j \in 0 .. Count - 1 :
           /\ At(block_buffer, tail, j).dist = Block(j).dist
           /\ At(block_buffer, tail, j).junction = Block(j).junction
           /\ At(block_buffer, tail, j).entry = Block(j).entry
    BY <1>1 DEF Queued
  <2> QED
    BY <1>2, <1>3, <1>4, <1>5, <1>6, <2>1, ReinitializedDriven
<1>8. Limits'
  <2>1. \A j \in 0 .. Count - 1 :
           /\ Block(j)'.max = Block(j).max /\ Block(j)'.junction = Block(j).junction
           /\ Block(j)'.rate = Block(j).rate
    BY <1>1, <1>7 DEF Queued, Same
  <2> QED
    BY <1>1, <1>4, <1>7, <2>1, LimitsKept DEF DriveOK
<1>9. Holds'
  BY <1>4, <1>7 DEF DriveOK, Holds, Holding, Braking
<1> QED
  BY <1>2, <1>7, <1>8, <1>9 DEF DriveOK

LEMMA PrevFacts ==
  ASSUME NEW t \in Slot, NEW j \in 1 .. BlockBufferSize - 1
  PROVE  plan_prev_block_index(SlotBehind(t, j)) = SlotBehind(t, j - 1)
BY SizeAssumption DEF Slot, SlotBehind, plan_prev_block_index

(* The maximum entry speeds under a new override.                          *)
LEMMA MaxEntryFacts ==
  ASSUME TypeOK, NEW o \in Overrides, NEW j \in 1 .. Count - 1
  PROVE  LET n == NominalSqr[Block(j).rate][o]
             before == NominalSqr[Block(j - 1).rate][o]
         IN At(MaxEntry(o), tail, j).max = Smaller(Block(j).junction, Smaller(n, before))
<1>1. Count \in 0 .. BlockBufferSize - 1 /\ tail \in Slot
  BY Typed
<1>2. j \in 0 .. BlockBufferSize - 1 /\ j \in 1 .. BlockBufferSize - 1 /\ j - 1 \in 0 .. Count - 1
      /\ j \in 0 .. Count - 1
  BY <1>1, SizeAssumption
<1>3. PICK i \in Slot : i = SlotBehind(tail, j) /\ Behind(tail, i) = j
  BY <1>1, <1>2, SlotFacts
<1>4. i # tail /\ Behind(tail, i) < Behind(tail, head)
  BY <1>1, <1>3, BehindFacts DEF Count
<1>5. plan_prev_block_index(i) = SlotBehind(tail, j - 1)
  BY <1>1, <1>2, <1>3, PrevFacts
<1>6. block_buffer[i] = Block(j) /\ block_buffer[plan_prev_block_index(i)] = Block(j - 1)
      /\ block_buffer[i] \in Blocks /\ Block(j).rate \in Rates /\ Block(j - 1).rate \in Rates
  <2>1. Queued
    BY BlockFacts
  <2> QED
    BY <1>2, <1>3, <1>5, <2>1 DEF Queued, Block
<1>7. PICK n \in Nat, before \in Nat :
        n = NominalSqr[Block(j).rate][o] /\ before = NominalSqr[Block(j - 1).rate][o]
  BY <1>6, RatesAssumption
<1>8. PICK m : m = Smaller(Block(j).junction, Smaller(n, before))
  OBVIOUS
<1>9. MaxEntry(o)[i] = [block_buffer[i] EXCEPT !.max = m]
  <2>1. (IF i = tail \/ n < before THEN n ELSE before) = Smaller(n, before)
    BY <1>4, <1>7 DEF Smaller
  <2> QED
    BY <1>4, <1>6, <1>7, <1>8, <2>1 DEF MaxEntry
<1>10. MaxEntry(o)[i].max = m
  BY <1>6, <1>9 DEF Blocks
<1> QED
  BY <1>3, <1>7, <1>8, <1>10 DEF At

LEMMA OverrideDriven ==
  ASSUME OneRateOrNoOverride, DriveOK, NEW o \in Overrides, Override(o)
  PROVE  DriveOK'
<1>1. TypeOK /\ Queued /\ PlannerTyped
  BY BlockFacts DEF DriveOK, PlannerTyped
<1>2. PlannerTyped' /\ TypeOK'
  BY <1>1, OverrideTyped DEF PlannerTyped
<1>3. /\ o # override /\ override' = o /\ plan_cycle_reinitialize(MaxEntry(o))
      /\ prev_nominal' = IF Empty THEN SOME_LARGE_VALUE
                         ELSE NominalSqr[block_buffer[plan_prev_block_index(head)].rate][o]
      /\ UNCHANGED <<tail, head, next_head, step_control, mode, lines>>
      /\ tail \in Slot /\ head \in Slot
  BY <1>1 DEF Override, TypeOK
<1>4. /\ MaxEntry(o) \in Buffers
      /\ \A i \in Slot :
           LET b == MaxEntry(o)[i]
           IN /\ b.dist = block_buffer[i].dist /\ b.junction = block_buffer[i].junction
              /\ b.rate = block_buffer[i].rate /\ b.entry = block_buffer[i].entry
  BY <1>1, MaxEntryTyped
<1>5. \A j \in 0 .. Count - 1 :
         /\ At(MaxEntry(o), tail, j).dist = Block(j).dist
         /\ At(MaxEntry(o), tail, j).junction = Block(j).junction
         /\ At(MaxEntry(o), tail, j).rate = Block(j).rate
         /\ At(MaxEntry(o), tail, j).entry = Block(j).entry
  BY <1>1, <1>4 DEF Queued, At
<1>6. \A r \in Rates, s \in Rates : NominalSqr[r] = NominalSqr[s]
  BY <1>1, <1>3 DEF OneRateOrNoOverride, TypeOK
<1>7. PICK n \in Nat : n = Count /\ (Empty <=> n = 0)
  BY <1>1 DEF Queued
<1>8. ASSUME NEW j \in 1 .. n - 1
      PROVE  /\ At(MaxEntry(o), tail, j).max = Smaller(Block(j).junction, NominalSqr[Block(j).rate][o])
             /\ NominalSqr[Block(j - 1).rate][o] = NominalSqr[Block(j).rate][o]
             /\ NominalSqr[Block(j).rate][o] \in Nat
  <2>1. j \in 0 .. n - 1 /\ j - 1 \in 0 .. n - 1
    BY <1>7
  <2>2. NominalSqr[Block(j - 1).rate][o] = NominalSqr[Block(j).rate][o]
        /\ NominalSqr[Block(j).rate][o] \in Nat
    BY <1>1, <1>6, <1>7, <2>1, RatesAssumption DEF Queued
  <2>3. PICK a \in Nat : a = NominalSqr[Block(j).rate][o]
    BY <2>2
  <2>4. Smaller(a, a) = a
    BY DEF Smaller
  <2> QED
    BY <1>1, <1>7, <2>2, <2>3, <2>4, MaxEntryFacts
<1>9. ASSUME ~Empty PROVE \E g : FloorAt(g, MaxEntry(o), tail, 0, Count)
  <2>1. PICK a \in Nat : \A j \in 1 .. n - 1 : NominalSqr[Block(j).rate][o] = a
    <3>1. \E r : r \in Rates
      BY RatesAssumption
    <3>2. PICK r \in Rates : TRUE
      BY <3>1
    <3>3. NominalSqr[r][o] \in Nat
      BY RatesAssumption
    <3>4. \A j \in 1 .. n - 1 : Block(j).rate \in Rates
      BY <1>1, <1>7 DEF Queued
    <3>5. \A j \in 1 .. n - 1 : NominalSqr[Block(j).rate][o] = NominalSqr[r][o]
      BY <1>6, <3>4
    <3> QED
      BY <3>3, <3>5
  <2>2. PICK g : g = [j \in 1 .. n |-> Smaller(EndOf(j), a)]
    OBVIOUS
  <2>3. \A j \in 1 .. n : EndOf(j) \in Nat
    BY <1>1, <1>7 DEF Queued
  <2>4. ASSUME NEW j \in 1 .. n PROVE Smaller(EndOf(j), a) \in Nat
    BY <2>3, SmallerFacts
  <2>5. g \in [0 + 1 .. n -> Nat] /\ g[n] = 0
    <3>1. n \in 1 .. n /\ EndOf(n) = 0
      BY <1>1, <1>7, <1>9 DEF Queued
    <3>2. Smaller(EndOf(n), a) = 0
      BY <3>1 DEF Smaller
    <3>3. 0 + 1 = 1
      OBVIOUS
    <3> QED
      BY <2>2, <2>4, <3>1, <3>2, <3>3
  <2>6. ASSUME NEW j \in 0 + 1 .. n - 1
        PROVE  LET b == At(MaxEntry(o), tail, j)
               IN /\ g[j] <= b.max /\ g[j] <= g[j + 1] + b.dist
                  /\ b.entry = b.max => g[j] = b.max
    <3>1. j \in 1 .. n - 1 /\ j \in 1 .. n /\ j + 1 \in 1 .. n /\ j \in 0 .. n - 1
      BY <1>7
    <3>2. PICK e \in Nat, e1 \in Nat, d \in Nat, c \in Nat :
            /\ e = Block(j).entry /\ e1 = EndOf(j + 1) /\ d = Block(j).dist /\ c = Block(j).junction
      BY <1>1, <1>7, <2>3, <3>1 DEF Queued
    <3>3. EndOf(j) = e
      BY <1>1, <1>7, <3>1, <3>2 DEF Queued
    <3>4. e <= c /\ e <= e1 + d
      <4>1. Block(j).entry <= Block(j).max /\ Block(j).entry <= EndOf(j + 1) + Block(j).dist
            /\ Block(j).max <= Block(j).junction /\ Block(j).max \in Nat
        BY <1>1, <1>7, <3>1 DEF DriveOK, Chain, Limits, Queued
      <4> QED
        BY <3>2, <4>1
    <3>5. g[j] = Smaller(e, a) /\ g[j + 1] = Smaller(e1, a)
      BY <2>2, <3>1, <3>2, <3>3
    <3>6. At(MaxEntry(o), tail, j).max = Smaller(c, a) /\ At(MaxEntry(o), tail, j).dist = d
          /\ At(MaxEntry(o), tail, j).entry = e
      BY <1>5, <1>7, <1>8, <2>1, <3>1, <3>2
    <3>7. /\ Smaller(e, a) <= Smaller(c, a) /\ Smaller(e, a) <= Smaller(e1, a) + d
          /\ e = Smaller(c, a) => Smaller(e, a) = Smaller(c, a)
      BY <3>4 DEF Smaller
    <3> QED
      BY <3>5, <3>6, <3>7
  <2> QED
    BY <1>7, <2>5, <2>6 DEF FloorAt
<1>10. /\ Lengths' /\ Chain' /\ Stoppable' /\ Speeds' /\ CornerSpeed' /\ ProfileFollowed'
       /\ prep'.current = prep.current /\ (prep'.decel <=> prep.decel)
       /\ Count' = Count /\ (Empty' <=> Empty)
       /\ \A j \in 0 .. Count - 1 : Same(Block(j)', At(MaxEntry(o), tail, j))
  <2>1. Braking' => Braking
    BY <1>3 DEF Braking
  <2>2. ~Braking' => ~Braking
    BY <1>3 DEF Braking
  <2>3. MaxEntry(o)[tail].entry = block_buffer[tail].entry
        /\ MaxEntry(o)[tail].junction = block_buffer[tail].junction
    BY <1>3, <1>4
  <2> QED
    BY <1>2, <1>3, <1>4, <1>5, <1>9, <2>2, <2>3, ReinitializedDriven
<1>11. Limits'
  <2>1. ASSUME NEW j \in 0 .. n - 1 PROVE Nominal(j)' = NominalSqr[Block(j).rate][o]
    BY <1>3, <1>5, <1>7, <1>10 DEF Nominal, Same
  <2>2. ~Empty' => prev_nominal' = Nominal(n - 1)'
    <3> SUFFICES ASSUME ~Empty PROVE prev_nominal' = Nominal(n - 1)'
      BY <1>10
    <3>1. n - 1 \in 0 .. n - 1 /\ n # 0
      BY <1>7
    <3>2. block_buffer[plan_prev_block_index(head)] = Block(n - 1)
      <4>1. n \in 0 .. BlockBufferSize - 1 /\ n \in 1 .. BlockBufferSize - 1 /\ SlotBehind(tail, n) = head
        BY <1>1, <1>3, <1>7, <3>1, BehindFacts, Typed DEF Count
      <4>2. plan_prev_block_index(head) = SlotBehind(tail, n - 1)
        BY <1>3, <4>1, PrevFacts
      <4> QED
        BY <4>2 DEF Block
    <3> QED
      BY <1>3, <2>1, <3>1, <3>2
  <2>3. ASSUME NEW j \in 1 .. n - 1
        PROVE  /\ Block(j)'.max <= Block(j)'.junction
               /\ Block(j)'.max <= Nominal(j)' /\ Block(j)'.max <= Nominal(j - 1)'
    <3>1. j \in 0 .. n - 1 /\ j - 1 \in 0 .. n - 1
      BY <1>7
    <3>2. PICK c \in Nat, a \in Nat : c = Block(j).junction /\ a = NominalSqr[Block(j).rate][o]
      BY <1>1, <1>7, <1>8, <3>1 DEF Queued
    <3>3. Block(j)'.max = Smaller(c, a) /\ Block(j)'.junction = c /\ Nominal(j)' = a /\ Nominal(j - 1)' = a
      BY <1>5, <1>7, <1>8, <1>10, <2>1, <3>1, <3>2 DEF Same
    <3> QED
      BY <3>3, SmallerFacts
  <2> QED
    BY <1>7, <1>10, <2>2, <2>3 DEF Limits
<1>12. Holds'
  <2>1. UNCHANGED <<step_control, mode>> /\ prep'.current = prep.current /\ (prep'.decel <=> prep.decel)
    BY <1>3, <1>10
  <2>2. pl_block # NULL \/ prep.recalc => prep'.recalc
    BY <1>1, <1>3, UpdateTyped DEF plan_cycle_reinitialize
  <2> QED
    BY <2>1, <2>2 DEF DriveOK, Holds, Holding, Braking
<1> QED
  BY <1>2, <1>10, <1>11, <1>12 DEF DriveOK

(* A line behind a queue that is empty: it will be entered from standstill.*)
LEMMA FirstLine ==
  ASSUME TypeOK, RingOK, NEW shape \in Shapes, BufferLine(shape), Empty
  PROVE  /\ Count' = 1 /\ block_buffer'[tail].entry = 0
         /\ pl_block' = NULL /\ prep' = prep /\ pl_block = NULL /\ ~prep.recalc
         /\ Same(block_buffer'[tail], NewBlock(shape))
<1>1. /\ tail \in Slot /\ head \in Slot /\ planned \in Slot /\ next_head \in Slot
      /\ next_head = plan_next_block_index(head) /\ next_head # tail /\ head = tail
      /\ pl_block = NULL /\ ~prep.recalc
  BY BufferLineIs DEF TypeOK, RingOK, Empty
<1>2. Count' = 1 /\ Last(planned, next_head) = Behind(planned, head)
  <2>1. Count' = Count + 1
    BY BufferLinePlanned
  <2>2. Count = 0
    BY <1>1, BehindFacts DEF Count
  <2> QED
    BY <1>1, <2>1, <2>2, GrowsFacts
<1>3. Buffered(shape) \in Buffers /\ Buffered(shape)[head] = NewBlock(shape)
      /\ NewBlock(shape) \in Blocks /\ NewBlock(shape).max = 0 /\ NewBlock(shape).entry = 0
  BY BufferedTyped DEF NewBlock
<1>4. planner_recalculate(Buffered(shape), planned, next_head)
  BY BufferLineIs
<1>5. ParametersUpdated(Buffered(shape)) = Buffered(shape)
  BY <1>1 DEF ParametersUpdated
<1>6. CASE Last(planned, next_head) = 0
  <2>1. block_buffer' = Buffered(shape) /\ UNCHANGED prepVars
    BY <1>4, <1>6 DEF planner_recalculate
  <2> QED
    BY <1>1, <1>2, <1>3, <2>1 DEF prepVars, Same
<1>7. CASE Last(planned, next_head) # 0
  <2>1. block_buffer' = Recalculated(Buffered(shape), planned, next_head)
        /\ (UNCHANGED prepVars \/ st_update_plan_block_parameters)
    BY <1>4, <1>5, <1>7 DEF planner_recalculate
  <2>2. SlotBehind(planned, Last(planned, next_head)) = head
    BY <1>1, <1>2, BehindFacts
  <2>3. block_buffer'[head].entry = 0
    BY <1>1, <1>3, <1>7, <2>1, <2>2, LastSettled
  <2>4. Same(block_buffer'[head], Buffered(shape)[head])
    BY <1>1, <1>3, <2>1, SameKept
  <2>5. pl_block' = NULL /\ prep' = prep
    BY <1>1, <2>1 DEF prepVars, st_update_plan_block_parameters
  <2> QED
    BY <1>1, <1>2, <1>3, <2>3, <2>4, <2>5
<1> QED
  BY <1>6, <1>7

(* The floor of a queue that a line is added to: the plan it has, and a    *)
(* stop before the line.                                                   *)
LEMMA AddedFloor ==
  ASSUME DriveOK, NEW shape \in Shapes, BufferLine(shape), ~Empty
  PROVE  \E g : /\ FloorAt(g, Buffered(shape), tail, Behind(tail, planned), Count + 1)
                /\ SlowsUpTo(Buffered(shape), tail, Behind(tail, planned), Count + 1, g)
                /\ \A j \in Behind(tail, planned) + 1 .. Count : g[j] = EndOf(j)
<1>1. TypeOK /\ Queued /\ RingOK /\ Chain
  BY BlockFacts DEF DriveOK, PlannerTyped
<1>2. PICK q \in Nat, n \in Nat :
        q = Behind(tail, planned) /\ n = Count /\ q < n /\ n + 1 <= BlockBufferSize - 1
  <2>1. Count + 1 \in 0 .. BlockBufferSize - 1
    <3>1. Count' = Count + 1 /\ TypeOK'
      BY <1>1, BufferLinePlanned, BufferLineTyped DEF DriveOK, PlannerTyped
    <3>2. tail' \in Slot /\ head' \in Slot
      BY <3>1 DEF TypeOK
    <3> QED
      BY <3>1, <3>2, BehindFacts DEF Count
  <2>2. Behind(tail, planned) \in Nat /\ Behind(tail, planned) < Count /\ Count \in Nat
    BY <1>1, BehindFacts DEF TypeOK, Queued
  <2> QED
    BY <2>1, <2>2, SizeAssumption
<1>3. /\ \A j \in 1 .. n : EndOf(j) \in Nat
      /\ EndOf(n) = 0 /\ \A j \in 1 .. n - 1 : EndOf(j) = Block(j).entry
  BY <1>1, <1>2 DEF Queued
<1>4. ASSUME NEW j \in 0 .. n - 1 PROVE At(Buffered(shape), tail, j) = Block(j)
  BY <1>1, <1>2, BufferedTyped DEF Queued, At
<1>5. At(Buffered(shape), tail, n) = NewBlock(shape)
  <2>1. SlotBehind(tail, n) = head
    BY <1>1, <1>2, BehindFacts DEF Count, TypeOK
  <2> QED
    BY <1>1, <2>1, BufferedTyped DEF At
<1>6. NewBlock(shape).entry = 0 /\ NewBlock(shape).max \in Nat /\ NewBlock(shape).dist \in Nat
  BY <1>1, BufferedTyped DEF NewBlock, Blocks
<1>7. PICK g : g = [j \in q + 1 .. n + 1 |-> IF j <= n THEN EndOf(j) ELSE 0]
  OBVIOUS
<1>8. g \in [q + 1 .. n + 1 -> Nat] /\ g[n + 1] = 0
  BY <1>2, <1>3, <1>7
<1>9. \A j \in q + 1 .. n : g[j] = EndOf(j)
  BY <1>2, <1>7
<1>10. ASSUME NEW j \in q + 1 .. (n + 1) - 1
       PROVE  LET b == At(Buffered(shape), tail, j)
              IN /\ g[j] <= b.max /\ g[j] <= g[j + 1] + b.dist
                 /\ b.entry = b.max => g[j] = b.max
  <2>1. CASE j = n
    <3>1. g[j] = 0 /\ g[j + 1] = 0
      BY <1>2, <1>3, <1>8, <1>9, <2>1
    <3> QED
      BY <1>5, <1>6, <2>1, <3>1
  <2>2. CASE j # n
    <3>1. j \in 1 .. n - 1 /\ j \in 0 .. n - 1 /\ j \in q + 1 .. n /\ j + 1 \in q + 1 .. n
      BY <1>2, <2>2
    <3>2. g[j] = Block(j).entry /\ g[j + 1] = EndOf(j + 1)
      BY <1>3, <1>9, <3>1
    <3>3. Block(j).entry <= Block(j).max /\ Block(j).entry <= EndOf(j + 1) + Block(j).dist
      BY <1>1, <1>2, <3>1 DEF Chain
    <3> QED
      BY <1>4, <3>1, <3>2, <3>3
  <2> QED
    BY <2>1, <2>2
<1>11. FloorAt(g, Buffered(shape), tail, q, n + 1)
  BY <1>8, <1>10 DEF FloorAt
<1>12. ASSUME NEW j \in 1 .. q
       PROVE  /\ At(Buffered(shape), tail, j).entry <= At(Buffered(shape), tail, j).max
              /\ j = q => At(Buffered(shape), tail, j).entry
                            <= g[j + 1] + At(Buffered(shape), tail, j).dist
              /\ j # q => At(Buffered(shape), tail, j).entry
                            <= Ahead(Buffered(shape), tail, n + 1, j)
  <2>1. j \in 1 .. n - 1 /\ j \in 0 .. n - 1
    BY <1>2
  <2>2. Block(j).entry <= Block(j).max /\ Block(j).entry <= EndOf(j + 1) + Block(j).dist
    BY <1>1, <1>2, <2>1 DEF Chain
  <2>3. j = q => g[j + 1] = EndOf(j + 1)
    BY <1>2, <1>9
  <2>4. j # q => j + 1 \in 1 .. n - 1 /\ j + 1 \in 0 .. n - 1 /\ j + 1 # n + 1
    BY <1>2
  <2>5. j # q => Ahead(Buffered(shape), tail, n + 1, j) = EndOf(j + 1) + Block(j).dist
    BY <1>3, <1>4, <2>1, <2>4 DEF Ahead, EndAt
  <2> QED
    BY <1>4, <2>1, <2>2, <2>3, <2>5
<1>13. SlowsUpTo(Buffered(shape), tail, q, n + 1, g)
  BY <1>12 DEF SlowsUpTo
<1> QED
  BY <1>2, <1>9, <1>11, <1>13

(* A line behind other ones: the blocks up to the planned one are left as  *)
(* they are, and the generator has to reload its block if the plan starts  *)
(* from it.                                                                *)
AddedLine(shape, current, q, n, g) ==
  /\ q \in Nat /\ q = Behind(tail, planned) /\ n \in Nat /\ n = Count /\ q < n
  /\ FloorAt(g, Buffered(shape), tail, q, n + 1)
  /\ \A j \in q + 1 .. n : g[j] = EndOf(j)
  /\ Count' = n + 1 /\ Chain'
  /\ \A j \in 0 .. n - 1 : Same(At(block_buffer', tail, j), Block(j))
  /\ Same(At(block_buffer', tail, n), NewBlock(shape))
  /\ \A j \in 1 .. q : At(block_buffer', tail, j) = Block(j)
  /\ block_buffer'[tail] = current[tail]
  /\ Recalculation(block_buffer', current, tail, q, n + 1, g)
  /\ MovesTo(block_buffer', tail, q, n + 1, planned')
  /\ \/ st_update_plan_block_parameters /\ current = ParametersUpdated(Buffered(shape))
     \/ UNCHANGED prepVars /\ q # 0 /\ current = Buffered(shape)

LEMMA LineAdded ==
  ASSUME DriveOK, NEW shape \in Shapes, BufferLine(shape), ~Empty
  PROVE  \E current, q, n, g : AddedLine(shape, current, q, n, g)
<1>1. TypeOK /\ Queued /\ RingOK
  BY BlockFacts DEF DriveOK, PlannerTyped
<1>2. /\ tail \in Slot /\ head \in Slot /\ planned \in Slot /\ next_head \in Slot
      /\ next_head = plan_next_block_index(head) /\ next_head # tail
      /\ tail' = tail /\ head' = next_head /\ Behind(tail, planned) < Count
      /\ planner_recalculate(Buffered(shape), planned, next_head)
  BY <1>1, BufferLineIs DEF TypeOK, RingOK
<1>3. PICK q \in Nat, n \in Nat :
        q = Behind(tail, planned) /\ n = Count /\ n + 1 = Behind(tail, next_head)
        /\ Last(planned, next_head) = n - q /\ q < n
  <2>1. Behind(tail, planned) \in Nat /\ Behind(tail, head) \in Nat
    BY <1>2, BehindFacts
  <2> QED
    BY <1>2, <2>1, GrowsFacts DEF Count
<1>4. PICK current : current = IF ReachesTail(planned, next_head)
                                 THEN ParametersUpdated(Buffered(shape)) ELSE Buffered(shape)
  OBVIOUS
<1>5. Buffered(shape) \in Buffers /\ current \in {Buffered(shape), ParametersUpdated(Buffered(shape))}
  BY <1>1, <1>4, BufferedTyped
<1>6. /\ block_buffer' = Recalculated(current, planned, next_head)
      /\ planned' = PlannedUpTo(current, planned, next_head)
      /\ IF ReachesTail(planned, next_head) THEN st_update_plan_block_parameters
         ELSE UNCHANGED prepVars
  BY <1>2, <1>3, <1>4 DEF planner_recalculate
<1>7. PICK g : /\ FloorAt(g, Buffered(shape), tail, q, n + 1)
               /\ SlowsUpTo(Buffered(shape), tail, q, n + 1, g)
               /\ \A j \in q + 1 .. n : g[j] = EndOf(j)
  BY <1>3, AddedFloor
<1>8. q = 0 => ReachesTail(planned, next_head)
  <2>1. q = 0 => planned = tail
    BY <1>2, <1>3, BehindFacts
  <2>2. Behind(tail, tail) = 0
    BY <1>2, BehindFacts
  <2> QED
    BY <1>3, <2>1, <2>2 DEF ReachesTail
<1>9. /\ Chain' /\ Count' = n + 1
      /\ \A j \in 0 .. (n + 1) - 1 : Same(At(block_buffer', tail, j), At(Buffered(shape), tail, j))
      /\ \A j \in 1 .. q : At(block_buffer', tail, j) = At(Buffered(shape), tail, j)
      /\ block_buffer'[tail] = current[tail]
      /\ Recalculation(block_buffer', current, tail, q, n + 1, g)
  <2>1. q < n + 1
    BY <1>3
  <2> QED
    BY <1>1, <1>2, <1>3, <1>5, <1>6, <1>7, <2>1, Replanned
<1>10. \A j \in 0 .. n - 1 : At(Buffered(shape), tail, j) = Block(j)
  BY <1>1, <1>3, BufferedTyped DEF Queued, At
<1>11. At(Buffered(shape), tail, n) = NewBlock(shape)
  <2>1. SlotBehind(tail, n) = head
    BY <1>2, <1>3, BehindFacts DEF Count
  <2> QED
    BY <1>1, <2>1, BufferedTyped DEF At
<1>12. /\ \A j \in 0 .. n - 1 : Same(At(block_buffer', tail, j), Block(j))
       /\ Same(At(block_buffer', tail, n), NewBlock(shape))
       /\ \A j \in 1 .. q : At(block_buffer', tail, j) = Block(j)
  <2>1. \A j \in 0 .. n - 1 : j \in 0 .. (n + 1) - 1
    BY <1>3
  <2>2. n \in 0 .. (n + 1) - 1 /\ \A j \in 1 .. q : j \in 0 .. n - 1
    BY <1>3
  <2> QED
    BY <1>9, <1>10, <1>11, <2>1, <2>2
<1>13. MovesTo(block_buffer', tail, q, n + 1, planned')
  <2>1. FloorAt(g, current, tail, q, n + 1)
    <3>1. ASSUME NEW j \in q + 1 .. n
          PROVE  At(current, tail, j) = At(Buffered(shape), tail, j)
      <4>1. SlotBehind(tail, j) \in Slot /\ SlotBehind(tail, j) # tail
        <5>1. n + 1 \in 0 .. BlockBufferSize - 1
          BY <1>2, <1>3, BehindFacts
        <5>2. j \in 0 .. BlockBufferSize - 1 /\ j # 0
          BY <1>3, <5>1, SizeAssumption
        <5>3. SlotBehind(tail, j) \in Slot /\ Behind(tail, SlotBehind(tail, j)) = j
          BY <1>2, <5>2, SlotFacts
        <5> QED
          BY <1>2, <5>2, <5>3, BehindFacts
      <4> QED
        BY <1>1, <1>5, <4>1, UpdatedFacts DEF At
    <3>2. (n + 1) - 1 = n
      BY <1>3
    <3> QED
      BY <1>7, <3>1, <3>2 DEF FloorAt
  <2>2. current \in Buffers
    BY <1>1, <1>5, UpdatedFacts
  <2>3. q < n + 1
    BY <1>3
  <2> QED
    BY <1>2, <1>3, <1>6, <2>1, <2>2, <2>3, RecalculationFacts
<1>14. \/ st_update_plan_block_parameters /\ current = ParametersUpdated(Buffered(shape))
       \/ UNCHANGED prepVars /\ q # 0 /\ current = Buffered(shape)
  BY <1>4, <1>6, <1>8
<1>15. AddedLine(shape, current, q, n, g)
  BY <1>3, <1>7, <1>9, <1>12, <1>13, <1>14 DEF AddedLine
<1> QED
  BY <1>15

LEMMA NewBlockFacts ==
  ASSUME TypeOK, NEW shape \in Shapes
  PROVE  /\ NewBlock(shape).dist > 0 /\ NewBlock(shape).rate = shape.rate
         /\ NewBlock(shape).max <= NewBlock(shape).junction
         /\ NewBlock(shape).max <= NominalSqr[shape.rate][override]
         /\ NewBlock(shape).max <= prev_nominal
<1>1. shape.dist \in Nat \ {0} /\ shape.junction \in Nat /\ shape.rate \in Rates
  BY ShapesAssumption
<1>2. PICK n \in Nat, p \in Nat, j \in Nat :
        /\ n = NominalSqr[shape.rate][override] /\ p = prev_nominal
        /\ j = IF Empty THEN 0 ELSE shape.junction
  <2>1. NominalSqr[shape.rate][override] \in Nat /\ prev_nominal \in Nat
    BY <1>1, RatesAssumption DEF TypeOK
  <2>2. (IF Empty THEN 0 ELSE shape.junction) \in Nat
    BY <1>1
  <2> QED
    BY <2>1, <2>2
<1>3. PICK m : m = Smaller(j, Smaller(n, p)) /\ m <= j /\ m <= n /\ m <= p
  BY <1>2 DEF Smaller
<1>4. NewBlock(shape) = [dist |-> shape.dist, junction |-> j, rate |-> shape.rate,
                         max |-> m, entry |-> 0]
  BY <1>2, <1>3 DEF NewBlock
<1> QED
  BY <1>1, <1>2, <1>3, <1>4

LEMMA FirstLineDriven ==
  ASSUME DriveOK, TypeOK', NEW shape \in Shapes, BufferLine(shape), Empty
  PROVE  /\ Lengths' /\ Limits' /\ Chain' /\ Stoppable' /\ Speeds' /\ CornerSpeed'
         /\ Holds' /\ ProfileFollowed'
<1>1. TypeOK /\ Queued /\ RingOK /\ TypeOK' /\ Queued'
  BY BlockFacts, BlockFactsNext DEF DriveOK, PlannerTyped
<1>2. /\ Count' = 1 /\ block_buffer'[tail].entry = 0
      /\ pl_block' = NULL /\ prep' = prep /\ pl_block = NULL /\ ~prep.recalc
      /\ Same(block_buffer'[tail], NewBlock(shape))
  BY <1>1, FirstLine
<1>3. /\ UNCHANGED <<tail, override, step_control, mode>> /\ head' = next_head /\ tail # next_head
      /\ prev_nominal' = NominalSqr[shape.rate][override]
  BY BufferLineIs
<1>4. ~Empty' /\ Count = 0 /\ Block(0)' = block_buffer'[tail]
  BY <1>1, <1>3 DEF Empty, Queued
<1>5. prep.current = 0 /\ prep.exit = 0 /\ prep'.current = 0
  BY <1>1, <1>2, <1>4 DEF DriveOK, Stoppable, Speeds, Queued
<1>6. Lengths'
  <2>1. Block(0)'.dist > 0
    BY <1>1, <1>2, <1>4, NewBlockFacts DEF Same
  <2> QED
    BY <1>2, <2>1 DEF Lengths
<1>7. Limits'
  <2>1. Nominal(0)' = NominalSqr[shape.rate][override]
    BY <1>1, <1>2, <1>3, <1>4, NewBlockFacts DEF Nominal, Same
  <2> QED
    BY <1>2, <1>3, <2>1 DEF Limits
<1>8. Chain'
  BY <1>2 DEF Chain
<1>9. Stoppable'
  <2>1. prep'.current = prep.current /\ Count' = Count + 1
    BY <1>2, <1>4
  <2>2. \A j \in 0 .. Count - 1 : Block(j)'.dist = Block(j).dist /\ Block(j)'.junction = Block(j).junction
    BY <1>4
  <2> QED
    BY <1>1, <2>1, <2>2, StoppableKept DEF DriveOK
<1>10. Speeds' /\ CornerSpeed'
  <2>1. Block(0)'.junction \in Nat
    BY <1>1, <1>2 DEF Queued
  <2> QED
    BY <1>2, <1>4, <1>5, <2>1 DEF Speeds, CornerSpeed
<1>11. Holds'
  BY <1>2, <1>3 DEF DriveOK, Holds, Holding, Braking
<1>12. ProfileFollowed'
  BY <1>2 DEF ProfileFollowed
<1> QED
  BY <1>6, <1>7, <1>8, <1>9, <1>10, <1>11, <1>12

LEMMA AddedLineDriven ==
  ASSUME DriveOK, TypeOK', NEW shape \in Shapes, BufferLine(shape), ~Empty
  PROVE  /\ Lengths' /\ Limits' /\ Chain' /\ Stoppable' /\ Speeds' /\ CornerSpeed'
         /\ Holds' /\ ProfileFollowed'
<1>1. TypeOK /\ Queued /\ RingOK /\ Queued'
  BY BlockFacts, BlockFactsNext DEF DriveOK, PlannerTyped
<1>2. PICK current, q, n, g : AddedLine(shape, current, q, n, g)
  BY LineAdded
<1>3. /\ q \in Nat /\ n \in Nat /\ n = Count /\ q < n /\ Count' = n + 1 /\ Chain'
      /\ \A j \in 0 .. n - 1 : Same(At(block_buffer', tail, j), Block(j))
      /\ Same(At(block_buffer', tail, n), NewBlock(shape))
      /\ \A j \in 1 .. q : At(block_buffer', tail, j) = Block(j)
      /\ block_buffer'[tail] = current[tail]
      /\ \/ st_update_plan_block_parameters /\ current = ParametersUpdated(Buffered(shape))
         \/ UNCHANGED prepVars /\ q # 0 /\ current = Buffered(shape)
  BY <1>2 DEF AddedLine
<1>4. /\ UNCHANGED <<tail, override, step_control, mode>> /\ head' = next_head /\ tail # next_head
      /\ prev_nominal' = NominalSqr[shape.rate][override] /\ ~Empty'
      /\ tail \in Slot /\ tail # head
  BY <1>1, BufferLineIs DEF Empty, TypeOK
<1>5. /\ \A j \in 0 .. n - 1 : Same(Block(j)', Block(j))
      /\ Same(Block(n)', NewBlock(shape))
      /\ \A j \in 1 .. q : Block(j)' = Block(j)
  BY <1>3, <1>4 DEF Block, At
<1>6. Buffered(shape)[tail] = block_buffer[tail] /\ Buffered(shape) \in Buffers
  BY <1>1, <1>4, BufferedTyped
<1>7. prep'.current = prep.current /\ (prep'.decel <=> prep.decel)
      /\ (pl_block # NULL \/ prep.recalc => pl_block' # NULL \/ prep'.recalc)
  BY <1>1, <1>3, UpdateTyped DEF prepVars
<1>8. Lengths'
  <2>1. ASSUME NEW j \in 0 .. n PROVE Block(j)'.dist > 0
    <3>1. CASE j = n
      BY <1>1, <1>5, <3>1, NewBlockFacts DEF Same
    <3>2. CASE j # n
      <4>1. j \in 0 .. n - 1
        BY <1>3, <3>2
      <4> QED
        BY <1>3, <1>5, <4>1 DEF Same, DriveOK, Lengths
    <3> QED
      BY <3>1, <3>2
  <2>2. Count' - 1 = n
    BY <1>3
  <2> QED
    BY <2>1, <2>2 DEF Lengths
<1>9. Limits'
  <2>1. ASSUME NEW j \in 0 .. n - 1 PROVE Nominal(j)' = Nominal(j)
    BY <1>3, <1>4, <1>5 DEF Nominal, Same
  <2>2. Nominal(n)' = prev_nominal'
    BY <1>1, <1>4, <1>5, NewBlockFacts DEF Nominal, Same
  <2>3. prev_nominal = Nominal(n - 1) /\ n - 1 \in 0 .. n - 1
    BY <1>3 DEF DriveOK, Limits
  <2>4. ASSUME NEW j \in 1 .. n
        PROVE  /\ Block(j)'.max <= Block(j)'.junction
               /\ Block(j)'.max <= Nominal(j)' /\ Block(j)'.max <= Nominal(j - 1)'
    <3>1. CASE j = n
      <4>1. Block(n)'.max <= Block(n)'.junction /\ Block(n)'.max <= prev_nominal'
            /\ Block(n)'.max <= prev_nominal
        BY <1>1, <1>4, <1>5, NewBlockFacts DEF Same
      <4>2. Nominal(n - 1)' = prev_nominal
        BY <2>1, <2>3
      <4> QED
        BY <2>2, <3>1, <4>1, <4>2
    <3>2. CASE j # n
      <4>1. j \in 1 .. n - 1 /\ j \in 0 .. n - 1 /\ j - 1 \in 0 .. n - 1
        BY <1>3, <3>2
      <4>2. Nominal(j)' = Nominal(j) /\ Nominal(j - 1)' = Nominal(j - 1)
        BY <2>1, <4>1
      <4>3. /\ Block(j).max <= Block(j).junction
            /\ Block(j).max <= Nominal(j) /\ Block(j).max <= Nominal(j - 1)
        BY <1>3, <4>1 DEF DriveOK, Limits
      <4>4. Block(j)'.max = Block(j).max /\ Block(j)'.junction = Block(j).junction
        BY <1>5, <4>1 DEF Same
      <4> QED
        BY <4>2, <4>3, <4>4
    <3> QED
      BY <3>1, <3>2
  <2>5. Count' - 1 = n
    BY <1>3
  <2> QED
    BY <2>2, <2>4, <2>5 DEF Limits
<1>10. Stoppable'
  <2>1. \A j \in 0 .. Count - 1 : Block(j)'.dist = Block(j).dist /\ Block(j)'.junction = Block(j).junction
    BY <1>3, <1>5 DEF Same
  <2> QED
    BY <1>1, <1>3, <1>7, <2>1, StoppableKept DEF DriveOK
<1>11. Holds'
  BY <1>4, <1>7 DEF DriveOK, Holds, Holding, Braking
<1>12. Speeds' /\ CornerSpeed' /\ ProfileFollowed'
  <2>1. CASE st_update_plan_block_parameters /\ current = ParametersUpdated(Buffered(shape))
    <3>1. Same(current[tail], Buffered(shape)[tail])
          /\ (pl_block # NULL => current[tail].entry = prep.current)
          /\ (pl_block = NULL => current[tail] = Buffered(shape)[tail])
      BY <1>1, <1>4, <1>6, <2>1, UpdatedFacts
    <3>2. block_buffer'[tail].junction = block_buffer[tail].junction
          /\ block_buffer'[tail].entry = IF pl_block = NULL THEN block_buffer[tail].entry ELSE prep.current
      BY <1>3, <1>6, <3>1 DEF Same
    <3>3. ~Braking' => ~Braking
      BY <1>4 DEF Braking
    <3> QED
      BY <1>1, <1>4, <2>1, <3>2, <3>3, GivenBack
  <2>2. CASE UNCHANGED prepVars /\ q # 0 /\ current = Buffered(shape)
    <3>1. Block(0)' = Block(0)
      BY <1>1, <1>3, <1>4, <1>6, <2>2 DEF Queued
    <3>2. EndOf(1)' = EndOf(1)
      <4>1. 1 \in 1 .. q /\ 1 \in 1 .. n - 1 /\ 1 \in 1 .. Count' - 1 /\ 1 \in 1 .. Count - 1
        BY <1>3, <2>2
      <4>2. EndOf(1)' = Block(1)'.entry /\ EndOf(1) = Block(1).entry
        BY <1>1, <4>1 DEF Queued
      <4> QED
        BY <1>5, <4>1, <4>2
    <3>3. UNCHANGED <<pl_block, prep, profile>>
      BY <2>2 DEF prepVars
    <3>4. Speeds'
      BY <1>4, <3>1, <3>3 DEF DriveOK, Speeds, Braking
    <3>5. CornerSpeed'
      BY <1>4, <3>1, <3>3 DEF DriveOK, CornerSpeed
    <3>6. ProfileFollowed'
      BY <1>4, <3>1, <3>2, <3>3
         DEF DriveOK, ProfileFollowed, Followed, Held, Slowed, Keeps, Holding, Braking
    <3> QED
      BY <3>4, <3>5, <3>6
  <2> QED
    BY <1>3, <2>1, <2>2
<1> QED
  BY <1>3, <1>8, <1>9, <1>10, <1>11, <1>12

LEMMA BufferLineDriven ==
  ASSUME DriveOK, NEW shape \in Shapes, BufferLine(shape)
  PROVE  DriveOK'
<1>1. PlannerTyped' /\ TypeOK'
  BY BufferLineTyped DEF DriveOK, PlannerTyped
<1> QED
  BY <1>1, FirstLineDriven, AddedLineDriven DEF DriveOK

LEMMA HoldBeginDriven ==
  ASSUME DriveOK, HoldBegin
  PROVE  DriveOK'
<1>1. TypeOK /\ Queued /\ PlannerTyped /\ RingOK
  BY BlockFacts DEF DriveOK, PlannerTyped
<1>2. PlannerTyped' /\ TypeOK' /\ Queued'
  BY <1>1, HoldBeginTyped, BlockFactsNext DEF PlannerTyped
<1>3. /\ mode' \in {"hold", "cancel"} /\ step_control' = {"EXECUTE_HOLD"}
      /\ block_buffer' = ParametersUpdated(block_buffer)
      /\ st_update_plan_block_parameters
      /\ UNCHANGED <<tail, head, next_head, planned, prev_nominal, override, lines>>
  BY DEF HoldBegin
<1>4. Count' = Count /\ (Empty' <=> Empty) /\ tail \in Slot /\ block_buffer \in Buffers
  BY <1>1, <1>3, Typed DEF Count, Empty
<1>5. /\ \A i \in Slot : Same(block_buffer'[i], block_buffer[i])
      /\ \A i \in Slot \ {tail} : block_buffer'[i] = block_buffer[i]
      /\ pl_block # NULL => block_buffer'[tail].entry = prep.current
      /\ pl_block = NULL => block_buffer' = block_buffer
  BY <1>1, <1>3, <1>4, UpdatedFacts
<1>6. \A j \in 0 .. Count - 1 : Same(Block(j)', Block(j)) /\ (j # 0 => Block(j)' = Block(j))
  BY <1>1, <1>3, <1>5 DEF Queued, Block
<1>7. prep'.current = prep.current
  BY <1>1, <1>3, UpdateTyped
<1>8. Lengths'
  BY <1>4, <1>6 DEF Lengths, DriveOK, Same
<1>9. Limits'
  BY <1>1, <1>3, <1>4, <1>6, LimitsKept DEF DriveOK, Same
<1>10. Chain'
  <2>1. ASSUME NEW j \in 1 .. Count - 1
        PROVE  Block(j)'.entry <= Block(j)'.max /\ Block(j)'.entry <= EndOf(j + 1)' + Block(j)'.dist
    <3>1. j \in 0 .. Count - 1 /\ j # 0 /\ (j + 1 # Count => j + 1 \in 0 .. Count - 1)
          /\ (j + 1 # Count => j + 1 # 0)
      BY <1>1 DEF Queued
    <3>2. Block(j)' = Block(j) /\ (j + 1 # Count => Block(j + 1)' = Block(j + 1))
      BY <1>6, <3>1
    <3>3. EndOf(j + 1)' = EndOf(j + 1)
      BY <1>1, <1>2, <1>4, <3>1, <3>2 DEF EndOf, EndAt, Block, At
    <3> QED
      BY <3>2, <3>3 DEF DriveOK, Chain
  <2> QED
    BY <1>4, <2>1 DEF Chain
<1>11. Stoppable'
  BY <1>1, <1>2, <1>4, <1>6, <1>7, StoppableKept DEF DriveOK, Same
<1>12. Speeds' /\ CornerSpeed' /\ ProfileFollowed'
  <2>1. block_buffer'[tail].junction = block_buffer[tail].junction
        /\ block_buffer'[tail].entry = IF pl_block = NULL THEN block_buffer[tail].entry ELSE prep.current
    BY <1>4, <1>5 DEF Same
  <2>2. Braking'
    BY <1>3 DEF Braking
  <2> QED
    BY <1>1, <1>2, <1>3, <1>4, <2>1, <2>2, GivenBack
<1>13. Holds'
  BY <1>3 DEF Holds, Holding, Braking
<1> QED
  BY <1>2, <1>8, <1>9, <1>10, <1>11, <1>12, <1>13 DEF DriveOK

LEMMA ResetDriven ==
  ASSUME DriveOK, ResetBuffers, override' \in Overrides,
         step_control' \subseteq {"EXECUTE_HOLD", "END_MOTION"}, mode' = "idle"
  PROVE  DriveOK'
<1>1. PlannerTyped' /\ TypeOK' /\ Queued'
  BY ResetTyped, BlockFactsNext DEF DriveOK, PlannerTyped
<1>2. /\ Empty' /\ pl_block' = NULL /\ ~prep'.recalc /\ ~prep'.decel
      /\ prep'.current = 0 /\ prep'.exit = 0
  BY DEF ResetBuffers, NotPrepared, Empty
<1>3. Count' = 0
  BY <1>1, <1>2 DEF Queued
<1>4. Lengths' /\ Limits' /\ Chain' /\ Stoppable'
  BY <1>2, <1>3 DEF Lengths, Limits, Chain, Stoppable
<1>5. Speeds' /\ CornerSpeed' /\ ProfileFollowed' /\ Holds'
  BY <1>2 DEF Speeds, CornerSpeed, ProfileFollowed, Holds, Braking
<1> QED
  BY <1>1, <1>4, <1>5 DEF DriveOK

(* Steps that leave planner and generator alone, outside holds.            *)
LEMMA OthersDriven ==
  ASSUME DriveOK, UNCHANGED <<ringVars, prepVars, override, lines>>,
         step_control' \in {step_control, {}}, mode' \in {"idle", "cycle", "hold", "cancel", "held"},
         UNCHANGED <<step_control, mode>> \/ (~Braking /\ ~Braking')
  PROVE  DriveOK'
<1>1. PlannerTyped' /\ TypeOK
  BY OthersTyped DEF DriveOK, PlannerTyped, TypeOK
<1>2. /\ UNCHANGED <<block_buffer, tail, head, planned, prev_nominal, pl_block, prep, profile, override>>
  BY DEF ringVars, prepVars
<1>3. Lengths' /\ Limits' /\ Chain'
  BY <1>2 DEF DriveOK, Lengths, Limits, Chain, Block, EndOf, EndAt, At, Count, Empty, Nominal
<1>4. Stoppable' /\ CornerSpeed'
  BY <1>2 DEF DriveOK, Stoppable, Brakes, CornerSpeed, Block, Count, Empty
<1>5. Braking' <=> Braking
  BY DEF Braking
<1>6. Holding' => Holding
  BY DEF Holding
<1>7. Speeds'
  BY <1>2, <1>5 DEF DriveOK, Speeds, Block, Empty
<1>8. Holds'
  BY <1>2, <1>5, <1>6 DEF DriveOK, Holds, Braking, Holding
<1>9. ProfileFollowed'
  <2>1. Block(0)' = Block(0) /\ EndOf(1)' = EndOf(1)
    BY <1>2 DEF Block, EndOf, EndAt, At, Count
  <2> QED
    BY <1>2, <1>5, <1>6, <2>1 DEF DriveOK, ProfileFollowed, Followed, Held, Slowed, Keeps
<1> QED
  BY <1>1, <1>3, <1>4, <1>7, <1>8, <1>9 DEF DriveOK

LEMMA ExitSpeedIs ==
  ASSUME TypeOK, ~Empty
  PROVE  plan_get_exec_block_exit_speed_sqr = EndOf(1)
<1>1. tail \in Slot /\ head \in Slot /\ Queued /\ Count \in 0 .. BlockBufferSize - 1
  BY BlockFacts, Typed DEF TypeOK
<1>2. 0 \in 0 .. BlockBufferSize - 2 /\ 1 \in 0 .. BlockBufferSize - 1
  BY SizeAssumption
<1>3. plan_next_block_index(tail) = SlotBehind(tail, 0 + 1) /\ SlotBehind(tail, 0) = tail
  BY <1>1, <1>2, RingFacts
<1>4. 0 + 1 = 1
  OBVIOUS
<1>5. PICK i : i = plan_next_block_index(tail) /\ i = SlotBehind(tail, 1)
  BY <1>3, <1>4
<1>6. i = head <=> Count = 1
  <2>1. Behind(tail, i) = 1
    BY <1>1, <1>2, <1>5, SlotFacts
  <2>2. SlotBehind(tail, Count) = head
    BY <1>1, BehindFacts DEF Count
  <2> QED
    BY <1>5, <2>1, <2>2 DEF Count
<1> QED
  BY <1>5, <1>6 DEF plan_get_exec_block_exit_speed_sqr, EndOf, EndAt, At

(* A block is taken up at the speed that the machine has.                  *)
LEMMA SegmentSpeedIs ==
  ASSUME DriveOK, ~Empty
  PROVE  SegmentSpeed = prep.current
<1>1. TypeOK /\ Queued
  BY BlockFacts DEF DriveOK, PlannerTyped
<1>2. Block(0) = block_buffer[tail]
  BY <1>1 DEF Queued
<1>3. CASE pl_block # NULL
  BY <1>3 DEF SegmentSpeed
<1>4. CASE pl_block = NULL /\ prep.recalc
  BY <1>2, <1>4 DEF SegmentSpeed, LoadSpeed, DriveOK, Speeds
<1>5. CASE pl_block = NULL /\ ~prep.recalc /\ (Holding \/ prep.decel)
  BY <1>5 DEF SegmentSpeed, LoadSpeed, DriveOK, Speeds
<1>6. CASE pl_block = NULL /\ ~prep.recalc /\ ~Holding /\ ~prep.decel
  <2>1. ~Braking
    BY <1>6 DEF DriveOK, Holds
  <2> QED
    BY <1>1, <1>2, <1>6, <2>1 DEF SegmentSpeed, LoadSpeed, DriveOK, Speeds
<1> QED
  BY <1>3, <1>4, <1>5, <1>6

LEMMA ProfileIsFollowed ==
  ASSUME DriveOK, Prepping
  PROVE  /\ Profile \in Profiles /\ prep.current \in Nat /\ Block(0).dist \in Nat /\ Block(0).dist > 0
         /\ Formed(Profile, prep.current, Block(0).dist)
         /\ Followed(Profile, prep.current, Block(0).dist)
<1>1. TypeOK /\ Queued /\ ~Empty /\ PlannerTyped
  BY BlockFacts DEF DriveOK, PlannerTyped, Prepping
<1>2. Block(0) = block_buffer[tail] /\ Count \in Nat /\ Count # 0 /\ 0 \in 0 .. Count - 1
  BY <1>1 DEF Queued
<1>3. /\ Profile \in Profiles /\ prep.current \in Nat /\ Block(0).dist \in Nat
      /\ Formed(Profile, prep.current, Block(0).dist)
  BY <1>1, <1>2, ProfileTyped, SegmentSpeedIs
<1>4. Block(0).dist > 0
  BY <1>2 DEF DriveOK, Lengths
<1>5. CASE pl_block # NULL
  BY <1>3, <1>4, <1>5 DEF Profile, DriveOK, ProfileFollowed
<1>6. CASE pl_block = NULL
  <2>1. PICK v \in Nat, d \in Nat, n \in Nat, x \in Nat :
          /\ v = prep.current /\ d = Block(0).dist /\ d > 0
          /\ n = Nominal(0) /\ x = EndOf(1)
    BY <1>1, <1>2, <1>3, <1>4 DEF Queued
  <2>2. /\ v = LoadSpeed /\ d = block_buffer[tail].dist
        /\ n = NominalSqr[block_buffer[tail].rate][override]
        /\ x = plan_get_exec_block_exit_speed_sqr
    BY <1>1, <1>2, <1>6, <2>1, SegmentSpeedIs, ExitSpeedIs DEF SegmentSpeed, Nominal
  <2>3. x <= n
    <3>1. CASE Count = 1
      BY <1>1, <2>1, <3>1 DEF Queued
    <3>2. CASE Count # 1
      <4>1. 1 \in 1 .. Count - 1 /\ 1 \in 0 .. Count - 1
        BY <1>2, <3>2
      <4>2. EndOf(1) = Block(1).entry /\ Block(1).entry <= Block(1).max /\ Block(1).max <= Nominal(1 - 1)
            /\ Block(1).max \in Nat
        BY <1>1, <4>1 DEF DriveOK, Chain, Limits, Queued
      <4> QED
        BY <2>1, <4>2
    <3> QED
      BY <3>1, <3>2
  <2>4. CASE Holding
    <3>1. Profile = HoldProfile(v, d)
      BY <1>6, <2>2, <2>4 DEF Profile
    <3>2. HoldForm(Profile, v, d) /\ Profile.complete <= d /\ Profile.complete \in Nat /\ Profile.exit \in Nat
      BY <1>3, <3>1, HoldProfileFacts DEF Profiles
    <3>3. ~Braking => v = 0
      BY <2>1, <2>4 DEF DriveOK, Holds
    <3>4. ~Braking => Profile.complete = d
      BY <3>2, <3>3 DEF HoldForm
    <3> QED
      BY <1>3, <1>4, <2>1, <3>2, <3>3, <3>4 DEF Followed, Held
  <2>5. CASE ~Holding /\ v > n
    <3>1. Profile = OverrideProfile(v, d, n, x)
      BY <1>6, <2>2, <2>5 DEF Profile
    <3>2. \/ SlowForm(Profile, v, d)
          \/ PlanForm(Profile, v, d) /\ Profile.exit = x /\ Profile.ramp = "OVERRIDE" /\ Profile.nominal = n
      BY <2>5, <3>1, OverrideProfileFacts
    <3> QED
      BY <1>3, <1>4, <2>1, <2>3, <2>5, <3>2 DEF Followed, Slowed, Keeps
  <2>6. CASE ~Holding /\ ~(v > n)
    <3>1. Profile = NormalProfile(v, d, n, x)
      BY <1>6, <2>2, <2>6 DEF Profile
    <3>2. /\ PlanForm(Profile, v, d) /\ Profile.exit = x
          /\ \/ Profile.ramp = "ACCEL"
             \/ Profile.ramp = "DECEL"
             \/ Profile.ramp = "TRAPEZOID" /\ Profile.nominal = n
      BY <3>1, NormalProfileFacts
    <3>3. Profile.ramp \in {"TRAPEZOID", "OVERRIDE"} => Profile.nominal >= Profile.exit
      BY <2>1, <2>3, <3>2
    <3> QED
      BY <1>3, <1>4, <2>1, <2>6, <3>2, <3>3 DEF Followed, Keeps
  <2> QED
    BY <2>4, <2>5, <2>6
<1> QED
  BY <1>5, <1>6

(* The speed w at distance r from the end: the machine has slowed down on  *)
(* the way, or it is slow enough for what is planned; the profile ends at  *)
(* its exit speed.                                                         *)
LEMMA SpeedFacts ==
  ASSUME NEW p \in Profiles, NEW v \in Nat, NEW d \in Nat, d > 0, Followed(p, v, d),
         NEW r \in p.complete .. d, r = p.complete \/ p.ramp # "DECEL" \/ v > d - r,
         EndOf(1) \in Nat
  PROVE  LET w == SpeedAt(p, v, d, r)
         IN /\ w \in Nat
            /\ \/ w + (d - r) <= v
               \/ Keeps(p, v, d) /\ w <= EndOf(1) + r
            /\ r = p.complete => w = p.exit
            /\ Followed(p, w, r)
<1>1. p.complete \in Nat /\ p.exit \in Nat /\ p.nominal \in Nat /\ p.until \in Nat /\ r \in Nat /\ r <= d
  BY DEF Profiles
<1>2. Formed(p, v, d)
  BY DEF Followed, Held, Slowed, Keeps, Formed
<1>3. PICK w \in Nat :
        /\ w = SpeedAt(p, v, d, r)
        /\ HoldForm(p, v, d) => HoldForm(p, w, r)
        /\ SlowForm(p, v, d) => SlowForm(p, w, r)
        /\ PlanForm(p, v, d) => PlanForm(p, w, r)
  BY <1>2, SpeedAtTyped
<1>4. ASSUME p.ramp = "DECEL", v >= (d - r) + (IF r = p.complete THEN p.exit ELSE 0)
      PROVE  (r = p.complete => w = p.exit) /\ w + (d - r) <= v
  <2>1. w = IF r = p.complete THEN p.exit ELSE v - (d - r)
    BY <1>3, <1>4 DEF SpeedAt
  <2> QED
    BY <1>1, <1>4, <2>1
<1>5. CASE Held(p, v, d)
  <2>1. p.ramp = "DECEL" /\ v + p.complete = d + p.exit /\ HoldForm(p, v, d)
        /\ (~Braking => v = 0 /\ p.complete = d)
    BY <1>5 DEF Held, HoldForm
  <2>2. v >= (d - r) + (IF r = p.complete THEN p.exit ELSE 0)
    BY <1>1, <2>1
  <2>3. w + (d - r) <= v /\ (r = p.complete => w = p.exit)
    BY <1>4, <2>1, <2>2
  <2>4. Held(p, w, r)
    <3>1. ~Braking => w = 0 /\ p.complete = r
      BY <1>1, <2>1, <2>3
    <3> QED
      BY <1>3, <2>1, <3>1 DEF Held
  <2> QED
    BY <1>3, <2>3, <2>4 DEF Followed
<1>6. CASE Slowed(p, v, d)
  <2>1. p.ramp = "DECEL" /\ p.complete = 0 /\ v = d + p.exit /\ SlowForm(p, v, d) /\ ~Holding
    BY <1>6 DEF Slowed, SlowForm
  <2>2. v >= (d - r) + (IF r = p.complete THEN p.exit ELSE 0)
    BY <1>1, <2>1
  <2>3. w + (d - r) <= v /\ (r = p.complete => w = p.exit)
    BY <1>1, <1>4, <2>1, <2>2
  <2>4. Slowed(p, w, r)
    BY <1>3, <2>1 DEF Slowed
  <2> QED
    BY <1>3, <2>3, <2>4 DEF Followed
<1>7. CASE Keeps(p, v, d)
  <2>1. /\ PlanForm(p, v, d) /\ p.exit = EndOf(1) /\ p.complete = 0
        /\ p.ramp \in {"TRAPEZOID", "OVERRIDE"} => p.nominal >= p.exit
    BY <1>7 DEF Keeps, PlanForm
  <2>2. Keeps(p, w, r)
    BY <1>3, <1>7, <2>1 DEF Keeps
  <2>3. (w + (d - r) <= v \/ w <= p.exit + r) /\ (r = p.complete => w = p.exit)
    <3>1. CASE p.ramp = "ACCEL" /\ v + d <= p.exit
      <4>1. w = IF r = p.complete THEN p.exit ELSE v + (d - r)
        BY <1>3, <3>1 DEF SpeedAt
      <4> QED
        BY <1>1, <3>1, <4>1
    <3>2. CASE p.ramp = "DECEL" /\ v >= d + p.exit
      <4>1. w = IF r = p.complete THEN p.exit ELSE v - (d - r)
        BY <1>3, <3>2 DEF SpeedAt
      <4> QED
        BY <1>1, <2>1, <3>2, <4>1
    <3>3. CASE p.ramp = "TRAPEZOID" /\ (p.nominal >= p.exit => v + d >= p.exit)
      <4>1. w = Smaller(v + (d - r), Smaller(p.nominal, p.exit + r))
        BY <1>3, <3>3 DEF SpeedAt
      <4>2. p.nominal >= p.exit
        BY <2>1, <3>3
      <4> QED
        BY <1>1, <2>1, <3>3, <4>1, <4>2 DEF Smaller
    <3>4. CASE p.ramp = "OVERRIDE" /\ p.until > 0 /\ (d >= p.until => v + p.until = p.nominal + d)
      <4>1. w = IF r >= p.until THEN v - (d - r) ELSE Smaller(p.nominal, p.exit + r)
        BY <1>3, <3>4 DEF SpeedAt
      <4>2. p.nominal >= p.exit
        BY <2>1, <3>4
      <4> QED
        BY <1>1, <2>1, <3>4, <4>1, <4>2 DEF Smaller
    <3> QED
      BY <2>1, <3>1, <3>2, <3>3, <3>4 DEF PlanForm
  <2> QED
    BY <1>3, <1>7, <2>1, <2>2, <2>3 DEF Followed
<1> QED
  BY <1>5, <1>6, <1>7 DEF Followed

(* What a segment of the first block leaves: r of it, and the speed w.     *)
SegmentCut(r, n, p, v, d, w) ==
  /\ n \in Nat /\ n = Count /\ n > 0
  /\ p \in Profiles /\ p = Profile /\ v \in Nat /\ v = prep.current
  /\ d \in Nat /\ d = Block(0).dist /\ d > 0 /\ r \in Nat /\ r \in p.complete .. d
  /\ Followed(p, v, d) /\ Followed(p, w, r)
  /\ w \in Nat /\ w = prep'.current /\ w = SpeedAt(p, v, d, r)
  /\ w + (d - r) <= v \/ (Keeps(p, v, d) /\ w <= EndOf(1) + r)
  /\ r = p.complete => w = p.exit
  /\ prep'.exit = p.exit /\ (prep'.decel <=> p.decel) /\ ~prep'.recalc
  /\ "END_MOTION" \notin step_control
  /\ UNCHANGED <<head, prev_nominal, override, mode>>
  /\ \A j \in 1 .. n - 1 : At(block_buffer', tail, j) = Block(j)
  /\ Same(block_buffer'[tail], [block_buffer[tail] EXCEPT !.dist = r])
  /\ block_buffer'[tail].entry = IF pl_block = NULL THEN v ELSE block_buffer[tail].entry
  /\ r = 0 => /\ pl_block' = NULL /\ plan_discard_current_block /\ UNCHANGED step_control
              /\ Count' = n - 1
              /\ \A j \in 0 .. n - 2 : Block(j)' = Block(j + 1)
  /\ r # 0 => /\ pl_block' = tail /\ profile' = p /\ UNCHANGED <<tail, planned>>
              /\ step_control' = IF r = p.complete
                                   THEN step_control \cup {"END_MOTION"} ELSE step_control
              /\ Count' = n
              /\ \A j \in 1 .. n - 1 : Block(j)' = Block(j)
              /\ Block(0)' = block_buffer'[tail]

LEMMA PrepSegmentCuts ==
  ASSUME DriveOK, NEW r, PrepSegment(r)
  PROVE  \E n, p, v, d, w : SegmentCut(r, n, p, v, d, w)
<1>1. TypeOK /\ Queued /\ PlannerTyped /\ Prepping /\ ~Empty
  BY BlockFacts, PrepSegmentIs DEF DriveOK, PlannerTyped, Prepping
<1>2. PICK n \in Nat : n = Count /\ n > 0
  BY <1>1 DEF Queued
<1>3. PICK p \in Profiles, v \in Nat, d \in Nat :
        /\ p = Profile /\ v = prep.current /\ d = Block(0).dist /\ d > 0
        /\ Formed(p, v, d) /\ Followed(p, v, d)
  BY <1>1, ProfileIsFollowed
<1>4. v = SegmentSpeed /\ Block(0) = block_buffer[tail] /\ tail \in Slot /\ block_buffer[tail] \in Blocks
  BY <1>1, <1>3, SegmentSpeedIs, Typed DEF Queued
<1>5. /\ r \in p.complete .. d /\ (r = p.complete \/ p.ramp # "DECEL" \/ v > d - r)
      /\ UNCHANGED <<head, prev_nominal, override, mode>>
      /\ r = 0 => /\ pl_block' = NULL /\ plan_discard_current_block /\ UNCHANGED step_control
      /\ r # 0 => /\ pl_block' = tail /\ profile' = p /\ UNCHANGED <<tail, planned>>
                  /\ step_control' = IF r = p.complete
                                       THEN step_control \cup {"END_MOTION"} ELSE step_control
  <2>1. /\ r \in Profile.complete .. block_buffer[tail].dist
        /\ r = Profile.complete \/ Profile.ramp # "DECEL" \/ SegmentSpeed > block_buffer[tail].dist - r
    BY PrepSegmentIs
  <2>2. /\ UNCHANGED <<head, prev_nominal, override, mode>>
        /\ r = 0 => /\ pl_block' = NULL /\ plan_discard_current_block /\ UNCHANGED step_control
        /\ r # 0 => /\ pl_block' = tail /\ profile' = Profile /\ UNCHANGED <<tail, planned>>
                    /\ step_control' = IF r = Profile.complete
                                         THEN step_control \cup {"END_MOTION"} ELSE step_control
    BY PrepSegmentIs
  <2> QED
    BY <1>3, <1>4, <2>1, <2>2
<1>6. PICK w : w = prep'.current
  OBVIOUS
<1>7. /\ w = SpeedAt(p, v, d, r) /\ prep'.exit = p.exit /\ (prep'.decel <=> p.decel) /\ ~prep'.recalc
  BY <1>1, <1>3, <1>4, <1>6, SegmentFormed
<1>8. EndOf(1) \in Nat
  BY <1>1, <1>2 DEF Queued
<1>9. /\ w \in Nat /\ Followed(p, w, r) /\ (r = p.complete => w = p.exit)
      /\ w + (d - r) <= v \/ (Keeps(p, v, d) /\ w <= EndOf(1) + r)
  BY <1>3, <1>5, <1>7, <1>8, SpeedFacts
<1>10. /\ r \in Nat /\ block_buffer'[tail].dist = r
       /\ block_buffer'[tail].entry = IF pl_block = NULL THEN v ELSE block_buffer[tail].entry
       /\ block_buffer'[tail].rate = block_buffer[tail].rate
       /\ block_buffer'[tail].junction = block_buffer[tail].junction
       /\ block_buffer'[tail].max = block_buffer[tail].max
       /\ \A i \in Slot \ {tail} : block_buffer'[i] = block_buffer[i]
  BY <1>1, <1>4, CutFacts
<1>11. Same(block_buffer'[tail], [block_buffer[tail] EXCEPT !.dist = r])
  BY <1>4, <1>10 DEF Same, Blocks
<1>12. \A j \in 1 .. n - 1 : At(block_buffer', tail, j) = Block(j)
  <2> TAKE j \in 1 .. n - 1
  <2>1. j \in 0 .. n - 1 /\ j # 0
    BY <1>2
  <2>2. SlotBehind(tail, j) \in Slot \ {tail}
    BY <1>1, <1>2, <2>1 DEF Queued
  <2> QED
    BY <1>10, <2>2 DEF At, Block
<1>13. ASSUME r = 0
       PROVE  Count' = n - 1 /\ \A j \in 0 .. n - 2 : Block(j)' = Block(j + 1)
  <2>1. Count' = n - 1 /\ tail' = plan_next_block_index(tail)
    BY <1>1, <1>2, <1>5, <1>13, DiscardFacts DEF plan_discard_current_block
  <2>2. ASSUME NEW j \in 0 .. n - 2 PROVE Block(j)' = Block(j + 1)
    <3>1. n <= BlockBufferSize - 1
      BY <1>1, <1>2, Typed
    <3>2. j \in 0 .. BlockBufferSize - 2 /\ j + 1 \in 1 .. n - 1
      BY <3>1, SizeAssumption
    <3>3. SlotBehind(tail', j) = SlotBehind(tail, j + 1)
      BY <1>4, <2>1, <3>2, RingFacts
    <3>4. At(block_buffer', tail, j + 1) = Block(j + 1)
      BY <1>12, <3>2
    <3> QED
      BY <3>3, <3>4 DEF At, Block
  <2> QED
    BY <2>1, <2>2
<1>14. ASSUME r # 0
       PROVE  /\ Count' = n /\ Block(0)' = block_buffer'[tail]
              /\ \A j \in 1 .. n - 1 : Block(j)' = Block(j)
  <2>1. tail' = tail /\ head' = head /\ SlotBehind(tail, 0) = tail
    BY <1>4, <1>5, <1>14, RingFacts
  <2> QED
    BY <1>2, <1>12, <2>1 DEF Count, Block, At
<1>15. "END_MOTION" \notin step_control
  BY <1>1 DEF Prepping
<1>16. SegmentCut(r, n, p, v, d, w)
  BY <1>2, <1>3, <1>5, <1>6, <1>7, <1>9, <1>10, <1>11, <1>12, <1>13, <1>14, <1>15 DEF SegmentCut
<1> QED
  BY <1>16

(* Behind the segment the machine can still stop in time: it has slowed    *)
(* down all the way, or it is slow enough for what is planned.             *)
LEMMA BrakesAhead ==
  ASSUME DriveOK, NEW r, NEW n, NEW p, NEW v, NEW d, NEW w, SegmentCut(r, n, p, v, d, w)
  PROVE  \E g : Brakes(g) /\ g[1] \in Nat /\ w <= g[1] + r
<1>1. /\ TypeOK /\ Queued /\ Count \in Nat /\ Count > 0 /\ ~Empty /\ 1 \in 1 .. Count
      /\ v \in Nat /\ d \in Nat /\ d > 0 /\ r \in Nat /\ w \in Nat
      /\ v = prep.current /\ d = Block(0).dist
      /\ w + (d - r) <= v \/ w <= EndOf(1) + r
  BY BlockFacts DEF SegmentCut, DriveOK, PlannerTyped, Queued
<1>2. CASE w + (d - r) <= v
  <2>1. PICK g : Brakes(g) /\ v <= g[1] + d
    BY <1>1 DEF DriveOK, Stoppable
  <2>2. PICK x \in Nat : x = g[1]
    BY <1>1, <2>1 DEF Brakes
  <2>3. w <= x + r
    BY <1>1, <1>2, <2>1, <2>2
  <2> QED
    BY <2>1, <2>2, <2>3
<1>3. CASE w <= EndOf(1) + r
  <2>1. PICK g : g = [j \in 1 .. Count |-> EndOf(j)]
    OBVIOUS
  <2>2. g \in [1 .. Count -> Nat] /\ g[Count] = 0 /\ g[1] = EndOf(1)
    BY <1>1, <2>1 DEF Queued
  <2>3. ASSUME NEW j \in 1 .. Count - 1
        PROVE  g[j] <= Block(j).junction /\ g[j] <= g[j + 1] + Block(j).dist
    <3>1. j \in 1 .. Count /\ j + 1 \in 1 .. Count /\ j \in 0 .. Count - 1
      BY <1>1
    <3>2. g[j] = Block(j).entry /\ g[j + 1] = EndOf(j + 1)
      BY <1>1, <2>1, <3>1 DEF Queued
    <3>3. Block(j).entry \in Nat /\ Block(j).max \in Nat /\ Block(j).junction \in Nat
      BY <1>1, <3>1 DEF Queued
    <3>4. /\ Block(j).entry <= Block(j).max /\ Block(j).max <= Block(j).junction
          /\ Block(j).entry <= EndOf(j + 1) + Block(j).dist
      BY DEF DriveOK, Chain, Limits
    <3> QED
      BY <3>2, <3>3, <3>4
  <2>4. Brakes(g)
    BY <2>2, <2>3 DEF Brakes
  <2> QED
    BY <1>1, <1>3, <2>2, <2>4
<1> QED
  BY <1>1, <1>2, <1>3

(* What holds of every segment.                                            *)
LEMMA SegmentFacts ==
  ASSUME DriveOK, NEW r, NEW n, NEW p, NEW v, NEW d, NEW w, SegmentCut(r, n, p, v, d, w)
  PROVE  /\ Braking' <=> Braking
         /\ Holding' <=> Holding
         /\ Braking => Holding
         /\ r = p.complete /\ r # 0 => w = 0
         /\ Holding => Held(p, v, d) /\ Held(p, w, r)
         /\ Holding /\ ~Braking => w = 0 /\ ~p.decel
         /\ p.complete \in Nat /\ p.exit \in Nat
<1>1. /\ p \in Profiles /\ UNCHANGED mode
      /\ Followed(p, v, d) /\ Followed(p, w, r) /\ (r = p.complete => w = p.exit)
      /\ step_control' \in {step_control, step_control \cup {"END_MOTION"}}
  BY DEF SegmentCut
<1>2. Braking' <=> Braking
  BY <1>1 DEF Braking
<1>3. Holding' <=> Holding
  BY <1>1 DEF Holding
<1>4. Braking => Holding
  BY DEF DriveOK, Holds
<1>5. p.complete \in Nat /\ p.exit \in Nat
  BY <1>1 DEF Profiles
<1>6. ASSUME r = p.complete, r # 0 PROVE w = 0
  <2>1. p.complete # 0
    BY <1>6
  <2>2. HoldForm(p, v, d)
    BY <1>1, <2>1 DEF Followed, Held, Slowed, Keeps, SlowForm, PlanForm
  <2> QED
    BY <1>1, <1>6, <2>1, <2>2 DEF HoldForm
<1>7. ASSUME Holding PROVE Held(p, v, d) /\ Held(p, w, r)
  BY <1>1, <1>7 DEF Followed, Slowed, Keeps
<1>8. ASSUME Holding, ~Braking PROVE w = 0 /\ ~p.decel
  BY <1>7, <1>8 DEF Held, HoldForm
<1> QED
  BY <1>2, <1>3, <1>4, <1>5, <1>6, <1>7, <1>8

LEMMA WithinBlock ==
  ASSUME DriveOK, TypeOK', NEW r, NEW n, NEW p, NEW v, NEW d, NEW w,
         SegmentCut(r, n, p, v, d, w), r # 0
  PROVE  /\ Lengths' /\ Limits' /\ Chain' /\ Stoppable' /\ Speeds' /\ CornerSpeed'
         /\ Holds' /\ ProfileFollowed'
<1>1. TypeOK /\ Queued /\ Queued' /\ ~Empty /\ tail \in Slot /\ block_buffer[tail] \in Blocks /\ tail # NULL
  BY BlockFacts, BlockFactsNext, Typed DEF DriveOK, PlannerTyped, SegmentCut, Queued
<1>2. /\ n \in Nat /\ n = Count /\ n > 0 /\ Count' = n /\ r \in Nat /\ r # 0
      /\ pl_block' = tail /\ profile' = p
      /\ UNCHANGED <<tail, head, prev_nominal, override, mode>>
      /\ w \in Nat /\ prep'.current = w /\ ~prep'.recalc /\ (prep'.decel <=> p.decel)
      /\ step_control' = IF r = p.complete THEN step_control \cup {"END_MOTION"} ELSE step_control
      /\ "END_MOTION" \notin step_control
      /\ \A j \in 1 .. n - 1 : Block(j)' = Block(j)
  BY DEF SegmentCut
<1>3. Block(0)'.dist = r
  BY <1>1, <1>2 DEF SegmentCut, Same, Blocks
<1>4. /\ Block(0)'.max = Block(0).max /\ Block(0)'.junction = Block(0).junction
      /\ Block(0)'.rate = Block(0).rate
  <2>1. Block(0) = block_buffer[tail] /\ Block(0)' = block_buffer'[tail]
        /\ Same(block_buffer'[tail], [block_buffer[tail] EXCEPT !.dist = r])
    BY <1>1, <1>2 DEF SegmentCut, Queued
  <2> QED
    BY <1>1, <2>1 DEF Same, Blocks
<1>5. Empty' <=> Empty
  BY <1>2 DEF Empty
<1>6. Lengths'
  <2>1. ASSUME NEW j \in 0 .. n - 1 PROVE Block(j)'.dist > 0
    <3>1. CASE j = 0
      BY <1>2, <1>3, <3>1
    <3>2. CASE j # 0
      <4>1. j \in 1 .. n - 1
        BY <3>2
      <4> QED
        BY <1>2, <4>1 DEF DriveOK, Lengths
    <3> QED
      BY <3>1, <3>2
  <2> QED
    BY <1>2, <2>1 DEF Lengths
<1>7. Limits'
  <2>1. ASSUME NEW j \in 0 .. Count - 1
        PROVE  /\ Block(j)'.max = Block(j).max /\ Block(j)'.junction = Block(j).junction
               /\ Block(j)'.rate = Block(j).rate
    <3>1. CASE j = 0
      BY <1>4, <3>1
    <3>2. CASE j # 0
      <4>1. j \in 1 .. n - 1
        BY <1>2, <3>2
      <4> QED
        BY <1>2, <4>1
    <3> QED
      BY <3>1, <3>2
  <2>2. Count' = Count
    BY <1>2
  <2> QED
    BY <1>1, <1>2, <1>5, <2>1, <2>2, LimitsKept DEF DriveOK
<1>8. \A j \in 1 .. n : EndOf(j)' = EndOf(j)
  <2> TAKE j \in 1 .. n
  <2>1. CASE j = n
    BY <1>2, <2>1 DEF EndOf, EndAt
  <2>2. CASE j # n
    <3>1. j \in 1 .. n - 1 /\ j \in 1 .. Count' - 1
      BY <1>2, <2>2
    <3>2. EndOf(j)' = Block(j)'.entry /\ EndOf(j) = Block(j).entry
      BY <1>1, <1>2, <3>1 DEF Queued
    <3> QED
      BY <1>2, <3>1, <3>2
  <2> QED
    BY <2>1, <2>2
<1>9. Chain'
  <2>1. ASSUME NEW j \in 1 .. n - 1
        PROVE  Block(j)'.entry <= Block(j)'.max /\ Block(j)'.entry <= EndOf(j + 1)' + Block(j)'.dist
    <3>1. j + 1 \in 1 .. n
      BY <1>2
    <3> QED
      BY <1>2, <1>8, <3>1 DEF DriveOK, Chain
  <2> QED
    BY <1>2, <2>1 DEF Chain
<1>10. Stoppable'
  <2>1. PICK g : Brakes(g) /\ w <= g[1] + r
    BY BrakesAhead
  <2>2. Brakes(g)'
    BY <1>2, <2>1 DEF Brakes
  <2>3. prep'.current <= g[1] + Block(0)'.dist
    BY <1>2, <1>3, <2>1
  <2> QED
    BY <1>1, <1>5, <2>2, <2>3 DEF Stoppable
<1>11. Speeds' /\ CornerSpeed'
  BY <1>1, <1>2 DEF Speeds, CornerSpeed
<1>12. Holds'
  <2>1. "END_MOTION" \in step_control' => prep'.current = 0
    BY <1>2, SegmentFacts
  <2>2. Holding' /\ ~Braking' => prep'.current = 0 /\ ~prep'.decel
    BY <1>2, SegmentFacts
  <2>3. Braking' => Holding'
    BY SegmentFacts
  <2> QED
    BY <1>1, <1>2, <2>1, <2>2, <2>3 DEF Holds
<1>13. ProfileFollowed'
  <2>1. 1 \in 1 .. n
    BY <1>2
  <2>2. EndOf(1)' = EndOf(1)
    BY <1>8, <2>1
  <2>3. Followed(p, w, r)
    BY DEF SegmentCut
  <2>4. (Braking' <=> Braking) /\ (Holding' <=> Holding)
    BY SegmentFacts
  <2>5. profile' = p /\ prep'.current = w /\ Block(0)'.dist = r
    BY <1>2, <1>3
  <2>6. Held(p, w, r) => Held(profile, prep.current, Block(0).dist)'
    BY <2>4, <2>5 DEF Held
  <2>7. Slowed(p, w, r) => Slowed(profile, prep.current, Block(0).dist)'
    BY <2>4, <2>5 DEF Slowed
  <2>8. Keeps(p, w, r) => Keeps(profile, prep.current, Block(0).dist)'
    BY <2>2, <2>4, <2>5 DEF Keeps
  <2> QED
    BY <2>3, <2>6, <2>7, <2>8 DEF ProfileFollowed, Followed
<1> QED
  BY <1>6, <1>7, <1>9, <1>10, <1>11, <1>12, <1>13

LEMMA BlockDone ==
  ASSUME DriveOK, TypeOK', NEW r, NEW n, NEW p, NEW v, NEW d, NEW w,
         SegmentCut(r, n, p, v, d, w), r = 0
  PROVE  /\ Lengths' /\ Limits' /\ Chain' /\ Stoppable' /\ Speeds' /\ CornerSpeed'
         /\ Holds' /\ ProfileFollowed'
<1>1. TypeOK /\ Queued /\ Queued' /\ ~Empty
  BY BlockFacts, BlockFactsNext DEF DriveOK, PlannerTyped, SegmentCut, Queued
<1>2. /\ n \in Nat /\ n = Count /\ n > 0 /\ Count' = n - 1
      /\ pl_block' = NULL /\ UNCHANGED step_control
      /\ UNCHANGED <<prev_nominal, override, mode>>
      /\ w \in Nat /\ prep'.current = w /\ ~prep'.recalc /\ (prep'.decel <=> p.decel)
      /\ prep'.exit = p.exit
      /\ "END_MOTION" \notin step_control
      /\ \A j \in 0 .. n - 2 : Block(j)' = Block(j + 1)
  BY DEF SegmentCut
<1>3. r = p.complete /\ w = p.exit
  <2>1. r \in p.complete .. d /\ p.complete \in Nat
    BY SegmentFacts DEF SegmentCut
  <2>2. r = p.complete
    BY <2>1
  <2> QED
    BY <2>2 DEF SegmentCut
<1>4. Empty' <=> n = 1
  BY <1>1, <1>2 DEF Queued
<1>5. Lengths'
  <2>1. ASSUME NEW j \in 0 .. n - 2 PROVE Block(j)'.dist > 0
    <3>1. j + 1 \in 0 .. n - 1
      BY <1>2
    <3> QED
      BY <1>2, <3>1 DEF DriveOK, Lengths
  <2>2. Count' - 1 = n - 2
    BY <1>2
  <2> QED
    BY <2>1, <2>2 DEF Lengths
<1>6. ASSUME NEW j \in 0 .. n - 2 PROVE Nominal(j)' = Nominal(j + 1)
  BY <1>2, <1>6 DEF Nominal
<1>7. Limits'
  <2>1. ASSUME ~Empty' PROVE prev_nominal' = Nominal(n - 2)'
    <3>1. n - 2 \in 0 .. n - 2 /\ (n - 2) + 1 = n - 1
      BY <1>2, <1>4, <2>1
    <3>2. Nominal(n - 2)' = Nominal((n - 2) + 1)
      BY <1>6, <3>1
    <3>3. prev_nominal = Nominal(n - 1)
      BY <1>1, <1>2 DEF DriveOK, Limits
    <3> QED
      BY <1>2, <3>1, <3>2, <3>3
  <2>2. ASSUME NEW j \in 1 .. n - 2
        PROVE  /\ Block(j)'.max <= Block(j)'.junction
               /\ Block(j)'.max <= Nominal(j)' /\ Block(j)'.max <= Nominal(j - 1)'
    <3>1. j \in 0 .. n - 2 /\ j - 1 \in 0 .. n - 2 /\ j + 1 \in 1 .. n - 1
          /\ (j - 1) + 1 = j /\ (j + 1) - 1 = j
      BY <1>2
    <3>2. /\ Block(j)' = Block(j + 1) /\ Nominal(j)' = Nominal(j + 1)
          /\ Nominal(j - 1)' = Nominal((j - 1) + 1)
      BY <1>2, <1>6, <3>1
    <3>3. /\ Block(j + 1).max <= Block(j + 1).junction
          /\ Block(j + 1).max <= Nominal(j + 1) /\ Block(j + 1).max <= Nominal((j + 1) - 1)
      BY <1>2, <3>1 DEF DriveOK, Limits
    <3> QED
      BY <3>1, <3>2, <3>3
  <2>3. Count' - 1 = n - 2
    BY <1>2
  <2> QED
    BY <2>1, <2>2, <2>3 DEF Limits
<1>8. ASSUME NEW j \in 1 .. n - 1 PROVE EndOf(j)' = EndOf(j + 1)
  <2>1. CASE j = n - 1
    <3>1. EndOf(j)' = 0 /\ j + 1 = Count
      BY <1>2, <2>1 DEF EndOf, EndAt
    <3> QED
      BY <1>1, <3>1 DEF Queued
  <2>2. CASE j # n - 1
    <3>1. j \in 1 .. Count' - 1 /\ j + 1 \in 1 .. Count - 1 /\ j \in 0 .. n - 2
      BY <1>2, <2>2
    <3>2. EndOf(j)' = Block(j)'.entry /\ EndOf(j + 1) = Block(j + 1).entry
      BY <1>1, <3>1 DEF Queued
    <3> QED
      BY <1>2, <3>1, <3>2
  <2> QED
    BY <2>1, <2>2
<1>9. Chain'
  <2>1. ASSUME NEW j \in 1 .. n - 2
        PROVE  Block(j)'.entry <= Block(j)'.max /\ Block(j)'.entry <= EndOf(j + 1)' + Block(j)'.dist
    <3>1. j \in 0 .. n - 2 /\ j + 1 \in 1 .. n - 1
      BY <1>2
    <3>2. Block(j)' = Block(j + 1) /\ EndOf(j + 1)' = EndOf((j + 1) + 1)
      BY <1>2, <1>8, <3>1
    <3>3. Block(j + 1).entry <= Block(j + 1).max
          /\ Block(j + 1).entry <= EndOf((j + 1) + 1) + Block(j + 1).dist
      BY <1>2, <3>1 DEF DriveOK, Chain
    <3> QED
      BY <3>2, <3>3
  <2>2. Count' - 1 = n - 2
    BY <1>2
  <2> QED
    BY <2>1, <2>2 DEF Chain
<1>10. PICK g : Brakes(g) /\ g[1] \in Nat /\ w <= g[1] + r
  BY BrakesAhead
<1>11. PICK x \in Nat : x = g[1] /\ w <= x
  BY <1>2, <1>10
<1>12. n = 1 => w = 0
  BY <1>2, <1>10, <1>11 DEF Brakes
<1>13. Stoppable'
  <2>1. CASE n = 1
    BY <1>2, <1>4, <1>12, <2>1 DEF Stoppable
  <2>2. CASE n # 1
    <3>1. n \in 1 .. n /\ 1 \in 1 .. n - 1 /\ 2 \in 1 .. n /\ 1 + 1 = 2 /\ 0 \in 0 .. n - 2 /\ 0 + 1 = 1
          /\ n - 1 \in 1 .. n - 1 /\ (n - 1) + 1 = n
      BY <1>2, <2>2
    <3>2. g \in [1 .. n -> Nat] /\ g[n] = 0
          /\ \A j \in 1 .. n - 1 : g[j] <= Block(j).junction /\ g[j] <= g[j + 1] + Block(j).dist
      BY <1>2, <1>10 DEF Brakes
    <3>3. PICK f : f = [j \in 1 .. n - 1 |-> g[j + 1]]
      OBVIOUS
    <3>4. f \in [1 .. n - 1 -> Nat]
      <4>1. ASSUME NEW j \in 1 .. n - 1 PROVE g[j + 1] \in Nat
        <5>1. j + 1 \in 1 .. n
          BY <1>2
        <5> QED
          BY <3>2, <5>1
      <4> QED
        BY <3>3, <4>1
    <3>5. f[n - 1] = 0 /\ f[1] = g[2]
      BY <3>1, <3>2, <3>3
    <3>6. ASSUME NEW j \in 1 .. n - 2
          PROVE  f[j] <= Block(j)'.junction /\ f[j] <= f[j + 1] + Block(j)'.dist
      <4>1. j \in 0 .. n - 2 /\ j \in 1 .. n - 1 /\ j + 1 \in 1 .. n - 1
        BY <1>2
      <4>2. Block(j)' = Block(j + 1) /\ f[j] = g[j + 1] /\ f[j + 1] = g[(j + 1) + 1]
        BY <1>2, <3>3, <4>1
      <4>3. g[j + 1] <= Block(j + 1).junction /\ g[j + 1] <= g[(j + 1) + 1] + Block(j + 1).dist
        BY <3>2, <4>1
      <4> QED
        BY <4>2, <4>3
    <3>7. Count' = n - 1 /\ Count' - 1 = n - 2
      BY <1>2
    <3>8. Brakes(f)'
      BY <3>4, <3>5, <3>6, <3>7 DEF Brakes
    <3>9. prep'.current <= f[1] + Block(0)'.dist
      <4>1. g[1] <= g[2] + Block(1).dist
        BY <3>1, <3>2
      <4>2. Block(0)' = Block(1)
        BY <1>2, <3>1
      <4>3. PICK y \in Nat, z \in Nat : y = g[2] /\ z = Block(1).dist
        <5>1. g[2] \in Nat
          BY <3>1, <3>2
        <5>2. 1 \in 0 .. Count - 1
          BY <1>2, <3>1
        <5>3. Block(1).dist \in Nat
          BY <1>1, <5>2 DEF Queued
        <5> QED
          BY <5>1, <5>3
      <4>4. w <= y + z
        BY <1>2, <1>11, <4>1, <4>3
      <4> QED
        BY <1>2, <3>5, <4>2, <4>3, <4>4
    <3> QED
      BY <1>4, <2>2, <3>8, <3>9 DEF Stoppable
  <2> QED
    BY <2>1, <2>2
<1>14. CornerSpeed'
  <2> SUFFICES ASSUME ~Empty' PROVE prep'.current <= Block(0)'.junction
    BY DEF CornerSpeed
  <2>1. 1 \in 1 .. n - 1 /\ 1 \in 0 .. n - 1 /\ 0 \in 0 .. n - 2 /\ 0 + 1 = 1
    BY <1>2, <1>4
  <2>2. g[1] <= Block(1).junction /\ Block(0)' = Block(1)
    BY <1>2, <1>10, <2>1 DEF Brakes
  <2>3. Block(1).junction \in Nat
    BY <1>1, <1>2, <2>1 DEF Queued
  <2> QED
    BY <1>2, <1>11, <2>2, <2>3
<1>15. Speeds'
  <2>1. prep'.exit = prep'.current
    BY <1>2, <1>3
  <2>2. ASSUME ~Empty', ~prep'.decel, ~Braking' PROVE Block(0)'.entry = prep'.current
    <3>1. ~p.decel /\ ~Braking /\ d \in Nat /\ d > 0
      BY <1>2, <2>2, SegmentFacts DEF SegmentCut
    <3>2. Followed(p, v, d)
      BY DEF SegmentCut
    <3>3. Keeps(p, v, d)
      BY <1>3, <3>1, <3>2 DEF Followed, Held, Slowed, SlowForm
    <3>4. 1 \in 1 .. Count - 1 /\ 0 \in 0 .. n - 2 /\ 0 + 1 = 1
      BY <1>2, <1>4, <2>2
    <3>5. EndOf(1) = Block(1).entry /\ Block(0)' = Block(1)
      BY <1>1, <1>2, <3>4 DEF Queued
    <3> QED
      BY <1>2, <1>3, <3>3, <3>5 DEF Keeps
  <2> QED
    BY <1>2, <2>1, <2>2 DEF Speeds
<1>16. Holds'
  <2>1. Holding' /\ ~Braking' => prep'.current = 0 /\ ~prep'.decel
    BY <1>2, SegmentFacts
  <2>2. Braking' => Holding'
    BY SegmentFacts
  <2> QED
    BY <1>2, <2>1, <2>2 DEF Holds
<1>17. ProfileFollowed'
  BY <1>2 DEF ProfileFollowed
<1> QED
  BY <1>5, <1>7, <1>9, <1>13, <1>14, <1>15, <1>16, <1>17

LEMMA PrepSegmentDriven ==
  ASSUME DriveOK, NEW r, PrepSegment(r)
  PROVE  DriveOK'
<1>1. PlannerTyped' /\ TypeOK'
  BY PrepSegmentTyped DEF DriveOK, PlannerTyped
<1>2. PICK n, p, v, d, w : SegmentCut(r, n, p, v, d, w)
  BY PrepSegmentCuts
<1> QED
  BY <1>1, <1>2, WithinBlock, BlockDone DEF DriveOK

LEMMA StepDriven ==
  ASSUME OneRateOrNoOverride
  PROVE  DriveOK /\ [Next]_vars => DriveOK'
<1> SUFFICES ASSUME DriveOK, [Next]_vars PROVE DriveOK'
  OBVIOUS
<1>1. ASSUME NEW shape \in Shapes, BufferLine(shape) PROVE DriveOK'
  BY <1>1, BufferLineDriven
<1>2. ASSUME NEW o \in Overrides, Override(o) PROVE DriveOK'
  BY <1>2, OverrideDriven
<1>3. ASSUME NEW r \in 0 .. block_buffer[tail].dist, PrepSegment(r) PROVE DriveOK'
  BY <1>3, PrepSegmentDriven
<1>4. TypeOK
  BY DEF DriveOK, PlannerTyped
<1>5. CASE CycleStart
  BY <1>5, OthersDriven DEF CycleStart, Braking
<1>6. CASE JogStart
  BY <1>6, OthersDriven DEF JogStart, Braking
<1>7. CASE HoldBegin
  BY <1>7, HoldBeginDriven
<1>8. CASE CycleDone
  BY <1>8, OthersDriven DEF CycleDone, Braking
<1>9. CASE HoldDone
  BY <1>9, HoldDoneDriven
<1>10. CASE CancelDone
  <2>1. step_control' \subseteq {"EXECUTE_HOLD", "END_MOTION"} /\ override' \in Overrides
    BY <1>4, <1>10 DEF CancelDone, TypeOK
  <2> QED
    BY <1>10, <2>1, ResetDriven DEF CancelDone
<1>11. CASE Abort
  BY <1>11, RatesAssumption, ResetDriven DEF Abort
<1>12. CASE UNCHANGED vars
  <2>1. UNCHANGED <<ringVars, prepVars, override, lines, step_control, mode>>
    BY <1>12 DEF vars
  <2>2. mode' \in {"idle", "cycle", "hold", "cancel", "held"}
    BY <1>4, <2>1 DEF TypeOK
  <2> QED
    BY <2>1, <2>2, OthersDriven
<1> QED
  BY <1>1, <1>2, <1>3, <1>5, <1>6, <1>7, <1>8, <1>9, <1>10, <1>11, <1>12 DEF Next

(* EndsOfBlocks: whatever holds, cancels, resets and overrides come within *)
(* a block, it is begun no faster than its corner allows, and the machine  *)
(* stands when the segments run out (stepper.c:696-797).                   *)
THEOREM MachineFollowsPlan ==
  ASSUME OneRateOrNoOverride
  PROVE  Spec => []EndsOfBlocks
<1>1. DriveOK /\ [Next]_vars => DriveOK'
  BY StepDriven
<1> QED
  BY InitDriven, <1>1, EndsFollow, PTL DEF Spec

-----------------------------------------------------------------------------
(* The plan can be driven, as long as no override changes.                 *)
NoOverride == Overrides = {Normal}

(* Each corner is reached from the one before it, and the first one from   *)
(* the speed that the machine has; in a hold the machine falls behind.     *)
Accelerates == \A j \in 2 .. Count - 1 : Block(j).entry <= Block(j - 1).entry + Block(j - 1).dist
Joins ==
  ~Empty => /\ prep.current <= Nominal(0) /\ prep.current <= EndOf(1) + Block(0).dist
            /\ ~Braking => EndOf(1) <= prep.current + Block(0).dist
(* A profile ends at its exit speed without a jump.                        *)
Exact(p, v, d) ==
  \/ p.ramp = "ACCEL" /\ v + d = p.exit
  \/ p.ramp = "DECEL" /\ v = d + p.exit
  \/ /\ p.ramp = "TRAPEZOID" /\ v + d > p.exit /\ v <= p.exit + d
     /\ v <= p.nominal /\ p.nominal <= Nominal(0)
Fits(p, v, d) == Held(p, v, d) \/ (Keeps(p, v, d) /\ Exact(p, v, d))
ProfileFits == pl_block # NULL => Fits(profile, prep.current, Block(0).dist)

PlanDriven == ~prep.decel /\ Accelerates /\ Joins /\ ProfileFits

LEMMA ExitBelowNominal ==
  ASSUME DriveOK, ~Empty
  PROVE  EndOf(1) \in Nat /\ Nominal(0) \in Nat /\ EndOf(1) <= Nominal(0)
<1>1. Queued /\ Count \in Nat /\ Count # 0
  BY BlockFacts DEF DriveOK, PlannerTyped, Queued
<1>2. 0 \in 0 .. Count - 1 /\ 1 \in 1 .. Count
  BY <1>1
<1>3. EndOf(1) \in Nat /\ Nominal(0) \in Nat
  BY <1>1, <1>2 DEF Queued
<1>4. CASE Count = 1
  BY <1>1, <1>3, <1>4 DEF Queued
<1>5. CASE Count # 1
  <2>1. 1 \in 1 .. Count - 1 /\ 1 \in 0 .. Count - 1
    BY <1>1, <1>5
  <2>2. EndOf(1) = Block(1).entry /\ Block(1).entry <= Block(1).max /\ Block(1).max <= Nominal(1 - 1)
        /\ Block(1).max \in Nat
    BY <1>1, <2>1 DEF DriveOK, Chain, Limits, Queued
  <2> QED
    BY <1>3, <2>2
<1> QED
  BY <1>3, <1>4, <1>5

(* The generator takes up a block with a profile that fits.                *)
LEMMA ProfileFitsNow ==
  ASSUME DriveOK, PlanDriven, Prepping
  PROVE  Fits(Profile, prep.current, Block(0).dist)
<1>1. TypeOK /\ Queued /\ ~Empty
  BY BlockFacts DEF DriveOK, PlannerTyped, Prepping
<1>2. Block(0) = block_buffer[tail] /\ Profile \in Profiles /\ Followed(Profile, prep.current, Block(0).dist)
  BY <1>1, ProfileIsFollowed DEF Queued
<1>3. PICK v \in Nat, d \in Nat, n \in Nat, x \in Nat :
        /\ v = prep.current /\ d = Block(0).dist /\ d > 0
        /\ n = Nominal(0) /\ x = EndOf(1)
  BY <1>1, ExitBelowNominal, ProfileIsFollowed
<1>4. v <= n /\ v <= x + d /\ (~Braking => x <= v + d)
  BY <1>1, <1>3 DEF PlanDriven, Joins
<1>5. CASE pl_block # NULL
  BY <1>5 DEF Profile, PlanDriven, ProfileFits
<1>6. CASE pl_block = NULL /\ Holding
  BY <1>2, <1>6 DEF Followed, Slowed, Keeps, Fits
<1>7. CASE pl_block = NULL /\ ~Holding
  <2>1. ~Braking
    BY <1>7 DEF DriveOK, Holds
  <2>2. /\ v = LoadSpeed /\ d = block_buffer[tail].dist
        /\ n = NominalSqr[block_buffer[tail].rate][override]
        /\ x = plan_get_exec_block_exit_speed_sqr
    BY <1>1, <1>2, <1>3, <1>7, SegmentSpeedIs, ExitSpeedIs DEF SegmentSpeed, Nominal
  <2>3. Profile = NormalProfile(v, d, n, x)
    BY <1>4, <1>7, <2>2 DEF Profile
  <2>4. /\ PlanForm(Profile, v, d) /\ Profile.exit = x
        /\ \/ Profile.ramp = "ACCEL" /\ d + v <= x
           \/ Profile.ramp = "DECEL" /\ x + d <= v
           \/ Profile.ramp = "TRAPEZOID" /\ Profile.nominal = n /\ d + v > x /\ x + d > v
    BY <2>3, NormalProfileFacts
  <2>5. Exact(Profile, v, d)
    BY <1>3, <1>4, <2>1, <2>4 DEF Exact
  <2>6. Keeps(Profile, v, d)
    <3>1. x <= n
      BY <1>1, <1>3, ExitBelowNominal
    <3>2. Profile.ramp \in {"TRAPEZOID", "OVERRIDE"} => Profile.nominal >= Profile.exit
      BY <1>3, <2>4, <3>1
    <3> QED
      BY <1>3, <1>7, <2>4, <3>2 DEF Keeps
  <2> QED
    BY <1>3, <2>5, <2>6 DEF Fits
<1> QED
  BY <1>5, <1>6, <1>7

(* Along a profile that fits, from speed v to the speed w with r left: the *)
(* distance bounds the change, the rest fits, and full acceleration stays  *)
(* full acceleration.                                                      *)
LEMMA FitSpeed ==
  ASSUME NEW p \in Profiles, NEW v \in Nat, NEW d \in Nat, d > 0, Fits(p, v, d),
         NEW r \in p.complete .. d, r = p.complete \/ p.ramp # "DECEL" \/ v > d - r,
         NEW x \in Nat, x = EndOf(1), NEW m \in Nat, m = Nominal(0),
         x <= m, v <= m, v <= x + d, ~Braking => x <= v + d
  PROVE  LET w == SpeedAt(p, v, d, r)
         IN /\ w \in Nat /\ ~p.decel
            /\ w <= v + (d - r) /\ v <= w + (d - r)
            /\ w <= m /\ w <= x + r
            /\ ~Braking => /\ x <= w + r
                           /\ x = v + d => x = w + r
                           /\ r = 0 => w = x
            /\ r # 0 => Fits(p, w, r)
<1>1. /\ p.complete \in Nat /\ p.exit \in Nat /\ p.nominal \in Nat
      /\ r \in Nat /\ r <= d /\ p.complete <= r
  BY DEF Profiles
<1>2. PICK w : w = SpeedAt(p, v, d, r)
  OBVIOUS
<1>3. w \in Nat /\ (r = p.complete => w = p.exit) /\ Followed(p, w, r)
  <2>1. Followed(p, v, d)
    BY DEF Fits, Followed
  <2> QED
    BY <1>2, <2>1, SpeedFacts
<1>4. CASE Held(p, v, d)
  <2>1. /\ p.ramp = "DECEL" /\ v + p.complete = d + p.exit /\ ~p.decel
        /\ p.complete = 0 \/ p.exit = 0
        /\ ~Braking => v = 0 /\ p.complete = d
    BY <1>4 DEF Held, HoldForm
  <2>2. w = IF r = p.complete THEN p.exit ELSE v - (d - r)
    BY <1>2, <2>1 DEF SpeedAt
  <2>3. v = w + (d - r)
    BY <1>1, <2>1, <2>2
  <2>4. ASSUME ~Braking PROVE r = d /\ w = v
    <3>1. r = d
      BY <1>1, <2>1, <2>4
    <3> QED
      BY <1>3, <2>3, <3>1
  <2>5. Held(p, w, r)
    <3>1. w + p.complete = r + p.exit
      BY <1>1, <1>3, <2>1, <2>3
    <3> QED
      BY <1>1, <2>1, <2>4, <3>1 DEF Held, HoldForm
  <2>6. w <= v /\ w <= m /\ w <= x + r
    BY <1>1, <1>3, <2>3
  <2> QED
    BY <1>1, <1>2, <1>3, <2>1, <2>3, <2>4, <2>5, <2>6 DEF Fits
<1>5. CASE Keeps(p, v, d) /\ Exact(p, v, d)
  <2>1. /\ p.exit = x /\ p.complete = 0 /\ ~p.decel /\ ~Holding
        /\ p.ramp \in {"TRAPEZOID", "OVERRIDE"} => p.nominal >= p.exit
    BY <1>5 DEF Keeps, PlanForm
  <2>2. ASSUME Exact(p, w, r) PROVE Fits(p, w, r)
    <3>1. PlanForm(p, w, r)
      BY <1>1, <1>3, <2>1, <2>2 DEF PlanForm, Exact
    <3> QED
      BY <1>1, <2>1, <2>2, <3>1 DEF Fits, Keeps
  <2>3. CASE p.ramp = "ACCEL" /\ v + d = p.exit
    <3>1. w = IF r = p.complete THEN p.exit ELSE v + (d - r)
      BY <1>2, <2>3 DEF SpeedAt
    <3>2. w = v + (d - r) /\ w + r = x /\ w <= x
      BY <1>1, <2>1, <2>3, <3>1
    <3>3. Exact(p, w, r)
      BY <2>1, <2>3, <3>2 DEF Exact
    <3>4. w <= m /\ w <= x + r /\ v <= w + (d - r)
      BY <1>1, <1>3, <3>2
    <3> QED
      BY <1>1, <1>2, <1>3, <2>1, <2>2, <3>2, <3>3, <3>4
  <2>4. CASE p.ramp = "DECEL" /\ v = d + p.exit
    <3>1. w = IF r = p.complete THEN p.exit ELSE v - (d - r)
      BY <1>2, <2>4 DEF SpeedAt
    <3>2. w = r + x /\ v = w + (d - r)
      BY <1>1, <2>1, <2>4, <3>1
    <3>3. Exact(p, w, r)
      BY <2>1, <2>4, <3>2 DEF Exact
    <3>4. w <= m /\ w <= v + (d - r) /\ x <= w + r /\ x # v + d /\ (r = 0 => w = x)
      BY <1>1, <1>3, <2>1, <2>4, <3>2
    <3> QED
      BY <1>1, <1>2, <1>3, <2>1, <2>2, <3>2, <3>3, <3>4
  <2>5. CASE /\ p.ramp = "TRAPEZOID" /\ v + d > p.exit /\ v <= p.exit + d
             /\ v <= p.nominal /\ p.nominal <= Nominal(0)
    <3>1. w = Smaller(v + (d - r), Smaller(p.nominal, p.exit + r))
      BY <1>2, <2>5 DEF SpeedAt
    <3>2. PICK n \in Nat : n = p.nominal /\ n >= x /\ v <= n /\ n <= m
      BY <1>1, <2>1, <2>5
    <3>3. v + d > x
      BY <2>1, <2>5
    <3>4. /\ w <= v + (d - r) /\ w <= n /\ w <= x + r
          /\ v <= w + (d - r) /\ x <= w + r /\ x # v + d /\ (r = 0 => w = x)
          /\ r # 0 => w + r > x
      BY <1>1, <2>1, <3>1, <3>2, <3>3 DEF Smaller
    <3>5. w <= m
      BY <1>3, <3>2, <3>4
    <3>6. r # 0 => Exact(p, w, r)
      BY <2>1, <2>5, <3>2, <3>4 DEF Exact
    <3> QED
      BY <1>1, <1>2, <1>3, <2>1, <2>2, <3>4, <3>5, <3>6
  <2> QED
    BY <1>5, <2>3, <2>4, <2>5 DEF Exact
<1> QED
  BY <1>4, <1>5 DEF Fits

(* A segment cut while the plan can be driven.                             *)
FitSegment(r, n, p, v, d, w, x, m) ==
  /\ SegmentCut(r, n, p, v, d, w)
  /\ x \in Nat /\ x = EndOf(1) /\ m \in Nat /\ m = Nominal(0)
  /\ w \in Nat /\ ~p.decel
  /\ w <= v + (d - r) /\ v <= w + (d - r)
  /\ w <= m /\ w <= x + r
  /\ ~Braking => /\ x <= w + r
                 /\ x = v + d => x = w + r
                 /\ r = 0 => w = x
  /\ r # 0 => Fits(p, w, r)

LEMMA FitSegmentCut ==
  ASSUME DriveOK, PlanDriven, NEW r, PrepSegment(r)
  PROVE  \E n, p, v, d, w, x, m : FitSegment(r, n, p, v, d, w, x, m)
<1>1. PICK n, p, v, d, w : SegmentCut(r, n, p, v, d, w)
  BY PrepSegmentCuts
<1>2. TypeOK /\ Queued /\ ~Empty /\ Prepping
  BY BlockFacts, PrepSegmentIs DEF DriveOK, PlannerTyped, Prepping
<1>3. PICK x \in Nat, m \in Nat : x = EndOf(1) /\ m = Nominal(0) /\ x <= m
  BY <1>2, ExitBelowNominal
<1>4. /\ p \in Profiles /\ p = Profile /\ v \in Nat /\ v = prep.current
      /\ d \in Nat /\ d = Block(0).dist /\ d > 0 /\ r \in p.complete .. d /\ w = SpeedAt(p, v, d, r)
  BY <1>1 DEF SegmentCut
<1>5. Fits(p, v, d)
  BY <1>2, <1>4, ProfileFitsNow
<1>6. r = p.complete \/ p.ramp # "DECEL" \/ v > d - r
  <2>1. v = SegmentSpeed /\ Block(0) = block_buffer[tail]
    BY <1>2, <1>4, SegmentSpeedIs DEF Queued
  <2> QED
    BY <1>4, <2>1, PrepSegmentIs
<1>7. v <= m /\ v <= x + d /\ (~Braking => x <= v + d)
  BY <1>2, <1>3, <1>4 DEF PlanDriven, Joins
<1>8. /\ w \in Nat /\ ~p.decel
      /\ w <= v + (d - r) /\ v <= w + (d - r)
      /\ w <= m /\ w <= x + r
      /\ ~Braking => /\ x <= w + r
                     /\ x = v + d => x = w + r
                     /\ r = 0 => w = x
      /\ r # 0 => Fits(p, w, r)
  BY <1>3, <1>4, <1>5, <1>6, <1>7, FitSpeed
<1> QED
  BY <1>1, <1>3, <1>8 DEF FitSegment

LEMMA WithinBlockFits ==
  ASSUME DriveOK, PlanDriven, TypeOK', NEW r, NEW n, NEW p, NEW v, NEW d, NEW w, NEW x, NEW m,
         FitSegment(r, n, p, v, d, w, x, m), r # 0
  PROVE  PlanDriven'
<1>1. SegmentCut(r, n, p, v, d, w)
  BY DEF FitSegment
<1>2. TypeOK /\ Queued /\ Queued' /\ tail \in Slot /\ block_buffer[tail] \in Blocks
  BY BlockFacts, BlockFactsNext, Typed DEF DriveOK, PlannerTyped
<1>3. /\ n \in Nat /\ n = Count /\ n > 0 /\ Count' = n /\ r \in Nat
      /\ profile' = p /\ UNCHANGED <<tail, head, override, mode>>
      /\ prep'.current = w /\ (prep'.decel <=> p.decel)
      /\ \A j \in 1 .. n - 1 : Block(j)' = Block(j)
      /\ Block(0)' = block_buffer'[tail]
      /\ Same(block_buffer'[tail], [block_buffer[tail] EXCEPT !.dist = r])
  BY <1>1 DEF SegmentCut
<1>4. Block(0)'.dist = r /\ Nominal(0)' = Nominal(0)
  <2>1. Block(0) = block_buffer[tail]
    BY <1>2 DEF Queued
  <2>2. Block(0)'.dist = r /\ Block(0)'.rate = Block(0).rate
    BY <1>2, <1>3, <2>1 DEF Same, Blocks
  <2> QED
    BY <1>3, <2>2 DEF Nominal
<1>5. EndOf(1)' = EndOf(1)
  <2>1. CASE n = 1
    BY <1>2, <1>3, <2>1 DEF Queued
  <2>2. CASE n # 1
    <3>1. 1 \in 1 .. n - 1 /\ 1 \in 1 .. Count - 1 /\ 1 \in 1 .. Count' - 1
      BY <1>3, <2>2
    <3>2. EndOf(1) = Block(1).entry /\ EndOf(1)' = Block(1)'.entry
      BY <1>2, <3>1 DEF Queued
    <3> QED
      BY <1>3, <3>1, <3>2
  <2> QED
    BY <2>1, <2>2
<1>6. Braking' <=> Braking
  BY <1>3 DEF Braking
<1>7. Joins'
  <2>1. /\ w <= m /\ w <= x + r /\ (~Braking => x <= w + r) /\ x = EndOf(1) /\ m = Nominal(0)
    BY DEF FitSegment
  <2> QED
    BY <1>3, <1>4, <1>5, <1>6, <2>1 DEF Joins
<1>8. Accelerates'
  <2>1. ASSUME NEW j \in 2 .. n - 1 PROVE Block(j)'.entry <= Block(j - 1)'.entry + Block(j - 1)'.dist
    <3>1. j \in 1 .. n - 1 /\ j - 1 \in 1 .. n - 1
      BY <1>3
    <3> QED
      BY <1>3, <3>1 DEF PlanDriven, Accelerates
  <2> QED
    BY <1>3, <2>1 DEF Accelerates
<1>9. ProfileFits'
  <2>1. Fits(p, w, r)
    BY DEF FitSegment
  <2>2. Holding' <=> Holding
    BY <1>1, SegmentFacts
  <2>3. Held(p, w, r) => Held(profile, prep.current, Block(0).dist)'
    BY <1>3, <1>4, <1>6 DEF Held
  <2>4. Keeps(p, w, r) => Keeps(profile, prep.current, Block(0).dist)'
    BY <1>3, <1>4, <1>5, <2>2 DEF Keeps
  <2>5. Exact(p, w, r) => Exact(profile, prep.current, Block(0).dist)'
    BY <1>3, <1>4 DEF Exact
  <2> QED
    BY <2>1, <2>3, <2>4, <2>5 DEF ProfileFits, Fits
<1>10. ~prep'.decel
  BY <1>3 DEF FitSegment
<1> QED
  BY <1>7, <1>8, <1>9, <1>10 DEF PlanDriven

LEMMA BlockDoneFits ==
  ASSUME DriveOK, PlanDriven, TypeOK', NEW r, NEW n, NEW p, NEW v, NEW d, NEW w, NEW x, NEW m,
         FitSegment(r, n, p, v, d, w, x, m), r = 0
  PROVE  PlanDriven'
<1>1. SegmentCut(r, n, p, v, d, w)
  BY DEF FitSegment
<1>2. TypeOK /\ Queued /\ Queued'
  BY BlockFacts, BlockFactsNext DEF DriveOK, PlannerTyped
<1>3. /\ n \in Nat /\ n = Count /\ n > 0 /\ Count' = n - 1 /\ w \in Nat
      /\ pl_block' = NULL /\ UNCHANGED <<override, mode>>
      /\ prep'.current = w /\ (prep'.decel <=> p.decel)
      /\ \A j \in 0 .. n - 2 : Block(j)' = Block(j + 1)
  BY <1>1 DEF SegmentCut
<1>4. Braking' <=> Braking
  BY <1>3 DEF Braking
<1>5. Accelerates'
  <2>1. ASSUME NEW j \in 2 .. n - 2 PROVE Block(j)'.entry <= Block(j - 1)'.entry + Block(j - 1)'.dist
    <3>1. /\ j \in 0 .. n - 2 /\ j - 1 \in 0 .. n - 2 /\ j + 1 \in 2 .. n - 1
          /\ (j - 1) + 1 = j /\ (j + 1) - 1 = j
      BY <1>3
    <3>2. Block(j)' = Block(j + 1) /\ Block(j - 1)' = Block((j - 1) + 1)
      BY <1>3, <3>1
    <3>3. Block(j + 1).entry <= Block((j + 1) - 1).entry + Block((j + 1) - 1).dist
      BY <1>3, <3>1 DEF PlanDriven, Accelerates
    <3> QED
      BY <3>1, <3>2, <3>3
  <2>2. Count' - 1 = n - 2
    BY <1>3
  <2> QED
    BY <2>1, <2>2 DEF Accelerates
<1>6. Joins'
  <2> SUFFICES ASSUME ~Empty'
               PROVE  /\ prep'.current <= Nominal(0)' /\ prep'.current <= EndOf(1)' + Block(0)'.dist
                      /\ ~Braking' => EndOf(1)' <= prep'.current + Block(0)'.dist
    BY DEF Joins
  <2>1. /\ n >= 2 /\ 1 \in 1 .. Count - 1 /\ 1 \in 0 .. Count - 1 /\ 0 \in 0 .. n - 2 /\ 0 + 1 = 1 /\ 1 + 1 = 2
        /\ 2 \in 1 .. Count
    BY <1>2, <1>3 DEF Queued
  <2>2. Block(0)' = Block(1) /\ Nominal(0)' = Nominal(1)
    BY <1>3, <2>1 DEF Nominal
  <2>3. PICK e \in Nat, b \in Nat, f \in Nat, k \in Nat, top \in Nat :
          /\ e = Block(1).entry /\ b = Block(1).dist /\ f = EndOf(2) /\ k = Nominal(1)
          /\ top = Block(1).max
    BY <1>2, <2>1 DEF Queued
  <2>4. EndOf(1)' = f
    <3>1. CASE n = 2
      BY <1>2, <1>3, <2>3, <3>1 DEF Queued
    <3>2. CASE n # 2
      <4>1. 1 \in 1 .. Count' - 1 /\ 2 \in 1 .. Count - 1 /\ 1 \in 0 .. n - 2
        BY <1>3, <2>1, <3>2
      <4>2. EndOf(1)' = Block(1)'.entry /\ EndOf(2) = Block(2).entry
        BY <1>2, <4>1 DEF Queued
      <4> QED
        BY <1>3, <2>1, <2>3, <4>1, <4>2
    <3> QED
      BY <3>1, <3>2
  <2>5. e <= top /\ top <= k /\ e <= f + b
    BY <2>1, <2>3 DEF DriveOK, Chain, Limits
  <2>6. f <= e + b
    <3>1. CASE n = 2
      BY <1>2, <1>3, <2>3, <3>1 DEF Queued
    <3>2. CASE n # 2
      <4>1. 2 \in 2 .. Count - 1 /\ 2 \in 1 .. Count - 1 /\ 2 - 1 = 1
        BY <1>3, <2>1, <3>2
      <4>2. EndOf(2) = Block(2).entry /\ Block(2).entry <= Block(2 - 1).entry + Block(2 - 1).dist
        BY <1>2, <4>1 DEF Queued, PlanDriven, Accelerates
      <4> QED
        BY <2>3, <4>1, <4>2
    <3> QED
      BY <3>1, <3>2
  <2>7. w <= e /\ (~Braking => w = e)
    <3>1. EndOf(1) = e
      BY <1>2, <2>1, <2>3 DEF Queued
    <3> QED
      BY <3>1 DEF FitSegment
  <2> QED
    BY <1>3, <1>4, <2>2, <2>3, <2>4, <2>5, <2>6, <2>7
<1>7. ProfileFits' /\ ~prep'.decel
  BY <1>3 DEF ProfileFits, FitSegment
<1> QED
  BY <1>5, <1>6, <1>7 DEF PlanDriven

LEMMA InitPlanned == Init => PlanDriven
<1> SUFFICES ASSUME Init PROVE PlanDriven
  OBVIOUS
<1>1. Empty /\ Count = 0
  BY InitTyped, BlockFacts DEF Init, Empty, Queued, PlannerTyped
<1>2. ~prep.decel /\ pl_block = NULL
  BY DEF Init, NotPrepared
<1> QED
  BY <1>1, <1>2 DEF PlanDriven, Accelerates, Joins, ProfileFits

LEMMA ResetPlanned ==
  ASSUME DriveOK', ResetBuffers
  PROVE  PlanDriven'
<1>1. Queued'
  BY BlockFactsNext DEF DriveOK, PlannerTyped
<1>2. Empty' /\ pl_block' = NULL /\ ~prep'.decel
  BY DEF ResetBuffers, NotPrepared, Empty
<1>3. Count' = 0
  BY <1>1, <1>2 DEF Queued
<1> QED
  BY <1>2, <1>3 DEF PlanDriven, Accelerates, Joins, ProfileFits

LEMMA OthersPlanned ==
  ASSUME PlanDriven, UNCHANGED <<ringVars, prepVars, override>>,
         step_control' \in {step_control, {}}, Braking' <=> Braking
  PROVE  PlanDriven'
<1>1. UNCHANGED <<block_buffer, tail, head, pl_block, prep, profile, override>>
  BY DEF ringVars, prepVars
<1>2. Holding' => Holding
  BY DEF Holding
<1>3. Block(0)' = Block(0) /\ EndOf(1)' = EndOf(1) /\ Nominal(0)' = Nominal(0)
  BY <1>1 DEF Block, EndOf, EndAt, At, Count, Nominal
<1>4. Accelerates'
  BY <1>1 DEF PlanDriven, Accelerates, Block, Count
<1>5. Joins'
  BY <1>1, <1>3 DEF PlanDriven, Joins, Empty
<1>6. ProfileFits'
  BY <1>1, <1>2, <1>3 DEF PlanDriven, ProfileFits, Fits, Held, Keeps, Exact
<1> QED
  BY <1>1, <1>4, <1>5, <1>6 DEF PlanDriven

LEMMA HoldBeginPlanned ==
  ASSUME DriveOK, DriveOK', PlanDriven, HoldBegin
  PROVE  PlanDriven'
<1>1. TypeOK /\ Queued /\ Queued'
  BY BlockFacts, BlockFactsNext DEF DriveOK, PlannerTyped
<1>2. /\ Braking' /\ block_buffer' = ParametersUpdated(block_buffer) /\ st_update_plan_block_parameters
      /\ UNCHANGED <<tail, head, override>>
  BY DEF HoldBegin, Braking
<1>3. /\ Count' = Count /\ (Empty' <=> Empty) /\ tail \in Slot /\ block_buffer \in Buffers /\ Count \in Nat
      /\ (Empty <=> Count = 0)
  BY <1>1, <1>2, Typed DEF Count, Empty, Queued
<1>4. /\ \A i \in Slot : Same(block_buffer'[i], block_buffer[i])
      /\ \A i \in Slot \ {tail} : block_buffer'[i] = block_buffer[i]
  BY <1>1, <1>2, <1>3, UpdatedFacts
<1>5. \A j \in 0 .. Count - 1 : Same(Block(j)', Block(j)) /\ (j # 0 => Block(j)' = Block(j))
  BY <1>1, <1>2, <1>4 DEF Queued, Block
<1>6. prep'.current = prep.current /\ (prep'.decel <=> prep.decel) /\ pl_block' = NULL
  BY <1>1, <1>2, UpdateTyped
<1>7. Accelerates'
  <2>1. ASSUME NEW j \in 2 .. Count - 1 PROVE Block(j)'.entry <= Block(j - 1)'.entry + Block(j - 1)'.dist
    <3>1. j \in 0 .. Count - 1 /\ j - 1 \in 0 .. Count - 1 /\ j # 0 /\ j - 1 # 0
      BY <1>3
    <3> QED
      BY <1>5, <3>1 DEF PlanDriven, Accelerates
  <2> QED
    BY <1>3, <2>1 DEF Accelerates
<1>8. Joins'
  <2> SUFFICES ASSUME ~Empty PROVE /\ prep'.current <= Nominal(0)'
                                   /\ prep'.current <= EndOf(1)' + Block(0)'.dist
    BY <1>2, <1>3 DEF Joins
  <2>1. 0 \in 0 .. Count - 1 /\ 1 \in 1 .. Count
    BY <1>3
  <2>2. Nominal(0)' = Nominal(0) /\ Block(0)'.dist = Block(0).dist
    BY <1>2, <1>5, <2>1 DEF Nominal, Same
  <2>3. EndOf(1)' = EndOf(1)
    <3>1. CASE Count = 1
      BY <1>1, <1>3, <3>1 DEF Queued
    <3>2. CASE Count # 1
      <4>1. 1 \in 1 .. Count - 1 /\ 1 \in 0 .. Count - 1
        BY <1>3, <2>1, <3>2
      <4>2. EndOf(1) = Block(1).entry /\ EndOf(1)' = Block(1)'.entry
        BY <1>1, <1>3, <4>1 DEF Queued
      <4> QED
        BY <1>5, <4>1, <4>2
    <3> QED
      BY <3>1, <3>2
  <2> QED
    BY <1>6, <2>2, <2>3 DEF PlanDriven, Joins
<1> QED
  BY <1>6, <1>7, <1>8 DEF PlanDriven, ProfileFits

(* The plan that the queue has is a floor of the next one.                 *)
LEMMA PlanFloor ==
  ASSUME DriveOK, ~Empty
  PROVE  FloorAt([j \in 1 .. Count |-> EndOf(j)], block_buffer, tail, 0, Count)
<1>1. Queued
  BY BlockFacts DEF DriveOK, PlannerTyped
<1>2. PICK g : g = [j \in 1 .. Count |-> EndOf(j)]
  OBVIOUS
<1>3. /\ Count \in Nat /\ Count # 0 /\ EndOf(Count) = 0
      /\ \A j \in 1 .. Count : EndOf(j) \in Nat
      /\ \A j \in 1 .. Count - 1 : EndOf(j) = Block(j).entry /\ Block(j) = At(block_buffer, tail, j)
  BY <1>1 DEF Queued
<1>4. g \in [0 + 1 .. Count -> Nat] /\ g[Count] = 0
  BY <1>2, <1>3
<1>5. ASSUME NEW j \in 0 + 1 .. Count - 1
      PROVE  LET b == At(block_buffer, tail, j)
             IN /\ g[j] <= b.max /\ g[j] <= g[j + 1] + b.dist
                /\ b.entry = b.max => g[j] = b.max
  <2>1. j \in 1 .. Count - 1 /\ j \in 1 .. Count /\ j + 1 \in 1 .. Count
    BY <1>3
  <2>2. g[j] = Block(j).entry /\ g[j + 1] = EndOf(j + 1)
    BY <1>2, <1>3, <2>1
  <2>3. Block(j).entry <= Block(j).max /\ Block(j).entry <= EndOf(j + 1) + Block(j).dist
    BY <2>1 DEF DriveOK, Chain
  <2> QED
    BY <1>3, <2>1, <2>2, <2>3
<1> QED
  BY <1>2, <1>4, <1>5 DEF FloorAt

(* A plan made anew from the tail on, when a hold is complete.             *)
AfterHold(current, n, g) ==
  /\ n \in Nat /\ n = Count /\ n > 0 /\ Count' = n /\ tail' = tail
  /\ current = ParametersUpdated(block_buffer)
  /\ block_buffer'[tail] = current[tail]
  /\ \A j \in 0 .. n - 1 : Same(At(block_buffer', tail, j), Block(j))
  /\ \A j \in 1 .. n - 1 : g[j] = EndOf(j)
  /\ Recalculation(block_buffer', current, tail, 0, n, g)
  /\ MovesTo(block_buffer', tail, 0, n, planned')

LEMMA HoldReplanned ==
  ASSUME DriveOK, ~Empty, HoldDone
  PROVE  \E current, n, g : AfterHold(current, n, g)
<1>1. TypeOK /\ Queued /\ tail \in Slot /\ head \in Slot /\ block_buffer \in Buffers
  BY BlockFacts, Typed DEF DriveOK, PlannerTyped
<1>2. PICK current : current = ParametersUpdated(block_buffer)
  OBVIOUS
<1>3. /\ current \in Buffers /\ \A i \in Slot \ {tail} : current[i] = block_buffer[i]
  BY <1>1, <1>2, UpdatedFacts
<1>4. /\ block_buffer' = Recalculated(current, tail, head) /\ planned' = PlannedUpTo(current, tail, head)
      /\ tail' = tail /\ head' = head
  BY <1>2 DEF HoldDone, plan_cycle_reinitialize
<1>5. PICK n \in Nat : n = Count /\ n = Behind(tail, head) /\ n > 0
  BY <1>1 DEF Queued, Count
<1>6. Behind(tail, tail) = 0
  BY <1>1, BehindFacts
<1>7. PICK g : g = [j \in 1 .. n |-> EndOf(j)] /\ FloorAt(g, block_buffer, tail, 0, n)
  BY <1>5, PlanFloor
<1>8. SlowsUpTo(block_buffer, tail, 0, n, g)
  BY DEF SlowsUpTo
<1>9. /\ Count' = n /\ block_buffer'[tail] = current[tail]
      /\ \A j \in 0 .. n - 1 : Same(At(block_buffer', tail, j), At(block_buffer, tail, j))
      /\ Recalculation(block_buffer', current, tail, 0, n, g)
  BY <1>1, <1>2, <1>4, <1>5, <1>6, <1>7, <1>8, Replanned
<1>10. \A j \in 0 .. n - 1 : Block(j) = At(block_buffer, tail, j)
  BY <1>1, <1>5 DEF Queued
<1>11. FloorAt(g, current, tail, 0, n)
  <2>1. ASSUME NEW j \in 0 + 1 .. n - 1 PROVE At(current, tail, j) = At(block_buffer, tail, j)
    <3>1. j \in 0 .. Count - 1 /\ j # 0
      BY <1>5
    <3> QED
      BY <1>1, <1>3, <3>1 DEF Queued, At
  <2> QED
    BY <1>7, <2>1 DEF FloorAt
<1>12. MovesTo(block_buffer', tail, 0, n, planned')
  BY <1>1, <1>3, <1>4, <1>5, <1>6, <1>11, RecalculationFacts
<1>13. \A j \in 1 .. n - 1 : g[j] = EndOf(j)
  BY <1>5, <1>7
<1> QED
  BY <1>2, <1>4, <1>5, <1>9, <1>10, <1>12, <1>13 DEF AfterHold

(* From block q on the plan is new, and before it the plan stands.         *)
LEMMA AcceleratesKept ==
  ASSUME PlanDriven, NEW buffer, NEW q \in Nat, NEW n \in Nat, NEW g, Count \in Nat, q < Count,
         tail' = tail, Count' = n, Recalculation(block_buffer', buffer, tail, q, n, g),
         \A j \in 1 .. q : At(block_buffer', tail, j) = Block(j)
  PROVE  Accelerates'
<1>1. ASSUME NEW j \in 2 .. n - 1
      PROVE  At(block_buffer', tail, j).entry
               <= At(block_buffer', tail, j - 1).entry + At(block_buffer', tail, j - 1).dist
  <2>1. CASE j <= q
    <3>1. j \in 1 .. q /\ j - 1 \in 1 .. q /\ j \in 2 .. Count - 1
      BY <2>1
    <3> QED
      BY <3>1 DEF PlanDriven, Accelerates
  <2>2. CASE ~(j <= q)
    <3>1. j \in q + 1 .. n - 1
      BY <2>2
    <3> QED
      BY <3>1 DEF Recalculation, Driven, From
  <2> QED
    BY <2>1, <2>2
<1> QED
  BY <1>1 DEF Accelerates, Block, At

LEMMA HoldDonePlanned ==
  ASSUME DriveOK, DriveOK', PlanDriven, HoldDone
  PROVE  PlanDriven'
<1>1. TypeOK /\ Queued /\ Queued'
  BY BlockFacts, BlockFactsNext DEF DriveOK, PlannerTyped
<1>2. /\ st_update_plan_block_parameters /\ UNCHANGED <<tail, head, override>> /\ RunOut /\ ~Braking'
  BY DEF HoldDone, plan_cycle_reinitialize, Braking
<1>3. prep'.current = prep.current /\ (prep'.decel <=> prep.decel) /\ pl_block' = NULL
  BY <1>1, <1>2, UpdateTyped
<1>4. prep.current = 0
  BY <1>2, EndsFollow DEF EndsOfBlocks, StopsAtZero
<1>5. CASE Empty
  <2>1. Empty' /\ Count' = 0
    BY <1>1, <1>2, <1>5 DEF Empty, Queued
  <2> QED
    BY <1>3, <2>1 DEF PlanDriven, Accelerates, Joins, ProfileFits
<1>6. CASE ~Empty
  <2>1. PICK current, n, g : AfterHold(current, n, g)
    BY <1>6, HoldReplanned
  <2>2. /\ n \in Nat /\ n = Count /\ n > 0 /\ Count' = n /\ tail' = tail
        /\ block_buffer'[tail] = current[tail]
        /\ Recalculation(block_buffer', current, tail, 0, n, g)
    BY <2>1 DEF AfterHold
  <2>3. Accelerates'
    BY <2>2, AcceleratesKept
  <2>4. PICK d \in Nat, x \in Nat, m \in Nat : d = Block(0)'.dist /\ x = EndOf(1)' /\ m = Nominal(0)'
    <3>1. 0 \in 0 .. Count' - 1 /\ 1 \in 1 .. Count'
      BY <2>2
    <3> QED
      BY <1>1, <3>1 DEF Queued
  <2>5. x <= 0 + d
    <3>1. CASE n = 1
      BY <1>1, <2>2, <2>4, <3>1 DEF Queued
    <3>2. CASE n # 1
      <4>1. 1 \in 0 + 1 .. n - 1 /\ 1 \in 1 .. Count' - 1 /\ 1 - 1 = 0
        BY <2>2, <3>2
      <4>2. At(block_buffer', tail, 1).entry <= At(block_buffer', tail, 0).entry + At(block_buffer', tail, 0).dist
        BY <2>2, <4>1 DEF Recalculation, Driven, From
      <4>3. x = At(block_buffer', tail, 1).entry /\ Block(0)' = At(block_buffer', tail, 0)
        BY <1>1, <2>2, <2>4, <4>1 DEF Queued, Block, At
      <4>4. Block(0)'.entry = 0
        <5>1. Block(0)' = block_buffer'[tail]
          BY <1>1, <1>2 DEF Queued
        <5>2. prep'.recalc => Block(0)'.entry = prep'.current
          BY DEF DriveOK, Speeds
        <5>3. ~prep'.recalc => Block(0)'.entry = prep'.current
          <6>1. ~Empty'
            BY <1>2, <1>6 DEF Empty
          <6> QED
            BY <1>2, <1>3, <6>1 DEF DriveOK, Speeds, PlanDriven
        <5> QED
          BY <1>3, <1>4, <5>2, <5>3
      <4> QED
        BY <2>4, <4>2, <4>3, <4>4
    <3> QED
      BY <3>1, <3>2
  <2>6. Joins'
    <3>1. 0 <= m /\ 0 <= x + d
      BY <2>4
    <3> QED
      BY <1>3, <1>4, <2>4, <2>5, <3>1 DEF Joins
  <2> QED
    BY <1>3, <2>3, <2>6 DEF PlanDriven, ProfileFits
<1> QED
  BY <1>5, <1>6

LEMMA FirstLineJoins ==
  ASSUME DriveOK, DriveOK', PlanDriven, NEW shape \in Shapes, BufferLine(shape), Empty
  PROVE  PlanDriven'
<1>1. TypeOK /\ RingOK /\ Queued /\ Queued'
  BY BlockFacts, BlockFactsNext DEF DriveOK, PlannerTyped
<1>2. Count' = 1 /\ pl_block' = NULL /\ prep' = prep
  BY <1>1, FirstLine
<1>3. prep'.current = 0 /\ ~prep'.decel
  BY <1>2 DEF DriveOK, Stoppable, PlanDriven
<1>4. PICK d \in Nat, m \in Nat : d = Block(0)'.dist /\ m = Nominal(0)'
  <2>1. 0 \in 0 .. Count' - 1
    BY <1>2
  <2> QED
    BY <1>1, <2>1 DEF Queued
<1>5. EndOf(1)' = 0
  BY <1>1, <1>2 DEF Queued
<1>6. Joins'
  <2>1. 0 <= m /\ 0 <= 0 + d
    BY <1>4
  <2> QED
    BY <1>3, <1>4, <1>5, <2>1 DEF Joins
<1> QED
  BY <1>2, <1>3, <1>6 DEF PlanDriven, Accelerates, ProfileFits

LEMMA AddedLineJoins ==
  ASSUME DriveOK, DriveOK', PlanDriven, NEW shape \in Shapes, BufferLine(shape), ~Empty
  PROVE  PlanDriven'
<1>1. TypeOK /\ Queued /\ Queued' /\ tail \in Slot
  BY BlockFacts, BlockFactsNext DEF DriveOK, PlannerTyped, TypeOK
<1>2. PICK current, q, n, g : AddedLine(shape, current, q, n, g)
  BY LineAdded
<1>3. /\ q \in Nat /\ n \in Nat /\ n = Count /\ q < n /\ Count' = n + 1
      /\ \A j \in q + 1 .. n : g[j] = EndOf(j)
      /\ \A j \in 0 .. n - 1 : Same(At(block_buffer', tail, j), Block(j))
      /\ \A j \in 1 .. q : At(block_buffer', tail, j) = Block(j)
      /\ Recalculation(block_buffer', current, tail, q, n + 1, g)
      /\ \/ st_update_plan_block_parameters
         \/ UNCHANGED prepVars /\ q # 0
  BY <1>2 DEF AddedLine
<1>4. /\ UNCHANGED <<tail, override, step_control, mode>> /\ head' = next_head /\ mode \in {"idle", "cycle"}
  BY BufferLineIs DEF BufferLine
<1>5. prep'.current = prep.current /\ (prep'.decel <=> prep.decel)
      /\ (pl_block' = NULL \/ (UNCHANGED prepVars /\ q # 0))
  BY <1>1, <1>3, UpdateTyped DEF prepVars
<1>6. Accelerates'
  BY <1>3, <1>4, AcceleratesKept
<1>7. ~Braking /\ ~Braking' /\ (Holding' <=> Holding)
  BY <1>4 DEF Braking, Holding
<1>8. Block(0)'.dist = Block(0).dist /\ Nominal(0)' = Nominal(0)
  <2>1. 0 \in 0 .. n - 1
    BY <1>3
  <2>2. Same(Block(0)', Block(0))
    BY <1>3, <1>4, <2>1 DEF Block, At
  <2> QED
    BY <1>4, <2>2 DEF Same, Nominal
<1>9. q # 0 => EndOf(1)' = EndOf(1)
  <2> SUFFICES ASSUME q # 0 PROVE EndOf(1)' = EndOf(1)
    OBVIOUS
  <2>1. 1 \in 1 .. q /\ 1 \in 1 .. Count - 1 /\ 1 \in 1 .. Count' - 1
    BY <1>3
  <2>2. EndOf(1) = Block(1).entry /\ EndOf(1)' = Block(1)'.entry
    BY <1>1, <2>1 DEF Queued
  <2>3. Block(1)' = Block(1)
    BY <1>3, <1>4, <2>1 DEF Block, At
  <2> QED
    BY <2>2, <2>3
<1>10. Joins'
  <2>1. PICK v \in Nat, d \in Nat, x \in Nat, m \in Nat :
          /\ v = prep.current /\ d = Block(0).dist /\ x = EndOf(1) /\ m = Nominal(0)
    <3>1. 0 \in 0 .. Count - 1
      BY <1>3
    <3> QED
      BY <1>1, <3>1, ExitBelowNominal DEF Queued
  <2>2. v <= m /\ v <= x + d /\ x <= v + d
    BY <1>7, <2>1 DEF PlanDriven, Joins
  <2>3. PICK y \in Nat : y = EndOf(1)'
    <3>1. 1 \in 1 .. Count'
      BY <1>3
    <3> QED
      BY <1>1, <3>1 DEF Queued
  <2>4. y = x \/ (y <= v + d /\ (y = v + d \/ y >= x))
    <3>1. CASE q # 0
      BY <1>9, <2>1, <2>3, <3>1
    <3>2. CASE q = 0
      <4>1. 1 \in q + 1 .. (n + 1) - 1 /\ 1 \in q + 1 .. n /\ 1 \in 1 .. Count' - 1 /\ 1 - 1 = 0
        BY <1>3, <3>2
      <4>2. Block(0)'.entry = v
        <5>1. ~Empty' /\ ~prep'.decel /\ pl_block' = NULL
          <6>1. Count' # 0
            BY <1>3
          <6> QED
            BY <1>1, <1>5, <3>2, <6>1 DEF Queued, PlanDriven
        <5> QED
          BY <1>5, <1>7, <2>1, <5>1 DEF DriveOK, Speeds
      <4>3. Block(0)' = At(block_buffer', tail, 0) /\ y = At(block_buffer', tail, 1).entry
        BY <1>1, <1>4, <2>3, <4>1 DEF Queued, Block, At
      <4>4. From(block_buffer', tail, 1) = v + d
        BY <1>8, <2>1, <4>1, <4>2, <4>3 DEF From
      <4>5. /\ At(block_buffer', tail, 1).entry <= From(block_buffer', tail, 1)
            /\ At(block_buffer', tail, 1).entry = From(block_buffer', tail, 1)
               \/ At(block_buffer', tail, 1).entry >= g[1]
        BY <1>3, <4>1 DEF Recalculation, Driven
      <4> QED
        BY <1>3, <2>1, <4>1, <4>3, <4>4, <4>5
    <3> QED
      BY <3>1, <3>2
  <2>5. v <= y + d /\ y <= v + d
    BY <2>2, <2>4
  <2> QED
    BY <1>5, <1>8, <2>1, <2>2, <2>3, <2>5 DEF Joins
<1>11. ProfileFits'
  <2>1. CASE pl_block' = NULL
    BY <2>1 DEF ProfileFits
  <2>2. CASE UNCHANGED prepVars /\ q # 0
    <3>1. UNCHANGED <<pl_block, prep, profile>> /\ EndOf(1)' = EndOf(1)
      BY <1>9, <2>2 DEF prepVars
    <3>2. Held(profile, prep.current, Block(0).dist) => Held(profile, prep.current, Block(0).dist)'
      BY <1>7, <1>8, <3>1 DEF Held
    <3>3. Keeps(profile, prep.current, Block(0).dist) => Keeps(profile, prep.current, Block(0).dist)'
      BY <1>7, <1>8, <3>1 DEF Keeps
    <3>4. Exact(profile, prep.current, Block(0).dist) => Exact(profile, prep.current, Block(0).dist)'
      BY <1>8, <3>1 DEF Exact
    <3> QED
      BY <3>1, <3>2, <3>3, <3>4 DEF PlanDriven, ProfileFits, Fits
  <2> QED
    BY <1>5, <2>1, <2>2
<1> QED
  BY <1>5, <1>6, <1>10, <1>11 DEF PlanDriven

LEMMA PrepSegmentPlanned ==
  ASSUME DriveOK, DriveOK', PlanDriven, NEW r, PrepSegment(r)
  PROVE  PlanDriven'
<1>1. TypeOK'
  BY DEF DriveOK, PlannerTyped
<1>2. PICK n, p, v, d, w, x, m : FitSegment(r, n, p, v, d, w, x, m)
  BY FitSegmentCut
<1> QED
  BY <1>1, <1>2, WithinBlockFits, BlockDoneFits

LEMMA StepPlanned ==
  ASSUME NoOverride
  PROVE  DriveOK /\ DriveOK' /\ PlanDriven /\ [Next]_vars => PlanDriven'
<1> SUFFICES ASSUME DriveOK, DriveOK', PlanDriven, [Next]_vars PROVE PlanDriven'
  OBVIOUS
<1>1. ASSUME NEW shape \in Shapes, BufferLine(shape) PROVE PlanDriven'
  BY <1>1, FirstLineJoins, AddedLineJoins
<1>2. ASSUME NEW o \in Overrides, Override(o) PROVE FALSE
  BY <1>2 DEF NoOverride, Override, DriveOK, PlannerTyped, TypeOK
<1>3. ASSUME NEW r \in 0 .. block_buffer[tail].dist, PrepSegment(r) PROVE PlanDriven'
  BY <1>3, PrepSegmentPlanned
<1>4. CASE CycleStart
  BY <1>4, OthersPlanned DEF CycleStart, Braking
<1>5. CASE JogStart
  BY <1>5, OthersPlanned DEF JogStart, Braking
<1>6. CASE HoldBegin
  BY <1>6, HoldBeginPlanned
<1>7. CASE CycleDone
  BY <1>7, OthersPlanned DEF CycleDone, Braking
<1>8. CASE HoldDone
  BY <1>8, HoldDonePlanned
<1>9. CASE CancelDone
  BY <1>9, ResetPlanned DEF CancelDone
<1>10. CASE Abort
  BY <1>10, ResetPlanned DEF Abort
<1>11. CASE UNCHANGED vars
  BY <1>11, OthersPlanned DEF vars, Braking
<1> QED
  BY <1>1, <1>2, <1>3, <1>4, <1>5, <1>6, <1>7, <1>8, <1>9, <1>10, <1>11 DEF Next

LEMMA PlanIsFeasible == DriveOK /\ PlanDriven => Feasible
<1> SUFFICES ASSUME DriveOK, PlanDriven, ~Empty, ~Holding, NEW i \in 0 .. Count - 1
             PROVE  /\ EntryOf(i + 1) <= EntryOf(i) + Block(i).dist
                    /\ EntryOf(i) <= EntryOf(i + 1) + Block(i).dist
  BY DEF Feasible
<1>1. Queued /\ Count \in Nat /\ Count # 0
  BY BlockFacts DEF DriveOK, PlannerTyped, Queued
<1>2. ~Braking
  BY DEF DriveOK, Holds
<1>3. EntryOf(0) = prep.current
  BY SegmentSpeedIs DEF EntryOf, Now, SegmentSpeed
<1>4. ASSUME NEW j \in 1 .. Count PROVE EntryOf(j) = EndOf(j)
  BY <1>1, <1>4 DEF EntryOf, Queued
<1>5. CASE i = 0
  <2>1. EntryOf(i + 1) = EndOf(1)
    <3>1. 1 \in 1 .. Count /\ i + 1 = 1
      BY <1>1, <1>5
    <3> QED
      BY <1>4, <3>1
  <2> QED
    BY <1>2, <1>3, <1>5, <2>1 DEF PlanDriven, Joins
<1>6. CASE i # 0
  <2>1. i \in 1 .. Count - 1 /\ i \in 1 .. Count /\ i + 1 \in 1 .. Count /\ (i + 1) - 1 = i
    BY <1>1, <1>6
  <2>2. PICK e \in Nat, f \in Nat, d \in Nat :
          e = Block(i).entry /\ f = EndOf(i + 1) /\ d = Block(i).dist
    BY <1>1, <2>1 DEF Queued
  <2>3. EntryOf(i) = e /\ EntryOf(i + 1) = f
    BY <1>1, <1>4, <2>1, <2>2 DEF Queued
  <2>4. e <= f + d
    BY <2>1, <2>2 DEF DriveOK, Chain
  <2>5. f <= e + d
    <3>1. CASE i + 1 = Count
      BY <1>1, <2>2, <3>1 DEF Queued
    <3>2. CASE i + 1 # Count
      <4>1. i + 1 \in 2 .. Count - 1 /\ i + 1 \in 1 .. Count - 1
        BY <1>1, <2>1, <3>2
      <4>2. f = Block(i + 1).entry
        BY <1>1, <2>2, <4>1 DEF Queued
      <4>3. Block(i + 1).entry <= Block((i + 1) - 1).entry + Block((i + 1) - 1).dist
        BY <4>1 DEF PlanDriven, Accelerates
      <4> QED
        BY <2>1, <2>2, <4>2, <4>3
    <3> QED
      BY <3>1, <3>2
  <2> QED
    BY <2>2, <2>3, <2>4, <2>5
<1> QED
  BY <1>5, <1>6

LEMMA AtMostCut ==
  ASSUME NEW v \in Nat, NEW w \in Nat, NEW cut \in Int,
         v = w \/ (0 <= cut /\ w <= v + cut /\ v <= w + cut)
  PROVE  w - v <= Max({0, cut}) /\ v - w <= Max({0, cut})
<1>1. \A m : (m \in {0, cut} /\ \A y \in {0, cut} : m >= y) => Max({0, cut}) \in {0, cut}
                 /\ \A y \in {0, cut} : Max({0, cut}) >= y
  BY DEF Max
<1>2. Max({0, cut}) \in {0, cut} /\ \A y \in {0, cut} : Max({0, cut}) >= y
  <2>1. CASE cut <= 0
    BY <1>1, <2>1
  <2>2. CASE ~(cut <= 0)
    BY <1>1, <2>2
  <2> QED
    BY <2>1, <2>2
<1> QED
  BY <1>2

(* The speed changes in a segment only, or in a reset.                     *)
LEMMA StepChangesSpeed ==
  ASSUME NoOverride, DriveOK, DriveOK', PlanDriven, [Next]_vars, ~Reset
  PROVE  LET cut == block_buffer[tail].dist - block_buffer'[tail].dist
         IN /\ prep'.current - prep.current <= Max({0, cut})
            /\ prep.current - prep'.current <= Max({0, cut})
<1>1. TypeOK /\ TypeOK' /\ Queued /\ tail \in Slot /\ block_buffer[tail] \in Blocks
      /\ prep.current \in Nat /\ prep'.current \in Nat
  BY BlockFacts, BlockFactsNext, Typed DEF DriveOK, PlannerTyped, Queued
<1>2. block_buffer' \in Buffers
  BY <1>1 DEF TypeOK, Buffers, Blocks
<1>3. PICK cut \in Int : cut = block_buffer[tail].dist - block_buffer'[tail].dist
  BY <1>1, <1>2 DEF Buffers, Blocks
<1>4. ASSUME prep'.current = prep.current
      PROVE  prep'.current - prep.current <= Max({0, cut}) /\ prep.current - prep'.current <= Max({0, cut})
  BY <1>1, <1>4, AtMostCut
<1>5. ASSUME NEW shape \in Shapes, BufferLine(shape) PROVE prep'.current = prep.current
  <2>1. CASE Empty
    BY <1>1, <1>5, <2>1, FirstLine DEF DriveOK, PlannerTyped
  <2>2. CASE ~Empty
    <3>1. st_update_plan_block_parameters \/ UNCHANGED prepVars
      BY <1>5, <2>2, LineAdded DEF AddedLine
    <3> QED
      BY <1>1, <3>1, UpdateTyped DEF prepVars
  <2> QED
    BY <2>1, <2>2
<1>6. ASSUME NEW r \in 0 .. block_buffer[tail].dist, PrepSegment(r)
      PROVE  prep'.current - prep.current <= Max({0, cut}) /\ prep.current - prep'.current <= Max({0, cut})
  <2>1. PICK n, p, v, d, w, x, m : FitSegment(r, n, p, v, d, w, x, m)
    BY <1>6, FitSegmentCut
  <2>2. /\ SegmentCut(r, n, p, v, d, w) /\ w \in Nat
        /\ w <= v + (d - r) /\ v <= w + (d - r)
    BY <2>1 DEF FitSegment
  <2>3. /\ v \in Nat /\ v = prep.current /\ w = prep'.current /\ d = Block(0).dist
        /\ d \in Nat /\ r \in Nat /\ Same(block_buffer'[tail], [block_buffer[tail] EXCEPT !.dist = r])
    BY <2>2 DEF SegmentCut
  <2>4. Block(0) = block_buffer[tail] /\ block_buffer'[tail].dist = r
    BY <1>1, <2>3 DEF Queued, Same, Blocks
  <2>5. cut = d - r /\ 0 <= cut
    BY <1>3, <1>6, <2>3, <2>4
  <2> QED
    BY <2>2, <2>3, <2>5, AtMostCut
<1>7. CASE HoldBegin \/ HoldDone
  <2>1. st_update_plan_block_parameters
    BY <1>7 DEF HoldBegin, HoldDone, plan_cycle_reinitialize
  <2> QED
    BY <1>1, <1>3, <1>4, <2>1, UpdateTyped
<1>8. CASE CycleStart \/ JogStart \/ CycleDone \/ UNCHANGED vars
  <2>1. prep' = prep
    BY <1>8 DEF CycleStart, JogStart, CycleDone, vars, prepVars
  <2> QED
    BY <1>3, <1>4, <2>1
<1>9. ASSUME CancelDone \/ Abort PROVE FALSE
  BY <1>9 DEF CancelDone, Abort, ResetBuffers, Reset
<1>10. ASSUME NEW o \in Overrides, Override(o) PROVE FALSE
  BY <1>1, <1>10 DEF NoOverride, Override, TypeOK
<1> QED
  BY <1>3, <1>4, <1>5, <1>6, <1>7, <1>8, <1>9, <1>10 DEF Next

LEMMA PlanAlwaysDriven ==
  ASSUME NoOverride
  PROVE  Spec => [](DriveOK /\ PlanDriven)
<1>1. DriveOK /\ [Next]_vars => DriveOK'
  BY StepDriven DEF NoOverride, OneRateOrNoOverride
<1>2. DriveOK /\ DriveOK' /\ PlanDriven /\ [Next]_vars => PlanDriven'
  BY StepPlanned
<1> QED
  BY InitDriven, InitPlanned, <1>1, <1>2, PTL DEF Spec

(* Feasible: while no override changes, between any two blocks of the      *)
(* queue the speed changes by no more than their distance allows           *)
(* (planner.c:97-176), whatever lines, holds and resets come when.         *)
THEOREM PlanAlwaysFeasible ==
  ASSUME NoOverride
  PROVE  Spec => []Feasible
BY PlanIsFeasible, PlanAlwaysDriven, PTL

(* Smooth: then no segment changes the speed by more than its distance     *)
(* allows, and nothing else changes it (stepper.c:571-810).                *)
THEOREM MachineIsSmooth ==
  ASSUME NoOverride
  PROVE  Spec => Smooth
<1> DEFINE NoJump ==
      LET cut == block_buffer[tail].dist - block_buffer'[tail].dist
      IN ~Reset =>
           /\ prep'.current - prep.current <= Max({0, cut})
           /\ prep.current - prep'.current <= Max({0, cut})
<1>1. DriveOK /\ DriveOK' /\ PlanDriven /\ [Next]_vars => [NoJump]_vars
  BY StepChangesSpeed
<1> QED
  BY <1>1, PlanAlwaysDriven, PTL DEF Spec, Smooth

-----------------------------------------------------------------------------
(* The plan is the fastest there is.  First for speeds e and limits L of   *)
(* which only the numbers matter: block j begins D[j] from the machine.    *)
Drives(e, D, n) ==
  /\ n \in Nat /\ e \in [0 .. n -> Nat] /\ D \in [0 .. n -> Nat]
  /\ \A j \in 0 .. n - 1 :
       /\ D[j] < D[j + 1]
       /\ e[j + 1] + D[j] <= e[j] + D[j + 1] /\ e[j] + D[j] <= e[j + 1] + D[j + 1]
Reached(e, D, j) == e[j] + D[j - 1] = e[j - 1] + D[j]
Slowing(e, D, j) == e[j] + D[j] = e[j + 1] + D[j + 1]
Bounded(e, L, D, n) ==
  /\ L \in [0 .. n -> Nat] /\ e[0] = L[0] /\ e[n] = L[n]
  /\ \A j \in 0 .. n : e[j] <= L[j]
  /\ \A j \in 1 .. n - 1 : e[j] = L[j] \/ Reached(e, D, j) \/ Slowing(e, D, j)
Away(D, i, j) == IF i <= j THEN D[j] - D[i] ELSE D[i] - D[j]

(* What grows in each step grows.                                          *)
LEMMA Monotone ==
  ASSUME NEW n \in Nat, NEW f \in [0 .. n -> Int], \A j \in 0 .. n - 1 : f[j] <= f[j + 1]
  PROVE  \A i \in 0 .. n, j \in 0 .. n : i <= j => f[i] <= f[j]
<1> DEFINE T == {k \in Nat : \A i \in 0 .. n, j \in 0 .. n : j = i + k => f[i] <= f[j]}
<1>1. 0 \in T
  <2>1. \A i \in 0 .. n, j \in 0 .. n : j = i + 0 => j = i /\ f[i] \in Int
    OBVIOUS
  <2> QED
    BY <2>1
<1>2. ASSUME NEW k \in Nat, k \in T PROVE k + 1 \in T
  <2> SUFFICES ASSUME NEW i \in 0 .. n, NEW j \in 0 .. n, j = i + (k + 1) PROVE f[i] <= f[j]
    OBVIOUS
  <2>1. j - 1 \in 0 .. n - 1 /\ j - 1 \in 0 .. n /\ j - 1 = i + k /\ (j - 1) + 1 = j
    OBVIOUS
  <2>2. f[i] <= f[j - 1] /\ f[j - 1] <= f[j]
    BY <1>2, <2>1
  <2>3. f[i] \in Int /\ f[j - 1] \in Int /\ f[j] \in Int
    BY <2>1
  <2> QED
    BY <2>2, <2>3
<1>3. Nat \subseteq T
  <2> HIDE DEF T
  <2> QED BY <1>1, <1>2, Induction
<1> TAKE i \in 0 .. n, j \in 0 .. n
<1> HAVE i <= j
<1>4. PICK k \in Nat : j = i + k
  <2>1. j - i \in Nat /\ j = i + (j - i)
    OBVIOUS
  <2> QED
    BY <2>1
<1>5. k \in T
  BY <1>3
<1> QED
  BY <1>4, <1>5

LEMMA NoFaster ==
  ASSUME NEW e, NEW D, NEW n, Drives(e, D, n), NEW i \in 0 .. n, NEW j \in 0 .. n
  PROVE  e[j] <= e[i] + Away(D, i, j)
<1> DEFINE a == [k \in 0 .. n |-> D[k] - e[k]]
           b == [k \in 0 .. n |-> D[k] + e[k]]
<1>1. n \in Nat /\ e \in [0 .. n -> Nat] /\ D \in [0 .. n -> Nat]
  BY DEF Drives
<1>2. a \in [0 .. n -> Int] /\ b \in [0 .. n -> Int]
  BY <1>1
<1>3. ASSUME NEW k \in 0 .. n - 1 PROVE a[k] <= a[k + 1] /\ b[k] <= b[k + 1]
  <2>1. k \in 0 .. n /\ k + 1 \in 0 .. n
    BY <1>1
  <2>2. e[k + 1] + D[k] <= e[k] + D[k + 1] /\ e[k] + D[k] <= e[k + 1] + D[k + 1]
    BY DEF Drives
  <2>3. a[k] = D[k] - e[k] /\ a[k + 1] = D[k + 1] - e[k + 1]
        /\ b[k] = D[k] + e[k] /\ b[k + 1] = D[k + 1] + e[k + 1]
    BY <2>1
  <2>4. e[k] \in Nat /\ e[k + 1] \in Nat /\ D[k] \in Nat /\ D[k + 1] \in Nat
    BY <1>1, <2>1
  <2> HIDE DEF a, b
  <2> QED
    BY <2>2, <2>3, <2>4
<1>4. /\ a[i] = D[i] - e[i] /\ a[j] = D[j] - e[j] /\ b[i] = D[i] + e[i] /\ b[j] = D[j] + e[j]
      /\ e[i] \in Nat /\ e[j] \in Nat /\ D[i] \in Nat /\ D[j] \in Nat
  BY <1>1
<1> HIDE DEF a, b
<1>5. CASE i <= j
  <2>1. a[i] <= a[j]
    BY <1>1, <1>2, <1>3, <1>5, Monotone
  <2> QED
    BY <1>4, <1>5, <2>1 DEF Away
<1>6. CASE ~(i <= j)
  <2>1. j <= i
    BY <1>1, <1>6
  <2>2. b[j] <= b[i]
    BY <1>1, <1>2, <1>3, <2>1, Monotone
  <2> QED
    BY <1>4, <1>6, <2>2 DEF Away
<1> QED
  BY <1>5, <1>6

(* A speed that is reached at full acceleration has its limit before.      *)
LEMMA LimitBefore ==
  ASSUME NEW e, NEW L, NEW D, NEW n, Drives(e, D, n), Bounded(e, L, D, n),
         NEW j \in 1 .. n, Reached(e, D, j)
  PROVE  \E i \in 0 .. n : e[j] = L[i] + Away(D, i, j)
<1>1. n \in Nat /\ e \in [0 .. n -> Nat] /\ D \in [0 .. n -> Nat] /\ L \in [0 .. n -> Nat]
  BY DEF Drives, Bounded
<1> DEFINE Has(k) == \E i \in 0 .. n : i < k /\ e[k] = L[i] + (D[k] - D[i])
           T == {k \in Nat : k \in 1 .. n /\ Reached(e, D, k) => Has(k)}
<1>2. 0 \in T
  OBVIOUS
<1>3. ASSUME NEW k \in Nat, k \in T PROVE k + 1 \in T
  <2> SUFFICES ASSUME k + 1 \in 1 .. n, Reached(e, D, k + 1) PROVE Has(k + 1)
    OBVIOUS
  <2>1. k \in 0 .. n /\ k + 1 \in 0 .. n /\ k \in 0 .. n - 1 /\ (k + 1) - 1 = k
    BY <1>1
  <2>2. PICK x \in Nat, y \in Nat, c \in Nat, d \in Nat :
          x = e[k] /\ y = e[k + 1] /\ c = D[k] /\ d = D[k + 1]
    BY <1>1, <2>1
  <2>3. c < d /\ y + c = x + d
    BY <2>1, <2>2 DEF Drives, Reached
  <2>4. CASE x = L[k]
    <3>1. y = L[k] + (d - c)
      BY <2>2, <2>3, <2>4
    <3> QED
      BY <2>1, <2>2, <3>1
  <2>5. CASE x # L[k]
    <3>1. k \in 1 .. n - 1 /\ k \in 1 .. n
      BY <1>1, <2>1, <2>2, <2>5 DEF Bounded
    <3>2. ~Slowing(e, D, k)
      BY <2>2, <2>3 DEF Slowing
    <3>3. Reached(e, D, k)
      BY <2>2, <2>5, <3>1, <3>2 DEF Bounded
    <3>4. PICK i \in 0 .. n : i < k /\ x = L[i] + (c - D[i])
      BY <1>3, <2>2, <3>1, <3>3
    <3>5. L[i] \in Nat /\ D[i] \in Nat /\ i < k + 1
      BY <1>1, <2>1, <3>4
    <3>6. y = L[i] + (d - D[i])
      BY <2>2, <2>3, <3>4, <3>5
    <3> QED
      BY <2>2, <3>5, <3>6
  <2> QED
    BY <2>4, <2>5
<1>4. Nat \subseteq T
  <2> HIDE DEF T
  <2> QED BY <1>2, <1>3, Induction
<1>5. j \in Nat
  BY <1>1
<1>6. PICK i \in 0 .. n : i < j /\ e[j] = L[i] + (D[j] - D[i])
  BY <1>4, <1>5
<1>7. i <= j
  BY <1>1, <1>6
<1> QED
  BY <1>6, <1>7 DEF Away

(* And one from which the machine slows down all along has it behind.      *)
LEMMA LimitBehind ==
  ASSUME NEW e, NEW L, NEW D, NEW n, Drives(e, D, n), Bounded(e, L, D, n),
         NEW j \in 0 .. n - 1, Slowing(e, D, j)
  PROVE  \E i \in 0 .. n : e[j] = L[i] + Away(D, i, j)
<1>1. n \in Nat /\ e \in [0 .. n -> Nat] /\ D \in [0 .. n -> Nat] /\ L \in [0 .. n -> Nat]
  BY DEF Drives, Bounded
<1> DEFINE Has(k) == \E i \in 0 .. n : i > k /\ e[k] = L[i] + (D[i] - D[k])
           T == {m \in Nat : n - m \in 0 .. n - 1 /\ Slowing(e, D, n - m) => Has(n - m)}
<1>2. 0 \in T
  <2>1. n - 0 \notin 0 .. n - 1
    BY <1>1
  <2> QED
    BY <2>1
<1>3. ASSUME NEW m \in Nat, m \in T PROVE m + 1 \in T
  <2>1. PICK k \in Int : k = n - (m + 1) /\ k + 1 = n - m
    BY <1>1
  <2> SUFFICES ASSUME k \in 0 .. n - 1, Slowing(e, D, k) PROVE Has(k)
    BY <2>1
  <2>2. k \in 0 .. n /\ k + 1 \in 0 .. n /\ k \in Nat /\ (k + 1) - 1 = k
    BY <1>1
  <2>3. PICK x \in Nat, y \in Nat, c \in Nat, d \in Nat :
          x = e[k] /\ y = e[k + 1] /\ c = D[k] /\ d = D[k + 1]
    BY <1>1, <2>2
  <2>4. c < d /\ x + c = y + d
    BY <2>2, <2>3 DEF Drives, Slowing
  <2>5. CASE y = L[k + 1]
    <3>1. x = L[k + 1] + (d - c) /\ k + 1 > k
      BY <2>2, <2>3, <2>4, <2>5
    <3> QED
      BY <2>2, <2>3, <3>1
  <2>6. CASE y # L[k + 1]
    <3>1. k + 1 # n
      BY <2>3, <2>6 DEF Bounded
    <3>2. k + 1 \in 1 .. n - 1 /\ k + 1 \in 0 .. n - 1
      BY <1>1, <2>2, <3>1
    <3>3. ~Reached(e, D, k + 1)
      BY <2>2, <2>3, <2>4 DEF Reached
    <3>4. Slowing(e, D, k + 1)
      BY <2>3, <2>6, <3>2, <3>3 DEF Bounded
    <3>5. PICK i \in 0 .. n : i > k + 1 /\ y = L[i] + (D[i] - d)
      BY <1>3, <2>1, <2>3, <3>2, <3>4
    <3>6. L[i] \in Nat /\ D[i] \in Nat /\ i > k
      BY <1>1, <2>2, <3>5
    <3>7. x = L[i] + (D[i] - c)
      BY <2>3, <2>4, <3>5, <3>6
    <3> QED
      BY <2>3, <3>6, <3>7
  <2> QED
    BY <2>5, <2>6
<1>4. Nat \subseteq T
  <2> HIDE DEF T
  <2> QED BY <1>2, <1>3, Induction
<1>5. PICK m \in Nat : m = n - j /\ n - m = j
  BY <1>1
<1>6. PICK i \in 0 .. n : i > j /\ e[j] = L[i] + (D[i] - D[j])
  BY <1>4, <1>5
<1>7. ~(i <= j)
  BY <1>1, <1>6
<1> QED
  BY <1>6, <1>7 DEF Away

LEMMA FastestPlan ==
  ASSUME NEW e, NEW L, NEW D, NEW n, Drives(e, D, n), Bounded(e, L, D, n), NEW j \in 1 .. n - 1
  PROVE  e[j] = Min({L[i] + Away(D, i, j) : i \in 0 .. n})
<1>1. n \in Nat /\ e \in [0 .. n -> Nat] /\ D \in [0 .. n -> Nat] /\ L \in [0 .. n -> Nat]
  BY DEF Drives, Bounded
<1>2. j \in 0 .. n /\ j \in 1 .. n /\ j \in 0 .. n - 1
  BY <1>1
<1>3. ASSUME NEW i \in 0 .. n PROVE e[j] <= L[i] + Away(D, i, j) /\ L[i] + Away(D, i, j) \in Int
  <2>1. PICK x \in Nat, y \in Nat, m \in Nat, a \in Int :
          x = e[j] /\ y = e[i] /\ m = L[i] /\ a = Away(D, i, j)
    <3>1. e[j] \in Nat /\ e[i] \in Nat /\ L[i] \in Nat /\ D[i] \in Nat /\ D[j] \in Nat
      BY <1>1, <1>2
    <3>2. Away(D, i, j) \in Int
      BY <3>1 DEF Away
    <3> QED
      BY <3>1, <3>2
  <2>2. x <= y + a /\ y <= m
    BY <1>2, <2>1, NoFaster DEF Bounded
  <2> QED
    BY <2>1, <2>2
<1>4. \E i \in 0 .. n : e[j] = L[i] + Away(D, i, j)
  <2>1. CASE e[j] = L[j]
    <3>1. Away(D, j, j) = 0 /\ L[j] \in Nat
      BY <1>1, <1>2 DEF Away
    <3> QED
      BY <1>2, <2>1, <3>1
  <2>2. CASE Reached(e, D, j)
    BY <1>2, <2>2, LimitBefore
  <2>3. CASE Slowing(e, D, j)
    BY <1>2, <2>3, LimitBehind
  <2> QED
    BY <2>1, <2>2, <2>3 DEF Bounded
<1>5. PICK S : S = {L[i] + Away(D, i, j) : i \in 0 .. n}
  OBVIOUS
<1>6. e[j] \in S /\ \A y \in S : e[j] <= y /\ y \in Int
  BY <1>3, <1>4, <1>5
<1>7. \A x \in S : (\A y \in S : x <= y) => x = e[j]
  <2> TAKE x \in S
  <2> HAVE \A y \in S : x <= y
  <2>1. x <= e[j] /\ e[j] <= x /\ x \in Int /\ e[j] \in Int
    BY <1>6
  <2> QED
    BY <2>1
<1>8. Min(S) = e[j]
  BY <1>6, <1>7 DEF Min
<1> QED
  BY <1>5, <1>8

(* The queue as such speeds and limits.                                    *)
LEMMA WayFacts ==
  ASSUME Queued
  PROVE  /\ Way \in [0 .. Count -> Nat] /\ Way[0] = 0
         /\ \A j \in 0 .. Count - 1 : Way[j + 1] = Way[j] + Block(j).dist
<1> DEFINE Value(j, before) == IF j = 0 THEN 0 ELSE before + Block(j - 1).dist
           Is(f) == f = [j \in 0 .. Count |-> Value(j, f[j - 1])]
           way == CHOOSE f : Is(f)
<1>1. Count \in Nat /\ \A j \in 0 .. Count - 1 : Block(j).dist \in Nat
  BY DEF Queued
<1>2. \A j \in 1 .. Count : \A m \in Nat : Value(j, m) \in Nat
  <2> TAKE j \in 1 .. Count
  <2> TAKE m \in Nat
  <2>1. j - 1 \in 0 .. Count - 1 /\ j # 0
    BY <1>1
  <2> QED
    BY <1>1, <2>1
<1>3. \E f : Is(f)
  <2> DEFINE step == [i \in Nat |-> [m \in Nat |-> IF i \in 1 .. Count THEN Value(i, m) ELSE m]]
  <2> HIDE DEF Value
  <2>1. step \in Steps(Nat)
    BY <1>2 DEF Steps
  <2>2. PICK r : Follows(r, Nat, 0, step, Count)
    <3> HIDE DEF step
    <3> QED
      BY <1>1, <2>1, Recursion
  <2>3. /\ r \in [0 .. Count -> Nat]
        /\ \A i \in 0 .. Count : r[i] = IF i = 0 THEN 0 ELSE step[i][r[i - 1]]
    BY <2>2 DEF Follows
  <2>4. ASSUME NEW i \in 0 .. Count PROVE r[i] = Value(i, r[i - 1])
    <3>1. i # 0 => i \in 1 .. Count /\ i \in Nat /\ r[i - 1] \in Nat
      BY <1>1, <2>3
    <3> QED
      BY <2>3, <3>1 DEF Value
  <2>5. r = [i \in 0 .. Count |-> r[i]]
    BY <2>3
  <2> QED
    BY <2>4, <2>5
<1>4. Way = way /\ Is(way)
  <2>1. Way = way
    BY DEF Way
  <2> QED
    BY <1>3, <2>1
<1>5. DOMAIN way = 0 .. Count /\ \A j \in 0 .. Count : way[j] = Value(j, way[j - 1])
  <2> HIDE DEF way, Value
  <2> QED
    BY <1>4
<1> HIDE DEF way
<1>6. way[0] = 0
  BY <1>1, <1>5
<1>7. ASSUME NEW j \in 0 .. Count - 1 PROVE way[j + 1] = way[j] + Block(j).dist
  <2>1. j + 1 \in 0 .. Count /\ j + 1 # 0 /\ (j + 1) - 1 = j
    BY <1>1
  <2> QED
    BY <1>5, <2>1
<1>8. \A j \in 0 .. Count : way[j] \in Nat
  <2> DEFINE T == {k \in Nat : k \in 0 .. Count => way[k] \in Nat}
  <2>1. 0 \in T
    BY <1>6
  <2>2. ASSUME NEW k \in Nat, k \in T PROVE k + 1 \in T
    <3> SUFFICES ASSUME k + 1 \in 0 .. Count PROVE way[k + 1] \in Nat
      OBVIOUS
    <3>1. k \in 0 .. Count - 1 /\ k \in 0 .. Count
      BY <1>1
    <3>2. way[k + 1] = way[k] + Block(k).dist /\ way[k] \in Nat /\ Block(k).dist \in Nat
      BY <1>1, <1>7, <2>2, <3>1
    <3> QED
      BY <3>2
  <2>3. Nat \subseteq T
    <3> HIDE DEF T
    <3> QED BY <2>1, <2>2, Induction
  <2> QED
    BY <1>1, <2>3
<1>9. way = [j \in 0 .. Count |-> way[j]]
  BY <1>4, <1>5
<1>10. way \in [0 .. Count -> Nat]
  BY <1>8, <1>9
<1> QED
  BY <1>4, <1>6, <1>7, <1>10

(* Each entry speed has its reason, and that of the planned block is none  *)
(* that a block still to come can change.                                  *)
Reach(j) == (IF j = 1 THEN prep.current ELSE Block(j - 1).entry) + Block(j - 1).dist
Slow(j) == EndOf(j + 1) + Block(j).dist
Tight ==
  \A j \in 1 .. Count - 1 :
    (j = 1 /\ Braking) \/ Block(j).entry \in {Block(j).max, Reach(j), Slow(j)}
Settles(q) ==
  \/ q = 0 \/ (q = 1 /\ Braking)
  \/ Block(q).entry \in {Block(q).max, Reach(q)}
PlannedSettles == ~Empty => Settles(Behind(tail, planned))

PlanTight == Tight /\ PlannedSettles

LEMMA PlanIsOptimal == DriveOK /\ PlanDriven /\ PlanTight => Optimal
<1> SUFFICES ASSUME DriveOK, PlanDriven, PlanTight, ~Empty, ~Holding, NEW j \in 1 .. Count - 1
             PROVE  Block(j).entry = Fastest(j)
  BY DEF Optimal
<1>1. PICK n \in Nat : n = Count /\ n # 0
  BY BlockFacts DEF DriveOK, PlannerTyped, Queued
<1>2. Queued /\ ~Braking /\ Feasible
  BY BlockFacts, PlanIsFeasible DEF DriveOK, PlannerTyped, Holds
<1>3. PICK e, L, D : /\ e = [i \in 0 .. n |-> EntryOf(i)] /\ L = [i \in 0 .. n |-> Limit(i)]
                     /\ D = Way
  OBVIOUS
<1>4. EntryOf(0) = prep.current /\ prep.current \in Nat /\ Limit(0) = prep.current /\ Limit(n) = 0
  BY <1>1, <1>2, SegmentSpeedIs DEF EntryOf, Limit, Now, SegmentSpeed, Queued
<1>5. ASSUME NEW i \in 1 .. n PROVE EntryOf(i) = EndOf(i) /\ EntryOf(i) \in Nat
  BY <1>1, <1>2, <1>5 DEF EntryOf, Queued
<1>6. ASSUME NEW i \in 1 .. n - 1 PROVE EntryOf(i) = Block(i).entry /\ Limit(i) = Block(i).max /\ Limit(i) \in Nat
  <2>1. i \in 0 .. n - 1 /\ i # 0 /\ i # n
    BY <1>1
  <2> QED
    BY <1>1, <1>2, <2>1 DEF EntryOf, Limit, Queued
<1>7. e \in [0 .. n -> Nat] /\ L \in [0 .. n -> Nat]
  <2>1. ASSUME NEW i \in 0 .. n PROVE EntryOf(i) \in Nat /\ Limit(i) \in Nat
    <3>1. i = 0 \/ i = n \/ i \in 1 .. n - 1
      BY <1>1
    <3>2. n \in 1 .. n /\ (i \in 1 .. n - 1 => i \in 1 .. n)
      BY <1>1
    <3> QED
      BY <1>4, <1>5, <1>6, <3>1, <3>2
  <2> QED
    BY <1>3, <2>1
<1>8. D \in [0 .. n -> Nat] /\ \A i \in 0 .. n - 1 : D[i + 1] = D[i] + Block(i).dist
  BY <1>1, <1>2, <1>3, WayFacts
<1>9. Drives(e, D, n)
  <2>1. ASSUME NEW i \in 0 .. n - 1
        PROVE  /\ D[i] < D[i + 1]
               /\ e[i + 1] + D[i] <= e[i] + D[i + 1] /\ e[i] + D[i] <= e[i + 1] + D[i + 1]
    <3>1. i \in 0 .. n /\ i + 1 \in 0 .. n
      BY <1>1
    <3>2. PICK x \in Nat, y \in Nat, c \in Nat, b \in Nat :
            /\ x = e[i] /\ y = e[i + 1] /\ c = D[i] /\ b = Block(i).dist /\ b > 0
            /\ D[i + 1] = c + b
      <4>1. Block(i).dist \in Nat /\ Block(i).dist > 0
        BY <1>1, <1>2 DEF Queued, DriveOK, Lengths
      <4>2. e[i] \in Nat /\ e[i + 1] \in Nat /\ D[i] \in Nat
        BY <1>7, <1>8, <3>1
      <4> QED
        BY <1>8, <4>1, <4>2
    <3>3. y <= x + b /\ x <= y + b
      <4>1. ~OverrideSlowdown
        <5>1. prep.current <= Nominal(0) /\ Nominal(0) \in Nat /\ ~prep.decel
          BY ExitBelowNominal DEF PlanDriven, Joins
        <5>2. Nominal(0) = NominalSqr[Block(0).rate][override] /\ Now = prep.current
          BY <1>4 DEF Nominal, EntryOf
        <5> QED
          BY <1>4, <5>1, <5>2 DEF OverrideSlowdown
      <4>2. x = EntryOf(i) /\ y = EntryOf(i + 1)
        BY <1>3, <3>1, <3>2
      <4> QED
        BY <1>1, <1>2, <3>2, <4>1, <4>2 DEF Feasible
    <3> QED
      BY <3>2, <3>3
  <2> QED
    BY <1>7, <1>8, <2>1 DEF Drives
<1>10. Bounded(e, L, D, n)
  <2>1. e[0] = L[0] /\ e[n] = L[n]
    <3>1. EntryOf(n) = 0 /\ n \in 0 .. n /\ 0 \in 0 .. n
      BY <1>1 DEF EntryOf
    <3> QED
      BY <1>3, <1>4, <3>1
  <2>2. ASSUME NEW i \in 1 .. n - 1
        PROVE  e[i] <= L[i] /\ (e[i] = L[i] \/ Reached(e, D, i) \/ Slowing(e, D, i))
    <3>1. /\ i \in 0 .. n - 1 /\ i \in 0 .. n /\ i - 1 \in 0 .. n /\ i + 1 \in 0 .. n /\ i - 1 \in 0 .. n - 1
          /\ i + 1 \in 1 .. n /\ (i - 1) + 1 = i /\ (i = 1 => i - 1 = 0) /\ (i # 1 => i - 1 \in 1 .. n - 1)
      BY <1>1
    <3>2. /\ e[i] = Block(i).entry /\ L[i] = Block(i).max /\ e[i + 1] = EndOf(i + 1)
          /\ e[i - 1] = IF i = 1 THEN prep.current ELSE Block(i - 1).entry
      BY <1>3, <1>4, <1>5, <1>6, <3>1
    <3>3. Block(i).entry <= Block(i).max
      BY <1>1 DEF DriveOK, Chain
    <3>4. D[i + 1] = D[i] + Block(i).dist /\ D[i] = D[i - 1] + Block(i - 1).dist
      BY <1>8, <3>1
    <3>5. \/ e[i] = L[i] \/ e[i] = e[i - 1] + Block(i - 1).dist
          \/ e[i] = e[i + 1] + Block(i).dist
      BY <1>1, <1>2, <3>2 DEF PlanTight, Tight, Reach, Slow
    <3>6. /\ e[i] \in Nat /\ e[i - 1] \in Nat /\ e[i + 1] \in Nat /\ D[i] \in Nat /\ D[i - 1] \in Nat
          /\ Block(i).dist \in Nat /\ Block(i - 1).dist \in Nat
      BY <1>1, <1>2, <1>7, <1>8, <3>1 DEF Queued
    <3>7. e[i] = e[i - 1] + Block(i - 1).dist => Reached(e, D, i)
      BY <3>4, <3>6 DEF Reached
    <3>8. e[i] = e[i + 1] + Block(i).dist => Slowing(e, D, i)
      BY <3>4, <3>6 DEF Slowing
    <3> QED
      BY <3>2, <3>3, <3>5, <3>7, <3>8
  <2>3. \A i \in 0 .. n : e[i] <= L[i]
    <3>1. \A i \in 0 .. n : i = 0 \/ i = n \/ i \in 1 .. n - 1
      BY <1>1
    <3>2. e[0] <= L[0] /\ e[n] <= L[n]
      BY <1>1, <1>7, <2>1
    <3> QED
      BY <2>2, <3>1, <3>2
  <2> QED
    BY <1>7, <2>1, <2>2, <2>3 DEF Bounded
<1>11. e[j] = Min({L[i] + Away(D, i, j) : i \in 0 .. n})
  BY <1>1, <1>9, <1>10, FastestPlan
<1>12. {L[i] + Away(D, i, j) : i \in 0 .. n}
         = {Limit(i) + (IF i <= j THEN Path(i, j) ELSE Path(j, i)) : i \in 0 .. Count}
  <2>1. ASSUME NEW i \in 0 .. n
        PROVE  L[i] + Away(D, i, j) = Limit(i) + (IF i <= j THEN Path(i, j) ELSE Path(j, i))
    BY <1>3 DEF Away, Path
  <2> QED
    BY <1>1, <2>1
<1>13. e[j] = Block(j).entry
  <2>1. j \in 1 .. n - 1 /\ j \in 0 .. n
    BY <1>1
  <2> QED
    BY <1>3, <1>6, <2>1
<1> QED
  BY <1>11, <1>12, <1>13 DEF Fastest

(* The block that the planned pointer is on.                               *)
LEMMA PointerSettles ==
  ASSUME NEW k, Behind(tail, planned) = k, Settles(k)
  PROVE  PlannedSettles
BY DEF PlannedSettles, Settles, Reach, Block

LEMMA PointerSettlesNext ==
  ASSUME NEW k, Behind(tail', planned') = k, Settles(k)'
  PROVE  PlannedSettles'
BY DEF PlannedSettles, Settles, Reach, Block

LEMMA OneSettles ==
  ASSUME NEW k, Behind(tail, planned) = k, PlannedSettles, ~Empty
  PROVE  Settles(k)
BY DEF PlannedSettles, Settles, Reach, Block

(* A queue of at most one block.                                           *)
Short == TypeOK /\ Count \in {0, 1}

LEMMA ShortIsTight == Short => PlanTight
<1> SUFFICES ASSUME TypeOK, Count \in {0, 1} PROVE PlanTight
  BY DEF Short
<1>1. Queued /\ Count \in Nat
  BY BlockFacts DEF Queued
<1>2. Tight
  BY DEF Tight
<1>3. ASSUME ~Empty PROVE Behind(tail, planned) = 0
  <2>1. Behind(tail, planned) < 1 /\ Count = 1
    BY <1>1, <1>3 DEF TypeOK, Queued
  <2>2. Behind(tail, planned) \in Nat
    BY BehindFacts DEF TypeOK
  <2> QED
    BY <2>1, <2>2
<1>4. PlannedSettles
  <2>1. Empty \/ (Behind(tail, planned) = 0 /\ Settles(0))
    BY <1>3 DEF Settles
  <2> QED
    BY <2>1, PointerSettles DEF PlannedSettles
<1> QED
  BY <1>2, <1>4 DEF PlanTight

LEMMA ShortIsTightNext == TypeOK' /\ Count' \in {0, 1} => PlanTight'
<1>1. Short' => PlanTight'
  BY ShortIsTight, PTL
<1> QED
  BY <1>1 DEF Short

(* What the planner did from block q on is tight, and so is the rest.      *)
LEMMA ReplannedTight ==
  ASSUME TypeOK', NEW buffer, NEW q \in Nat, NEW n \in Nat, NEW g, q < n, tail' = tail, Count' = n,
         Recalculation(block_buffer', buffer, tail, q, n, g), MovesTo(block_buffer', tail, q, n, planned'),
         q = 0 => Block(0)'.entry = prep'.current,
         \A j \in 1 .. q : Block(j)'.entry \in {Block(j)'.max, Reach(j)', Slow(j)'},
         q # 0 => Block(q)'.entry \in {Block(q)'.max, Reach(q)'}
  PROVE  PlanTight'
<1>1. Queued' /\ tail \in Slot /\ n \in 0 .. BlockBufferSize - 1
  <2>1. Queued' /\ tail \in Slot /\ head' \in Slot /\ n = Behind(tail, head')
    BY BlockFactsNext DEF TypeOK, Count
  <2> QED
    BY <2>1, BehindFacts
<1>2. ASSUME NEW j \in q + 1 .. n - 1
      PROVE  /\ Block(j)' = At(block_buffer', tail, j) /\ Block(j - 1)' = At(block_buffer', tail, j - 1)
             /\ Reach(j)' = From(block_buffer', tail, j)
             /\ Slow(j)' = Ahead(block_buffer', tail, n, j)
  <2>1. Block(j)' = At(block_buffer', tail, j) /\ Block(j - 1)' = At(block_buffer', tail, j - 1)
    BY DEF Block, At
  <2>2. j = 1 => q = 0 /\ j - 1 = 0
    OBVIOUS
  <2>3. Reach(j)' = From(block_buffer', tail, j)
    BY <2>1, <2>2 DEF Reach, From
  <2>4. Slow(j)' = Ahead(block_buffer', tail, n, j)
    BY <2>1 DEF Slow, Ahead, EndOf
  <2> QED
    BY <2>1, <2>3, <2>4
<1>3. Tight'
  <2>1. ASSUME NEW j \in 1 .. n - 1 PROVE Block(j)'.entry \in {Block(j)'.max, Reach(j)', Slow(j)'}
    <3>1. CASE j <= q
      <4>1. j \in 1 .. q
        BY <3>1
      <4> QED
        BY <4>1
    <3>2. CASE ~(j <= q)
      <4>1. j \in q + 1 .. n - 1
        BY <3>2
      <4>2. Driven(block_buffer', tail, n, j)
        BY <4>1 DEF Recalculation
      <4>3. At(block_buffer', tail, j).entry
              \in {At(block_buffer', tail, j).max, Ahead(block_buffer', tail, n, j), From(block_buffer', tail, j)}
        BY <4>2 DEF Driven
      <4>4. /\ Block(j)' = At(block_buffer', tail, j) /\ Reach(j)' = From(block_buffer', tail, j)
            /\ Slow(j)' = Ahead(block_buffer', tail, n, j)
        BY <1>2, <4>1
      <4> QED
        BY <4>3, <4>4
    <3> QED
      BY <3>1, <3>2
  <2> QED
    BY <2>1 DEF Tight
<1>4. PICK k \in q .. n - 1 : planned' = SlotBehind(tail, k) /\ (k # q => Firm(block_buffer', tail, k))
  BY DEF MovesTo
<1>5. Behind(tail', planned') = k
  <2>1. k \in 0 .. BlockBufferSize - 1
    BY <1>1, <1>4, SizeAssumption
  <2> QED
    BY <1>1, <1>4, <2>1, SlotFacts
<1>6. Settles(k)'
  <2>1. CASE k = q
    BY <2>1 DEF Settles
  <2>2. CASE k # q
    <3>1. k \in q + 1 .. n - 1
      BY <2>2
    <3>2. Block(k)'.entry \in {Block(k)'.max, Reach(k)'}
      BY <1>2, <1>4, <2>2, <3>1 DEF Firm
    <3> QED
      BY <3>2 DEF Settles
  <2> QED
    BY <2>1, <2>2
<1> QED
  BY <1>3, <1>5, <1>6, PointerSettlesNext DEF PlanTight

LEMMA InitTight == Init => PlanTight
<1> SUFFICES ASSUME Init PROVE PlanTight
  OBVIOUS
<1>1. TypeOK
  BY InitTyped DEF PlannerTyped
<1>2. Count = 0
  BY <1>1, BlockFacts DEF Init, Empty, Queued
<1> QED
  BY <1>1, <1>2, ShortIsTight DEF Short

LEMMA ResetTight ==
  ASSUME DriveOK', ResetBuffers
  PROVE  PlanTight'
<1>1. TypeOK' /\ Queued' /\ Empty'
  BY BlockFactsNext DEF DriveOK, PlannerTyped, ResetBuffers, Empty
<1>2. Count' \in {0, 1}
  BY <1>1 DEF Queued
<1> QED
  BY <1>1, <1>2, ShortIsTightNext

LEMMA OthersTight ==
  ASSUME PlanTight, UNCHANGED <<ringVars, prepVars>>, Braking => Braking'
  PROVE  PlanTight'
<1>1. UNCHANGED <<block_buffer, tail, head, planned, prep>>
  BY DEF ringVars, prepVars
<1>2. Tight'
  BY <1>1 DEF PlanTight, Tight, Reach, Slow, EndOf, EndAt, At, Block, Count
<1>3. PlannedSettles'
  BY <1>1 DEF PlanTight, PlannedSettles, Settles, Reach, Block, Empty
<1> QED
  BY <1>2, <1>3 DEF PlanTight

(* The block itself and what its entry speed depends on are as they were.  *)
LEMMA SameSettles ==
  ASSUME NEW k \in Nat, Settles(k), Braking => Braking',
         k # 0 => Block(k)' = Block(k) /\ Reach(k)' = Reach(k)
  PROVE  Settles(k)'
BY DEF Settles

LEMMA HoldBeginTight ==
  ASSUME DriveOK, DriveOK', PlanTight, HoldBegin
  PROVE  PlanTight'
<1>1. TypeOK /\ Queued /\ Queued'
  BY BlockFacts, BlockFactsNext DEF DriveOK, PlannerTyped
<1>2. /\ Braking' /\ block_buffer' = ParametersUpdated(block_buffer) /\ st_update_plan_block_parameters
      /\ UNCHANGED <<tail, head, planned>>
  BY DEF HoldBegin, Braking
<1>3. PICK n \in Nat : n = Count /\ n = Count' /\ (Empty <=> n = 0)
  BY <1>1, <1>2 DEF Count, Queued
<1>4. tail \in Slot /\ planned \in Slot /\ block_buffer \in Buffers
  BY <1>1, Typed DEF TypeOK
<1>5. /\ \A i \in Slot : Same(block_buffer'[i], block_buffer[i])
      /\ \A i \in Slot \ {tail} : block_buffer'[i] = block_buffer[i]
  BY <1>1, <1>2, <1>4, UpdatedFacts
<1>6. \A j \in 0 .. n - 1 : Same(Block(j)', Block(j)) /\ (j # 0 => Block(j)' = Block(j))
  BY <1>1, <1>2, <1>3, <1>5 DEF Queued, Block
<1>7. prep'.current = prep.current
  BY <1>1, <1>2, UpdateTyped
<1>8. ASSUME NEW j \in 1 .. n - 1
      PROVE  Block(j)' = Block(j) /\ Reach(j)' = Reach(j) /\ Slow(j)' = Slow(j)
  <2>1. j \in 0 .. n - 1 /\ j - 1 \in 0 .. n - 1 /\ j # 0 /\ (j # 1 => j - 1 # 0)
    OBVIOUS
  <2>2. Block(j)' = Block(j) /\ Block(j - 1)'.dist = Block(j - 1).dist
        /\ (j # 1 => Block(j - 1)' = Block(j - 1))
    BY <1>6, <2>1 DEF Same
  <2>3. Reach(j)' = Reach(j)
    BY <1>7, <2>2 DEF Reach
  <2>4. EndOf(j + 1)' = EndOf(j + 1)
    <3>1. CASE j + 1 = n
      BY <1>1, <1>3, <3>1 DEF Queued
    <3>2. CASE j + 1 # n
      <4>1. j + 1 \in 1 .. n - 1 /\ j + 1 \in 0 .. n - 1 /\ j + 1 # 0
        BY <3>2
      <4>2. EndOf(j + 1) = Block(j + 1).entry /\ EndOf(j + 1)' = Block(j + 1)'.entry
        BY <1>1, <1>3, <4>1 DEF Queued
      <4> QED
        BY <1>6, <4>1, <4>2
    <3> QED
      BY <3>1, <3>2
  <2>5. Slow(j)' = Slow(j)
    BY <2>2, <2>4 DEF Slow
  <2> QED
    BY <2>2, <2>3, <2>5
<1>9. Tight'
  <2>1. ASSUME NEW j \in 1 .. n - 1
        PROVE  (j = 1 /\ Braking') \/ Block(j)'.entry \in {Block(j)'.max, Reach(j)', Slow(j)'}
    BY <1>2, <1>3, <1>8 DEF PlanTight, Tight
  <2> QED
    BY <1>3, <2>1 DEF Tight
<1>10. PlannedSettles'
  <2>1. CASE Empty
    BY <1>1, <1>3, <2>1 DEF PlannedSettles, Queued
  <2>2. CASE ~Empty
    <3>1. PICK k \in Nat : k = Behind(tail, planned) /\ k < n
      BY <1>1, <1>3, <1>4, <2>2, BehindFacts DEF TypeOK
    <3>2. Settles(k)
      BY <2>2, <3>1, OneSettles DEF PlanTight
    <3>3. k # 0 => k \in 1 .. n - 1
      BY <3>1
    <3>4. Settles(k)'
      BY <1>2, <1>8, <3>2, <3>3, SameSettles
    <3> QED
      BY <1>2, <3>1, <3>4, PointerSettlesNext
  <2> QED
    BY <2>1, <2>2
<1> QED
  BY <1>9, <1>10 DEF PlanTight

LEMMA HoldDoneTight ==
  ASSUME DriveOK, DriveOK', PlanDriven, HoldDone
  PROVE  PlanTight'
<1>1. TypeOK /\ TypeOK' /\ Queued /\ Queued'
  BY BlockFacts, BlockFactsNext DEF DriveOK, PlannerTyped
<1>2. /\ st_update_plan_block_parameters /\ UNCHANGED <<tail, head>> /\ ~Braking'
  BY DEF HoldDone, plan_cycle_reinitialize, Braking
<1>3. CASE Empty
  <2>1. Count' \in {0, 1}
    BY <1>1, <1>2, <1>3 DEF Empty, Queued
  <2> QED
    BY <1>1, <2>1, ShortIsTightNext
<1>4. CASE ~Empty
  <2>1. PICK current, n, g : AfterHold(current, n, g)
    BY <1>4, HoldReplanned
  <2>2. /\ n \in Nat /\ 0 \in Nat /\ 0 < n /\ Count' = n /\ tail' = tail
        /\ Recalculation(block_buffer', current, tail, 0, n, g) /\ MovesTo(block_buffer', tail, 0, n, planned')
    BY <2>1 DEF AfterHold
  <2>3. Block(0)'.entry = prep'.current
    <3>1. ~prep'.decel /\ pl_block' = NULL /\ ~Empty'
      BY <1>1, <1>2, <1>4, UpdateTyped DEF PlanDriven, Empty
    <3> QED
      BY <1>2, <3>1 DEF DriveOK, Speeds
  <2> QED
    BY <1>1, <2>2, <2>3, ReplannedTight
<1> QED
  BY <1>3, <1>4

LEMMA AddedLineTight ==
  ASSUME DriveOK, DriveOK', PlanDriven, PlanTight, NEW shape \in Shapes, BufferLine(shape), ~Empty
  PROVE  PlanTight'
<1>1. TypeOK /\ TypeOK' /\ Queued /\ Queued'
  BY BlockFacts, BlockFactsNext DEF DriveOK, PlannerTyped
<1>2. PICK current, q, n, g : AddedLine(shape, current, q, n, g)
  BY LineAdded
<1>3. /\ q \in Nat /\ n \in Nat /\ n = Count /\ q < n /\ q < n + 1 /\ n + 1 \in Nat /\ Count' = n + 1
      /\ q = Behind(tail, planned)
      /\ \A j \in 0 .. n - 1 : Same(At(block_buffer', tail, j), Block(j))
      /\ \A j \in 1 .. q : At(block_buffer', tail, j) = Block(j)
      /\ Recalculation(block_buffer', current, tail, q, n + 1, g)
      /\ MovesTo(block_buffer', tail, q, n + 1, planned')
      /\ \/ st_update_plan_block_parameters
         \/ UNCHANGED prepVars /\ q # 0
  BY <1>2 DEF AddedLine
<1>4. tail' = tail /\ ~Braking /\ ~Braking'
  BY BufferLineIs DEF BufferLine, Braking
<1>5. prep'.current = prep.current /\ (prep'.decel <=> prep.decel)
      /\ (pl_block' = NULL \/ (UNCHANGED prepVars /\ q # 0))
  BY <1>1, <1>3, UpdateTyped DEF prepVars
<1>6. q = 0 => Block(0)'.entry = prep'.current
  <2>1. ~Empty'
    BY <1>1, <1>3 DEF Queued
  <2> QED
    BY <1>4, <1>5, <2>1 DEF DriveOK, Speeds, PlanDriven
<1>7. ASSUME NEW j \in 1 .. q
      PROVE  /\ Block(j)' = Block(j) /\ Reach(j)' = Reach(j)
             /\ j # q => Slow(j)' = Slow(j)
  <2>1. /\ j \in 0 .. n - 1 /\ j - 1 \in 0 .. n - 1 /\ (j # 1 => j - 1 \in 1 .. q)
        /\ j \in 1 .. n - 1
    BY <1>3
  <2>2. Block(j)' = Block(j) /\ Block(j - 1)'.dist = Block(j - 1).dist
        /\ (j # 1 => Block(j - 1)' = Block(j - 1))
    BY <1>3, <1>4, <2>1 DEF Same, Block, At
  <2>3. Reach(j)' = Reach(j)
    BY <1>5, <2>2 DEF Reach
  <2>4. j # q => EndOf(j + 1)' = EndOf(j + 1)
    <3> SUFFICES ASSUME j # q PROVE EndOf(j + 1)' = EndOf(j + 1)
      OBVIOUS
    <3>1. j + 1 \in 1 .. n - 1 /\ j + 1 \in 1 .. (n + 1) - 1 /\ j + 1 \in 1 .. q
      BY <1>3
    <3>2. EndOf(j + 1) = Block(j + 1).entry /\ EndOf(j + 1)' = Block(j + 1)'.entry
      BY <1>1, <1>3, <3>1 DEF Queued
    <3>3. Block(j + 1)' = Block(j + 1)
      BY <1>3, <1>4, <3>1 DEF Block, At
    <3> QED
      BY <3>2, <3>3
  <2>5. j # q => Slow(j)' = Slow(j)
    BY <2>2, <2>4 DEF Slow
  <2> QED
    BY <2>2, <2>3, <2>5
<1>8. q # 0 => Block(q)'.entry \in {Block(q)'.max, Reach(q)'}
  <2> SUFFICES ASSUME q # 0 PROVE Block(q)'.entry \in {Block(q)'.max, Reach(q)'}
    OBVIOUS
  <2>1. q \in 1 .. q
    BY <1>3
  <2>2. Settles(q)
    BY <1>3, OneSettles DEF PlanTight
  <2>3. Block(q).entry \in {Block(q).max, Reach(q)}
    BY <1>4, <2>2 DEF Settles
  <2> QED
    BY <1>7, <2>1, <2>3
<1>9. ASSUME NEW j \in 1 .. q PROVE Block(j)'.entry \in {Block(j)'.max, Reach(j)', Slow(j)'}
  <2>1. CASE j = q
    BY <1>3, <1>8, <2>1
  <2>2. CASE j # q
    <3>1. j \in 1 .. Count - 1
      BY <1>3
    <3>2. Block(j).entry \in {Block(j).max, Reach(j), Slow(j)}
      BY <1>4, <3>1 DEF PlanTight, Tight
    <3> QED
      BY <1>7, <2>2, <3>2
  <2> QED
    BY <2>1, <2>2
<1>10. q = 0 => Block(0)'.entry = prep'.current
  BY <1>6
<1> QED
  BY <1>1, <1>3, <1>4, <1>8, <1>9, <1>10, ReplannedTight

LEMMA ShiftedIndex ==
  ASSUME NEW s \in {0, 1}, NEW m \in Nat, NEW j \in 1 .. m - 1
  PROVE  j + s \in 1 .. (m + s) - 1 /\ (j + s = 1 => j = 1)
OBVIOUS

(* A segment is cut: s blocks are done, none or the first one.             *)
LEMMA CutTight ==
  ASSUME PlanTight, TypeOK, ~Empty, NEW s \in {0, 1}, NEW m \in Nat, m = Count', m + s = Count,
         Braking => Braking',
         Empty' => m = 0,
         \A j \in 1 .. m - 1 :
           /\ Block(j)' = Block(j + s) /\ Slow(j)' = Slow(j + s)
           /\ (j = 1 /\ Braking) \/ Block(j + s).entry # Reach(j + s) \/ Block(j + s).entry = Reach(j)',
         \/ Behind(tail, planned) <= s /\ Behind(tail', planned') = 0
         \/ Behind(tail, planned) >= s /\ Behind(tail', planned') = Behind(tail, planned) - s
  PROVE  PlanTight'
<1>1. ASSUME NEW j \in 1 .. m - 1
      PROVE  (j = 1 /\ Braking') \/ Block(j)'.entry \in {Block(j)'.max, Reach(j)', Slow(j)'}
  <2>1. j + s \in 1 .. Count - 1 /\ (j + s = 1 => j = 1)
    BY ShiftedIndex
  <2>2. \/ j + s = 1 /\ Braking
        \/ Block(j + s).entry \in {Block(j + s).max, Reach(j + s), Slow(j + s)}
    BY <2>1 DEF PlanTight, Tight
  <2>3. /\ Block(j)' = Block(j + s) /\ Slow(j)' = Slow(j + s)
        /\ (j = 1 /\ Braking) \/ Block(j + s).entry # Reach(j + s) \/ Block(j + s).entry = Reach(j)'
    OBVIOUS
  <2> QED
    BY <2>1, <2>2, <2>3
<1>2. Tight'
  BY <1>1 DEF Tight
<1>3. PICK k \in Nat : k = Behind(tail, planned) /\ k < Count
  BY BehindFacts DEF TypeOK
<1>4. Settles(k)
  BY <1>3, OneSettles DEF PlanTight
<1>5. CASE Behind(tail', planned') = 0
  <2>1. Settles(0)'
    BY DEF Settles
  <2> QED
    BY <1>2, <1>5, <2>1, PointerSettlesNext DEF PlanTight
<1>6. CASE Behind(tail', planned') # 0
  <2>1. PICK j \in Nat : j = Behind(tail', planned') /\ j + s = k /\ j # 0
    <3>1. k - s \in Nat /\ (k - s) + s = k /\ Behind(tail', planned') = k - s
      BY <1>3, <1>6
    <3> QED
      BY <1>6, <3>1
  <2>2. j \in 1 .. m - 1 /\ (k = 1 => j = 1) /\ k # 0
    BY <1>3, <2>1
  <2>3. (k = 1 /\ Braking) \/ Block(k).entry \in {Block(k).max, Reach(k)}
    BY <1>4, <2>2 DEF Settles
  <2>4. /\ Block(j)' = Block(k)
        /\ (j = 1 /\ Braking) \/ Block(k).entry # Reach(k) \/ Block(k).entry = Reach(j)'
    BY <2>1, <2>2
  <2>5. (j = 1 /\ Braking') \/ Block(j)'.entry \in {Block(j)'.max, Reach(j)'}
    BY <2>2, <2>3, <2>4
  <2>6. Settles(j)'
    BY <2>5 DEF Settles
  <2> QED
    BY <1>2, <2>1, <2>6, PointerSettlesNext DEF PlanTight
<1> QED
  BY <1>5, <1>6

LEMMA WithinBlockTight ==
  ASSUME DriveOK, PlanTight, TypeOK', NEW r, NEW n, NEW p, NEW v, NEW d, NEW w, NEW x, NEW m,
         FitSegment(r, n, p, v, d, w, x, m), r # 0
  PROVE  PlanTight'
<1>1. SegmentCut(r, n, p, v, d, w)
  BY DEF FitSegment
<1>2. TypeOK /\ Queued /\ Queued' /\ tail \in Slot /\ block_buffer[tail] \in Blocks
  BY BlockFacts, BlockFactsNext, Typed DEF DriveOK, PlannerTyped
<1>3. /\ n \in Nat /\ n = Count /\ n > 0 /\ Count' = n /\ r \in Nat /\ v = prep.current /\ d = Block(0).dist
      /\ UNCHANGED <<tail, head, planned, mode>> /\ prep'.current = w
      /\ \A j \in 1 .. n - 1 : Block(j)' = Block(j)
      /\ Block(0)' = block_buffer'[tail]
      /\ Same(block_buffer'[tail], [block_buffer[tail] EXCEPT !.dist = r])
  BY <1>1 DEF SegmentCut
<1>4. Block(0)'.dist = r /\ ~Empty /\ ~Empty'
  BY <1>2, <1>3 DEF Same, Blocks, Queued
<1>5. ASSUME NEW j \in 1 .. n - 1
      PROVE  /\ Block(j)' = Block(j + 0) /\ Slow(j)' = Slow(j + 0)
             /\ (j = 1 /\ Braking) \/ Block(j + 0).entry # Reach(j + 0) \/ Block(j + 0).entry = Reach(j)'
  <2>1. j + 0 = j /\ (j # 1 => j - 1 \in 1 .. n - 1) /\ (j = 1 => j - 1 = 0)
    BY <1>3
  <2>2. EndOf(j + 1)' = EndOf(j + 1)
    <3>1. CASE j + 1 = n
      BY <1>2, <1>3, <3>1 DEF Queued
    <3>2. CASE j + 1 # n
      <4>1. j + 1 \in 1 .. n - 1
        BY <1>3, <3>2
      <4>2. EndOf(j + 1) = Block(j + 1).entry /\ EndOf(j + 1)' = Block(j + 1)'.entry
        BY <1>2, <1>3, <4>1 DEF Queued
      <4> QED
        BY <1>3, <4>1, <4>2
    <3> QED
      BY <3>1, <3>2
  <2>3. Slow(j)' = Slow(j)
    BY <1>3, <2>2 DEF Slow
  <2>4. j # 1 => Reach(j)' = Reach(j)
    BY <1>3, <2>1 DEF Reach
  <2>5. ASSUME j = 1, ~Braking, Block(j).entry = Reach(j) PROVE Block(j).entry = Reach(j)'
    <3>1. x = EndOf(1) /\ (x = v + d => x = w + r)
      BY <2>5 DEF FitSegment
    <3>2. EndOf(1) = Block(1).entry
      BY <1>2, <1>3, <2>5 DEF Queued
    <3>3. Reach(1) = v + d /\ Reach(1)' = w + r
      BY <1>3, <1>4 DEF Reach
    <3> QED
      BY <2>5, <3>1, <3>2, <3>3
  <2> QED
    BY <1>3, <2>1, <2>3, <2>4, <2>5
<1>6. Behind(tail, planned) \in Nat
  BY <1>2, BehindFacts DEF TypeOK
<1>7. /\ Behind(tail, planned) >= 0 /\ Behind(tail', planned') = Behind(tail, planned) - 0
      /\ n + 0 = Count
  BY <1>3, <1>6
<1>8. Braking => Braking'
  BY <1>3 DEF Braking
<1> QED
  BY <1>2, <1>3, <1>4, <1>5, <1>7, <1>8, CutTight

LEMMA BlockDoneTight ==
  ASSUME DriveOK, PlanTight, TypeOK', NEW r, NEW n, NEW p, NEW v, NEW d, NEW w, NEW x, NEW m,
         FitSegment(r, n, p, v, d, w, x, m), r = 0
  PROVE  PlanTight'
<1>1. SegmentCut(r, n, p, v, d, w)
  BY DEF FitSegment
<1>2. TypeOK /\ Queued /\ Queued' /\ tail \in Slot
  BY BlockFacts, BlockFactsNext, Typed DEF DriveOK, PlannerTyped
<1>3. /\ n \in Nat /\ n = Count /\ n > 0 /\ Count' = n - 1
      /\ UNCHANGED <<head, mode>> /\ prep'.current = w /\ plan_discard_current_block
      /\ \A j \in 0 .. n - 2 : Block(j)' = Block(j + 1)
  BY <1>1 DEF SegmentCut
<1>4. ~Empty /\ n - 1 \in Nat /\ (n - 1) + 1 = n /\ (n - 1) - 1 = n - 2
  BY <1>2, <1>3 DEF Queued
<1>5. ASSUME NEW j \in 1 .. n - 2
      PROVE  /\ Block(j)' = Block(j + 1) /\ Slow(j)' = Slow(j + 1)
             /\ (j = 1 /\ Braking) \/ Block(j + 1).entry # Reach(j + 1) \/ Block(j + 1).entry = Reach(j)'
  <2>1. /\ j \in 0 .. n - 2 /\ j - 1 \in 0 .. n - 2 /\ (j - 1) + 1 = j /\ (j + 1) - 1 = j
        /\ j + 1 # 1 /\ j \in 1 .. n - 1
    BY <1>3
  <2>2. Block(j)' = Block(j + 1) /\ Block(j - 1)' = Block(j)
    BY <1>3, <2>1
  <2>3. EndOf(j + 1)' = EndOf((j + 1) + 1)
    <3>1. CASE j + 1 = n - 1
      <4>1. (j + 1) + 1 = n
        BY <1>3, <3>1
      <4> QED
        BY <1>2, <1>3, <3>1, <4>1 DEF Queued
    <3>2. CASE j + 1 # n - 1
      <4>1. j + 1 \in 1 .. (n - 1) - 1 /\ (j + 1) + 1 \in 1 .. n - 1 /\ j + 1 \in 0 .. n - 2
        BY <1>3, <3>2
      <4>2. EndOf((j + 1) + 1) = Block((j + 1) + 1).entry /\ EndOf(j + 1)' = Block(j + 1)'.entry
        BY <1>2, <1>3, <4>1 DEF Queued
      <4> QED
        BY <1>3, <4>1, <4>2
    <3> QED
      BY <3>1, <3>2
  <2>4. Slow(j)' = Slow(j + 1)
    BY <2>2, <2>3 DEF Slow
  <2>5. Reach(j + 1) = Block(j).entry + Block(j).dist
    BY <2>1 DEF Reach
  <2>6. (j = 1 /\ Braking) \/ Reach(j)' = Reach(j + 1)
    <3>1. CASE j = 1 /\ ~Braking
      <4>1. x = EndOf(1) /\ w = x
        BY <3>1 DEF FitSegment
      <4>2. EndOf(1) = Block(1).entry
        BY <1>2, <1>3, <2>1, <3>1 DEF Queued
      <4> QED
        BY <1>3, <2>2, <2>5, <3>1, <4>1, <4>2 DEF Reach
    <3>2. CASE j # 1
      BY <2>2, <2>5, <3>2 DEF Reach
    <3> QED
      BY <3>1, <3>2
  <2> QED
    BY <2>2, <2>4, <2>6
<1>6. \/ Behind(tail, planned) <= 1 /\ Behind(tail', planned') = 0
      \/ Behind(tail, planned) >= 1 /\ Behind(tail', planned') = Behind(tail, planned) - 1
  <2>1. PICK k \in Nat : k = Behind(tail, planned)
    BY <1>2, BehindFacts DEF TypeOK
  <2>2. /\ k = 0 => Behind(tail', planned') = 0
        /\ k # 0 => Behind(tail', planned') = k - 1
    BY <1>2, <1>3, <1>4, <2>1, DiscardFacts
  <2> QED
    BY <2>1, <2>2
<1>7. Braking => Braking'
  BY <1>3 DEF Braking
<1>8. Empty' => n - 1 = 0
  BY <1>2, <1>3 DEF Queued
<1> QED
  BY <1>2, <1>3, <1>4, <1>5, <1>6, <1>7, <1>8, CutTight

LEMMA StepTight ==
  ASSUME NoOverride
  PROVE  DriveOK /\ DriveOK' /\ PlanDriven /\ PlanTight /\ [Next]_vars => PlanTight'
<1> SUFFICES ASSUME DriveOK, DriveOK', PlanDriven, PlanTight, [Next]_vars PROVE PlanTight'
  OBVIOUS
<1>1. TypeOK /\ TypeOK' /\ RingOK
  BY DEF DriveOK, PlannerTyped
<1>2. ASSUME NEW shape \in Shapes, BufferLine(shape) PROVE PlanTight'
  <2>1. CASE Empty
    <3>1. Count' \in {0, 1}
      BY <1>1, <1>2, <2>1, FirstLine
    <3> QED
      BY <1>1, <3>1, ShortIsTightNext
  <2>2. CASE ~Empty
    BY <1>2, <2>2, AddedLineTight
  <2> QED
    BY <2>1, <2>2
<1>3. ASSUME NEW o \in Overrides, Override(o) PROVE FALSE
  BY <1>1, <1>3 DEF NoOverride, Override, TypeOK
<1>4. ASSUME NEW r \in 0 .. block_buffer[tail].dist, PrepSegment(r) PROVE PlanTight'
  <2>1. PICK n, p, v, d, w, x, m : FitSegment(r, n, p, v, d, w, x, m)
    BY <1>4, FitSegmentCut
  <2> QED
    BY <1>1, <2>1, WithinBlockTight, BlockDoneTight
<1>5. CASE CycleStart
  BY <1>5, OthersTight DEF CycleStart, Braking
<1>6. CASE JogStart
  BY <1>6, OthersTight DEF JogStart, Braking
<1>7. CASE HoldBegin
  BY <1>7, HoldBeginTight
<1>8. CASE CycleDone
  BY <1>8, OthersTight DEF CycleDone, Braking
<1>9. CASE HoldDone
  BY <1>9, HoldDoneTight
<1>10. CASE CancelDone
  BY <1>10, ResetTight DEF CancelDone
<1>11. CASE Abort
  BY <1>11, ResetTight DEF Abort
<1>12. CASE UNCHANGED vars
  BY <1>12, OthersTight DEF vars, Braking
<1> QED
  BY <1>2, <1>3, <1>4, <1>5, <1>6, <1>7, <1>8, <1>9, <1>10, <1>11, <1>12 DEF Next

(* Optimal: while no override changes, each block of the queue is entered  *)
(* at the highest speed that every limit before and behind it allows,      *)
(* although planner_recalculate (planner.c:97-176) stops its passes at the *)
(* planned pointer, and the first block is under way all the time.         *)
THEOREM PlanAlwaysOptimal ==
  ASSUME NoOverride
  PROVE  Spec => []Optimal
<1>1. DriveOK /\ PlanDriven /\ DriveOK' /\ PlanDriven' /\ PlanTight /\ [Next]_vars => PlanTight'
  BY StepTight
<1> QED
  BY InitTight, <1>1, PlanAlwaysDriven, PlanIsOptimal, PTL DEF Spec
=============================================================================
