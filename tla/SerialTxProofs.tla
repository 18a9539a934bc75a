--------------------------- MODULE SerialTxProofs ---------------------------
(***************************************************************************)
(* SerialTx implements ByteChannel when the transmitter takes at most one  *)
(* byte between two steps of the copying loop, for every size of the ring, *)
(* every checksum and all lines.                                           *)
(*                                                                         *)
(* RingOK says that the ring holds exactly the bytes that were queued and  *)
(* have not left.  It would break if the interrupt ever ran on an empty    *)
(* ring; EnableOK rules that out, by bounding from below what the ring     *)
(* holds at each place where the main program is about to enable the       *)
(* interrupt.                                                              *)
(*                                                                         *)
(* TxOrder is about the main program alone: what it has queued is the      *)
(* frames of the lines it printed.  FlattenSeq is a recursive function;    *)
(* what it does with one more part is shown by induction.                  *)
(***************************************************************************)
EXTENDS SerialTx, WellFoundedInduction, TLAPS

(* A sequence of anything: the frames' bytes play no role here.            *)
IsSeq(s) == \E S : s \in Seq(S)

LEMMA AppendFacts ==
  ASSUME NEW s, IsSeq(s), NEW e
  PROVE  /\ IsSeq(Append(s, e))
         /\ Len(s) \in Nat /\ Len(Append(s, e)) = Len(s) + 1
         /\ Append(s, e)[Len(s) + 1] = e
         /\ \A i \in 1 .. Len(s) : Append(s, e)[i] = s[i]
<1>1. PICK S : s \in Seq(S)
  BY DEF IsSeq
<1>2. s \in Seq(S \cup {e}) /\ e \in S \cup {e}
  BY <1>1
<1>3. Append(s, e) \in Seq(S \cup {e})
  BY <1>2
<1>4. /\ Len(s) \in Nat /\ Len(Append(s, e)) = Len(s) + 1
      /\ Append(s, e)[Len(s) + 1] = e
      /\ \A i \in 1 .. Len(s) : Append(s, e)[i] = s[i]
  BY <1>2
<1> QED
  BY <1>3, <1>4 DEF IsSeq

(* The next index is the one behind in the ring.                           *)
LEMMA NextIndexTyped == \A i \in Index : NextIndex(i) \in Index
BY SizesAssumption DEF Index, NextIndex

LEMMA OffsetFacts ==
  ASSUME NEW t \in Index, NEW k \in Nat, k < RingSize
  PROVE  /\ Offset(t, k) \in Index
         /\ Offset(t, 0) = t
         /\ k + 1 < RingSize => NextIndex(Offset(t, k)) = Offset(t, k + 1)
         /\ k + 1 < RingSize => Offset(NextIndex(t), k) = Offset(t, k + 1)
         /\ \A j \in Nat : j < RingSize /\ Offset(t, j) = Offset(t, k) => j = k
BY SizesAssumption DEF Index, NextIndex, Offset

(* With all but one slot used the ring is full, and only then.             *)
LEMMA FullFacts ==
  ASSUME NEW t \in Index, NEW k \in Nat, k < RingSize
  PROVE  NextIndex(Offset(t, k)) = t <=> k = RingSize - 1
BY SizesAssumption DEF Index, NextIndex, Offset

-----------------------------------------------------------------------------
(* Type correctness.  The wait for room has turns left.                    *)
SpinOK == pc \in {"test", "wait", "store"} => spin > 0

LEMMA TypeInit == Init => TypeOK /\ SpinOK
<1> SUFFICES ASSUME Init PROVE TypeOK /\ SpinOK
  OBVIOUS
<1>1. text \in Seq(Byte) /\ line_buf \in Seq(Byte) /\ Len(line_buf) = 0
  BY DEF Init
<1>2. 0 \in Index
  BY SizesAssumption DEF Index
<1> QED
  BY <1>1, <1>2, SizesAssumption DEF Init, TypeOK, SpinOK

LEMMA FlushTyped ==
  ASSUME TypeOK, pc = "print", NEW line, Flush(line)
  PROVE  /\ line_buf' = <<>> /\ pos' \in Nat \ {0} /\ spin' \in 0 .. Spins
         /\ pc' \in {"print", "test"} /\ (pc' = "test" => spin' > 0)
BY SizesAssumption DEF TypeOK, Flush

LEMMA TypeStep == TypeOK /\ SpinOK /\ [Next]_vars => TypeOK' /\ SpinOK'
<1> SUFFICES ASSUME TypeOK, SpinOK, [Next]_vars PROVE TypeOK' /\ SpinOK'
  OBVIOUS
<1> USE DEF TypeOK, SpinOK, MainAt, lineVars, copyVars, ringVars
<1>1. CASE PrintLine
  BY <1>1, PrintAssumption DEF PrintLine
<1>2. CASE WriteByte
  <2>1. Head(text) \in Byte /\ Tail(text) \in Seq(Byte)
    BY <1>2 DEF WriteByte
  <2> DEFINE b == Head(text)
             line == IF Len(line_buf) < TxLineSize THEN Append(line_buf, b)
                     ELSE line_buf
  <2>2. line \in Seq(Byte)
    BY <2>1
  <2>3. CASE b = NewLine \/ Len(line) >= TxLineSize
    <3>1. Flush(line) /\ pc = "print"
      BY <1>2, <2>3 DEF WriteByte
    <3>2. /\ line_buf' = <<>> /\ pos' \in Nat \ {0} /\ spin' \in 0 .. Spins
          /\ pc' \in {"print", "test"} /\ (pc' = "test" => spin' > 0)
      BY <3>1, FlushTyped
    <3>3. line_buf' \in Seq(Byte) /\ Len(line_buf') < TxLineSize
      BY <3>2, SizesAssumption
    <3> QED
      BY <1>2, <2>1, <3>2, <3>3 DEF WriteByte
  <2>4. CASE ~(b = NewLine \/ Len(line) >= TxLineSize)
    <3> HIDE DEF line
    <3>1. line_buf' = line /\ UNCHANGED <<frame, pos, spin, pc>>
      BY <1>2, <2>4 DEF WriteByte, line
    <3>2. Len(line) \in Nat /\ Len(line) < TxLineSize
      BY <2>2, <2>4, SizesAssumption
    <3> QED
      BY <1>2, <2>1, <2>2, <3>1, <3>2 DEF WriteByte
  <2> QED
    BY <2>3, <2>4
<1>3. CASE Test
  BY <1>3 DEF Test
<1>4. CASE Wait
  BY <1>4, SizesAssumption DEF Wait
<1>5. CASE Store
  BY <1>5, NextIndexTyped, SizesAssumption DEF Store
<1>6. CASE Enable
  BY <1>6 DEF Enable
<1>7. CASE Udre
  BY <1>7, NextIndexTyped DEF Udre
<1>8. CASE UNCHANGED vars
  BY <1>8 DEF vars
<1> QED
  BY <1>1, <1>2, <1>3, <1>4, <1>5, <1>6, <1>7, <1>8 DEF Next, Main

(* The variables of the sending half keep their types; in particular the   *)
(* line buffer and the ring are never indexed outside (llp_transport.c:191 *)
(* and 216-217).                                                           *)
THEOREM TxTypeCorrect == Spec => []TypeOK
<1>1. Spec => [](TypeOK /\ SpinOK)
  BY TypeInit, TypeStep, PTL DEF Spec
<1> QED
  BY <1>1, PTL

-----------------------------------------------------------------------------
(* The ring holds what was queued and has not left.                        *)
RingOK ==
  /\ IsSeq(queued) /\ IsSeq(uart) /\ DOMAIN ring = Index
  /\ Used \in Nat /\ Used < RingSize
  /\ head = Offset(tail, Used)
  /\ \A k \in 0 .. Used - 1 : ring[Offset(tail, k)] = queued[Len(uart) + k + 1]

(* The interrupt is on only while the ring holds something.                *)
EnableOK ==
  /\ burst \in {0, 1}
  /\ udrie => Used >= 1
  /\ pc = "print" /\ Used >= 1 => udrie
  /\ pc = "store" => Used <= RingSize - 2
  /\ pc = "wait" => Used >= RingSize - 1 - burst
  /\ pc = "enable" => Used >= 1 /\ (udrie => Used >= 2 - burst)

LEMMA TxInvInit == Init => RingOK /\ EnableOK
<1> SUFFICES ASSUME Init PROVE RingOK /\ EnableOK
  OBVIOUS
<1>1. IsSeq(<<>>) /\ Len(<<>>) = 0
  BY <<>> \in Seq({}) DEF IsSeq
<1>2. IsSeq(queued) /\ IsSeq(uart) /\ Used = 0
  BY <1>1 DEF Init, Used
<1>3. 0 \in Index /\ DOMAIN ring = Index
  BY SizesAssumption DEF Init, Index
<1>4. head = Offset(tail, Used)
  BY <1>2, SizesAssumption DEF Init, Offset
<1> QED
  BY <1>2, <1>3, <1>4, SizesAssumption DEF Init, RingOK, EnableOK

(* Putting a byte into a ring with room.                                   *)
LEMMA PutKeepsRing ==
  ASSUME TypeOK, RingOK, Used <= RingSize - 2, NEW e,
         ring' = [ring EXCEPT ![head] = e], head' = NextIndex(head),
         queued' = Append(queued, e), UNCHANGED <<tail, uart>>
  PROVE  RingOK' /\ Used' = Used + 1
<1>1. /\ IsSeq(queued') /\ Len(queued') = Len(queued) + 1
      /\ Len(queued) \in Nat
      /\ queued'[Len(queued) + 1] = e
      /\ \A i \in 1 .. Len(queued) : queued'[i] = queued[i]
  BY AppendFacts DEF RingOK
<1>2. Len(uart) \in Nat
  BY DEF RingOK, IsSeq
<1>3. Used' = Used + 1 /\ Used \in Nat /\ Used' \in Nat /\ Used' < RingSize
  BY <1>1, <1>2, SizesAssumption DEF Used, RingOK
<1>4. head' = Offset(tail', Used')
  BY <1>3, OffsetFacts DEF RingOK, TypeOK
<1>5. DOMAIN ring' = Index /\ IsSeq(uart')
  BY DEF RingOK
<1>6. ASSUME NEW k \in 0 .. Used' - 1
      PROVE  ring'[Offset(tail', k)] = queued'[Len(uart') + k + 1]
  <2>1. CASE k = Used
    <3>1. Offset(tail, k) = head /\ head \in Index
      BY <2>1 DEF RingOK, TypeOK
    <3>2. ring'[head] = e
      BY <3>1 DEF RingOK
    <3>3. Len(uart) + k + 1 = Len(queued) + 1
      BY <2>1, <1>1, <1>2 DEF Used
    <3> QED
      BY <3>1, <3>2, <3>3, <1>1
  <2>2. CASE k # Used
    <3>1. k \in 0 .. Used - 1
      BY <2>2, <1>3
    <3>2. Offset(tail, k) # head /\ Offset(tail, k) \in Index
      <4>1. /\ head = Offset(tail, Used) /\ tail \in Index
            /\ Used \in Nat /\ Used < RingSize /\ k \in Nat /\ k < RingSize
        BY <3>1, <1>3, SizesAssumption DEF RingOK, TypeOK
      <4>2. Offset(tail, k) \in Index
        BY <4>1, OffsetFacts
      <4>3. Offset(tail, k) = Offset(tail, Used) => k = Used
        BY <4>1, OffsetFacts
      <4> QED
        BY <4>1, <4>2, <4>3, <2>2
    <3>3. ring'[Offset(tail, k)] = ring[Offset(tail, k)]
      BY <3>2 DEF RingOK
    <3>4. Len(uart) + k + 1 \in 1 .. Len(queued)
      BY <3>1, <1>1, <1>2 DEF Used
    <3> QED
      BY <3>1, <3>3, <3>4, <1>1 DEF RingOK
  <2> QED
    BY <2>1, <2>2
<1> QED
  BY <1>1, <1>3, <1>4, <1>5, <1>6 DEF RingOK

(* Taking a byte out of a ring that holds one.                             *)
LEMMA TakeKeepsRing ==
  ASSUME TypeOK, RingOK, Used >= 1,
         uart' = Append(uart, ring[tail]), tail' = NextIndex(tail),
         UNCHANGED <<ring, head, queued>>
  PROVE  /\ RingOK' /\ Used' = Used - 1
         /\ uart' = Append(uart, queued[Len(uart) + 1])
         /\ (tail' # head <=> Used' >= 1)
<1>1. /\ IsSeq(uart') /\ Len(uart') = Len(uart) + 1 /\ Len(uart) \in Nat
  BY AppendFacts DEF RingOK
<1>2. Len(queued) \in Nat
  BY DEF RingOK, IsSeq
<1>3. Used' = Used - 1 /\ Used \in Nat /\ Used' \in Nat /\ Used' < RingSize
  BY <1>1, <1>2, SizesAssumption DEF Used, RingOK
<1>4. tail \in Index /\ tail' \in Index
  BY NextIndexTyped DEF TypeOK
<1>5. ASSUME NEW k \in Nat, k < Used PROVE Offset(tail', k) = Offset(tail, k + 1)
  <2>1. k < RingSize /\ k + 1 < RingSize
    BY <1>3, <1>5, SizesAssumption DEF RingOK
  <2> QED
    BY <1>4, <2>1, OffsetFacts
<1>6. head' = Offset(tail', Used')
  BY <1>3, <1>5 DEF RingOK
<1>7. ring[tail] = queued[Len(uart) + 1]
  <2>1. ring[Offset(tail, 0)] = queued[Len(uart) + 0 + 1]
    BY <1>3 DEF RingOK
  <2> QED
    BY <2>1, <1>1, <1>4, OffsetFacts, SizesAssumption
<1>8. ASSUME NEW k \in 0 .. Used' - 1
      PROVE  ring'[Offset(tail', k)] = queued'[Len(uart') + k + 1]
  <2>1. k + 1 \in 0 .. Used - 1
    BY <1>3
  <2>2. ring[Offset(tail, k + 1)] = queued[Len(uart) + (k + 1) + 1]
    BY <2>1 DEF RingOK
  <2>3. Len(uart) + (k + 1) + 1 = Len(uart') + k + 1
    BY <1>1
  <2> QED
    BY <1>3, <1>5, <2>2, <2>3
<1>9. tail' # head <=> Used' >= 1
  <2>1. head = Offset(tail', Used') /\ tail' = Offset(tail', 0)
    BY <1>4, <1>6, OffsetFacts, SizesAssumption
  <2> QED
    BY <2>1, <1>3, <1>4, OffsetFacts, SizesAssumption
<1> QED
  BY <1>1, <1>3, <1>6, <1>7, <1>8, <1>9 DEF RingOK

(* A step that leaves ring, queued and uart alone keeps RingOK.            *)
LEMMA QuietKeepsRing ==
  ASSUME RingOK, UNCHANGED ringVars PROVE RingOK' /\ Used' = Used
BY DEF RingOK, ringVars, Used

(* At the test, room is decided by the bytes in the ring.                  *)
LEMMA RoomFacts ==
  ASSUME TypeOK, RingOK PROVE RingFull <=> Used = RingSize - 1
BY FullFacts DEF TypeOK, RingOK, RingFull

LEMMA TxInvStep ==
  ASSUME Burst <= 1, TypeOK, RingOK, EnableOK, [Next]_vars
  PROVE  RingOK' /\ EnableOK'
<1> USE DEF MainAt
<1>0. Used \in Nat /\ Used < RingSize /\ RingSize \in Nat /\ RingSize >= 3
  BY SizesAssumption DEF RingOK
<1>1. CASE PrintLine
  BY <1>0, <1>1, QuietKeepsRing DEF PrintLine, EnableOK
<1>2. CASE WriteByte
  <2>1. RingOK' /\ Used' = Used /\ udrie' = udrie /\ burst' = 0 /\ pc = "print"
    BY <1>2, QuietKeepsRing DEF WriteByte
  <2>2. pc' \in {"print", "test"}
    BY <1>2 DEF WriteByte, Flush
  <2> QED
    BY <1>0, <2>1, <2>2 DEF EnableOK
<1>3. CASE Test
  <2>1. /\ RingOK' /\ Used' = Used /\ udrie' = udrie /\ burst' = 0
        /\ pc' = IF Used = RingSize - 1 THEN "wait" ELSE "store"
    BY <1>3, QuietKeepsRing, RoomFacts DEF Test
  <2> QED
    BY <1>0, <2>1 DEF EnableOK
<1>4. CASE Wait
  <2>1. /\ RingOK' /\ Used' = Used /\ udrie' = TRUE /\ burst' = 0
        /\ pc = "wait" /\ pc' \in {"print", "test"}
    BY <1>4, QuietKeepsRing DEF Wait
  <2> QED
    BY <1>0, <2>1 DEF EnableOK
<1>5. CASE Store
  <2>1. pc = "store" /\ Used <= RingSize - 2
    BY <1>5 DEF Store, EnableOK
  <2>2. RingOK' /\ Used' = Used + 1
    BY <1>5, <2>1, PutKeepsRing DEF Store
  <2>3. udrie' = udrie /\ burst' = 0 /\ pc' \in {"enable", "test"}
    BY <1>5 DEF Store
  <2> QED
    BY <1>0, <2>2, <2>3 DEF EnableOK
<1>6. CASE Enable
  <2>1. /\ RingOK' /\ Used' = Used /\ udrie' = TRUE /\ burst' = 0
        /\ pc = "enable" /\ pc' = "print"
    BY <1>6, QuietKeepsRing DEF Enable
  <2> QED
    BY <1>0, <2>1 DEF EnableOK
<1>7. CASE Udre
  <2>1. udrie /\ Used >= 1
    BY <1>7 DEF Udre, EnableOK
  <2>2. RingOK' /\ Used' = Used - 1 /\ (tail' # head <=> Used' >= 1)
    BY <1>7, <2>1, TakeKeepsRing DEF Udre
  <2>3. pc' = pc /\ (udrie' <=> Used' >= 1)
    BY <1>7, <2>2 DEF Udre
  <2>4. CASE pc = "print"
    <3>1. burst' = 0
      BY <1>7, <2>4 DEF Udre
    <3> QED
      BY <1>0, <2>2, <2>3, <2>4, <3>1 DEF EnableOK
  <2>5. CASE pc # "print"
    <3>1. burst = 0 /\ burst' = 1
      BY <1>7, <2>5, BurstAssumption DEF Udre, EnableOK
    <3> QED
      BY <1>0, <2>1, <2>2, <2>3, <2>5, <3>1 DEF EnableOK
  <2> QED
    BY <2>4, <2>5
<1>8. CASE UNCHANGED vars
  <2>1. RingOK' /\ Used' = Used /\ UNCHANGED <<pc, udrie, burst>>
    BY <1>8, QuietKeepsRing DEF vars, ringVars
  <2> QED
    BY <2>1 DEF EnableOK
<1> QED
  BY <1>1, <1>2, <1>3, <1>4, <1>5, <1>6, <1>7, <1>8 DEF Next, Main

-----------------------------------------------------------------------------
(* Each step accepts a byte, sends one or leaves the channel alone.        *)
LEMMA ChannelStep ==
  ASSUME TypeOK, RingOK, EnableOK, [Next]_vars
  PROVE  [Channel!Next]_<<queued, uart>>
<1>1. CASE Store
  <2>1. queued' = Append(queued, frame[pos]) /\ uart' = uart
    BY <1>1 DEF Store
  <2>2. Len(queued') = Len(queued) + 1 /\ queued'[Len(queued')] = frame[pos]
    BY <2>1, AppendFacts DEF RingOK
  <2> QED
    BY <2>1, <2>2 DEF Channel!Next, Channel!Accept
<1>2. CASE Udre
  <2>1. Used >= 1
    BY <1>2 DEF Udre, EnableOK
  <2>2. uart' = Append(uart, queued[Len(uart) + 1]) /\ queued' = queued
    BY <1>2, <2>1, TakeKeepsRing DEF Udre
  <2>3. Len(uart) < Len(queued)
    BY <2>1 DEF RingOK, Used, IsSeq
  <2>4. Channel!Send
    BY <2>2, <2>3 DEF Channel!Send
  <2> QED
    BY <2>4 DEF Channel!Next
<1>3. ASSUME ~Store, ~Udre PROVE UNCHANGED <<queued, uart>>
  BY <1>3 DEF Next, Main, PrintLine, WriteByte, Test, Wait, Enable, vars, ringVars
<1> QED
  BY <1>1, <1>2, <1>3

(* What leaves the transmitter is what was queued, in order and once       *)
(* (serial.c:99-112, llp_transport.c:214-236), provided it takes at most   *)
(* one byte between two steps of the copying loop.                         *)
THEOREM TxImplementsChannel ==
  ASSUME Burst <= 1 PROVE Spec => SentAsQueued
<1>1. Init => TypeOK /\ SpinOK /\ RingOK /\ EnableOK
  BY TypeInit, TxInvInit
<1>2. TypeOK /\ SpinOK /\ RingOK /\ EnableOK /\ [Next]_vars
        => (TypeOK /\ SpinOK /\ RingOK /\ EnableOK)'
  BY TypeStep, TxInvStep
<1>3. Init => Channel!Init
  BY DEF Init, Channel!Init
<1>4. TypeOK /\ RingOK /\ EnableOK /\ [Next]_vars => [Channel!Next]_<<queued, uart>>
  BY ChannelStep
<1> QED
  BY <1>1, <1>2, <1>3, <1>4, PTL DEF Spec, SentAsQueued, Channel!Spec

(* Under the same proviso, the interrupt is on whenever the main program   *)
(* has left bytes in the ring (llp_transport.c:227 and 236).               *)
THEOREM TxNothingForgotten ==
  ASSUME Burst <= 1 PROVE Spec => []NothingForgotten
<1>1. Init => TypeOK /\ SpinOK /\ RingOK /\ EnableOK
  BY TypeInit, TxInvInit
<1>2. TypeOK /\ SpinOK /\ RingOK /\ EnableOK /\ [Next]_vars
        => (TypeOK /\ SpinOK /\ RingOK /\ EnableOK)'
  BY TypeStep, TxInvStep
<1>3. TypeOK /\ RingOK /\ EnableOK => NothingForgotten
  <2> SUFFICES ASSUME TypeOK, RingOK, EnableOK, head # tail, pc = "print"
               PROVE  udrie
    BY DEF NothingForgotten
  <2>1. Used # 0
    BY OffsetFacts, SizesAssumption DEF RingOK, TypeOK
  <2> QED
    BY <2>1 DEF RingOK, EnableOK
<1> QED
  BY <1>1, <1>2, <1>3, PTL DEF Spec

-----------------------------------------------------------------------------
(* Induction over the natural numbers, for a set in place of a predicate.  *)
LEMMA Induction ==
  ASSUME NEW T, 0 \in T, \A i \in Nat : i \in T => i + 1 \in T
  PROVE  Nat \subseteq T
<1> DEFINE Less == {ss \in Nat \X Nat : ss[1] < ss[2]}
<1>1. SUFFICES ASSUME Nat \ T # {} PROVE FALSE
  OBVIOUS
<1>2. IsWellFoundedOn(Less, Nat)
  BY NatLessThanWellFounded DEF OpToRel
<1>3. PICK x \in Nat \ T : \A y \in Nat \ T : ~ (<<y, x>> \in Less)
  <2> HIDE DEF Less
  <2> QED BY <1>1, <1>2, WFMin
<1>4. x # 0 /\ x - 1 \in Nat /\ x - 1 \notin T
  BY <1>3
<1>5. <<x - 1, x>> \in Less
  BY <1>4
<1> QED
  BY <1>3, <1>4, <1>5

(* A function may be defined by recursion: the values up to any number.    *)
Steps(V) == [Nat -> [V -> V]]
Follows(f, V, first, next, m) ==
  /\ f \in [0 .. m -> V]
  /\ \A i \in 0 .. m : f[i] = IF i = 0 THEN first ELSE next[i][f[i - 1]]
(* A function that is defined by recursion exists: step by step.           *)
LEMMA Recursion ==
  ASSUME NEW V, NEW first \in V, NEW next \in Steps(V), NEW m \in Nat
  PROVE  \E f : Follows(f, V, first, next, m)
<1> DEFINE Upto(k) == \E f \in [0 .. k -> V] :
              \A i \in 0 .. k : f[i] = IF i = 0 THEN first ELSE next[i][f[i - 1]]
           T == {k \in Nat : Upto(k)}
<1>1. 0 \in T
  <2> DEFINE f == [i \in 0 .. 0 |-> first]
  <2>1. f \in [0 .. 0 -> V] /\ \A i \in 0 .. 0 : i = 0 /\ f[i] = first
    OBVIOUS
  <2>2. Upto(0)
    <3> HIDE DEF f
    <3> QED BY <2>1
  <2> QED BY <2>2
<1>2. ASSUME NEW k \in Nat, k \in T PROVE k + 1 \in T
  <2>1. PICK f \in [0 .. k -> V] :
          \A i \in 0 .. k : f[i] = IF i = 0 THEN first ELSE next[i][f[i - 1]]
    BY <1>2
  <2> DEFINE g == [i \in 0 .. k + 1 |-> IF i = k + 1 THEN next[k + 1][f[k]] ELSE f[i]]
  <2>2. next[k + 1][f[k]] \in V
    BY <2>1 DEF Steps
  <2>3. g \in [0 .. k + 1 -> V]
    BY <2>1, <2>2
  <2>4. \A i \in 0 .. k + 1 : g[i] = IF i = 0 THEN first ELSE next[i][g[i - 1]]
    <3> TAKE i \in 0 .. k + 1
    <3>1. CASE i = k + 1
      BY <3>1
    <3>2. CASE i # k + 1
      <4>1. i \in 0 .. k /\ g[i] = f[i] /\ (i # 0 => g[i - 1] = f[i - 1])
        BY <3>2
      <4> QED BY <2>1, <4>1
    <3> QED BY <3>1, <3>2
  <2>5. Upto(k + 1)
    <3> HIDE DEF g
    <3> QED BY <2>3, <2>4
  <2> QED
    BY <2>5
<1>3. Nat \subseteq T
  <2> HIDE DEF T
  <2> QED BY <1>1, <1>2, Induction
<1> QED
  BY <1>3 DEF Follows
-----------------------------------------------------------------------------
(* A flattened sequence is built part by part.                             *)
Flattening(f, ss) ==
  \A i \in 1 .. Len(ss) : f[i] = IF i = 1 THEN ss[1] ELSE f[i - 1] \o ss[i]

LEMMA FlattenedBy ==
  ASSUME NEW S, NEW ss \in Seq(Seq(S)), ss # <<>>
  PROVE  \E f \in [1 .. Len(ss) -> Seq(S)] :
           Flattening(f, ss) /\ FlattenSeq(ss) = f[Len(ss)]
<1> DEFINE n == Len(ss)
           Flat(f) == f = [i \in 1 .. n |-> IF i = 1 THEN ss[i] ELSE f[i - 1] \o ss[i]]
           step == [i \in Nat |-> [s \in Seq(S) |-> IF i + 1 \in 1 .. n THEN s \o ss[i + 1] ELSE s]]
           flat == CHOOSE f : Flat(f)
<1>1. n \in Nat /\ n > 0 /\ \A i \in 1 .. n : ss[i] \in Seq(S)
  OBVIOUS
<1> HIDE DEF n
<1>2. step \in Steps(Seq(S))
  <2> SUFFICES ASSUME NEW i \in Nat, NEW s \in Seq(S), i + 1 \in 1 .. n
               PROVE  s \o ss[i + 1] \in Seq(S)
    BY DEF Steps
  <2> QED
    BY <1>1
<1>3. PICK h : Follows(h, Seq(S), ss[1], step, n - 1)
  <2>1. ss[1] \in Seq(S) /\ n - 1 \in Nat
    BY <1>1
  <2> HIDE DEF step
  <2> QED
    BY <2>1, <1>2, Recursion
<1>4. \A i \in 0 .. n - 1 : h[i] = IF i = 0 THEN ss[1] ELSE h[i - 1] \o ss[i + 1]
  <2> TAKE i \in 0 .. n - 1
  <2>1. i # 0 => i \in Nat /\ i + 1 \in 1 .. n /\ h[i - 1] \in Seq(S)
    BY <1>1, <1>3 DEF Follows
  <2>2. h[i] = IF i = 0 THEN ss[1] ELSE step[i][h[i - 1]]
    BY <1>3 DEF Follows
  <2> QED
    BY <2>1, <2>2
<1>5. \E g : Flat(g)
  <2> DEFINE g == [i \in 1 .. n |-> h[i - 1]]
  <2>1. \A i \in 1 .. n : g[i] = IF i = 1 THEN ss[i] ELSE g[i - 1] \o ss[i]
    BY <1>1, <1>4
  <2>2. g = [i \in 1 .. n |-> g[i]]
    OBVIOUS
  <2>3. Flat(g)
    <3> HIDE DEF g
    <3> QED
      BY <2>1, <2>2
  <2> QED
    BY <2>3
<1>6. Flat(flat)
  <2> HIDE DEF Flat
  <2> QED
    BY <1>5
<1> HIDE DEF flat
<1>7. \A i \in 1 .. n : flat[i] = IF i = 1 THEN ss[1] ELSE flat[i - 1] \o ss[i]
  BY <1>6
<1>8. FlattenSeq(ss) = flat[n]
  BY <1>1 DEF FlattenSeq, flat, n
<1> DEFINE T == {i \in Nat : i + 1 \in 1 .. n => flat[i + 1] \in Seq(S)}
<1>9. 0 \in T
  BY <1>1, <1>7
<1>10. ASSUME NEW i \in Nat, i \in T PROVE i + 1 \in T
  <2> SUFFICES ASSUME (i + 1) + 1 \in 1 .. n PROVE flat[(i + 1) + 1] \in Seq(S)
    OBVIOUS
  <2>1. flat[i + 1] \in Seq(S) /\ ss[(i + 1) + 1] \in Seq(S)
    BY <1>1, <1>10
  <2>2. flat[(i + 1) + 1] = flat[i + 1] \o ss[(i + 1) + 1]
    <3>1. (i + 1) + 1 # 1 /\ ((i + 1) + 1) - 1 = i + 1
      OBVIOUS
    <3> QED
      BY <1>7, <3>1
  <2> QED
    BY <2>1, <2>2
<1>11. Nat \subseteq T
  <2> HIDE DEF T
  <2> QED
    BY <1>9, <1>10, Induction
<1>12. ASSUME NEW i \in 1 .. n PROVE flat[i] \in Seq(S)
  <2>1. i - 1 \in T /\ (i - 1) + 1 = i
    <3> HIDE DEF T
    <3> QED
      BY <1>1, <1>11
  <2> QED
    BY <2>1
<1>13. flat \in [1 .. n -> Seq(S)]
  <2>1. flat = [i \in 1 .. n |-> IF i = 1 THEN ss[i] ELSE flat[i - 1] \o ss[i]]
    BY <1>6
  <2>2. DOMAIN flat = 1 .. n
    BY <2>1
  <2>3. flat = [i \in 1 .. n |-> flat[i]]
    BY <2>1, <2>2
  <2> QED
    BY <1>12, <2>3
<1>14. Flattening(flat, ss)
  BY <1>7 DEF Flattening, n
<1> QED
  BY <1>8, <1>13, <1>14 DEF n

(* What flattening yields is a sequence.                                   *)
LEMMA FlattenTyped ==
  ASSUME NEW S, NEW ss \in Seq(Seq(S)) PROVE FlattenSeq(ss) \in Seq(S)
<1>1. CASE ss = <<>>
  BY <1>1, <<>> \in Seq(S) DEF FlattenSeq
<1>2. CASE ss # <<>>
  <2>1. PICK f \in [1 .. Len(ss) -> Seq(S)] : FlattenSeq(ss) = f[Len(ss)]
    BY <1>2, FlattenedBy
  <2>2. Len(ss) \in 1 .. Len(ss)
    BY <1>2
  <2> QED
    BY <2>1, <2>2
<1> QED
  BY <1>1, <1>2

(* A part more at the end.                                                 *)
LEMMA FlattenAppend ==
  ASSUME NEW S, NEW ss \in Seq(Seq(S)), NEW s \in Seq(S)
  PROVE  FlattenSeq(Append(ss, s)) = FlattenSeq(ss) \o s
<1> DEFINE m == Len(ss)
           tt == Append(ss, s)
<1>1. /\ m \in Nat /\ tt \in Seq(Seq(S)) /\ tt # <<>> /\ Len(tt) = m + 1 /\ tt[m + 1] = s
      /\ \A i \in 1 .. m : tt[i] = ss[i]
  <2>1. PICK V : V = Seq(S)
    OBVIOUS
  <2>2. ss \in Seq(V) /\ s \in V
    BY <2>1
  <2>3. /\ m \in Nat /\ tt \in Seq(V) /\ tt # <<>> /\ Len(tt) = m + 1 /\ tt[m + 1] = s
        /\ \A i \in 1 .. m : tt[i] = ss[i]
    BY <2>2
  <2> QED
    BY <2>1, <2>3
<1>2. m = 0 => ss = <<>>
  OBVIOUS
<1> HIDE DEF tt, m
<1>3. PICK g \in [1 .. m + 1 -> Seq(S)] : Flattening(g, tt) /\ FlattenSeq(tt) = g[m + 1]
  BY <1>1, FlattenedBy
<1>4. CASE m = 0
  <2>1. FlattenSeq(tt) = s
    BY <1>1, <1>3, <1>4 DEF Flattening
  <2>2. ss = <<>> /\ FlattenSeq(ss) = <<>> /\ <<>> \o s = s
    BY <1>2, <1>4 DEF FlattenSeq
  <2> QED
    BY <2>1, <2>2 DEF tt
<1>5. CASE m # 0
  <2>1. ss # <<>> /\ Len(ss) = m
    BY <1>5 DEF m
  <2>2. PICK f \in [1 .. m -> Seq(S)] : Flattening(f, ss) /\ FlattenSeq(ss) = f[m]
    BY <2>1, FlattenedBy
  <2> DEFINE T == {i \in Nat : i + 1 \in 1 .. m => f[i + 1] = g[i + 1]}
  <2>3. 0 \in T
    BY <1>1, <1>3, <2>1, <2>2 DEF Flattening
  <2>4. ASSUME NEW i \in Nat, i \in T PROVE i + 1 \in T
    <3> SUFFICES ASSUME (i + 1) + 1 \in 1 .. m PROVE f[(i + 1) + 1] = g[(i + 1) + 1]
      OBVIOUS
    <3>1. /\ (i + 1) + 1 # 1 /\ ((i + 1) + 1) - 1 = i + 1 /\ (i + 1) + 1 \in 1 .. m + 1
          /\ i + 1 \in 1 .. m
      BY <1>1
    <3>2. f[i + 1] = g[i + 1]
      BY <3>1, <2>4
    <3>3. f[(i + 1) + 1] = f[i + 1] \o ss[(i + 1) + 1]
      BY <3>1, <2>1, <2>2 DEF Flattening
    <3>4. g[(i + 1) + 1] = g[i + 1] \o tt[(i + 1) + 1]
      BY <3>1, <1>1, <1>3 DEF Flattening
    <3> QED
      BY <3>1, <3>2, <3>3, <3>4, <1>1
  <2>5. Nat \subseteq T
    <3> HIDE DEF T
    <3> QED
      BY <2>3, <2>4, Induction
  <2>6. f[m] = g[m]
    <3>1. m - 1 \in T
      <4> HIDE DEF T
      <4> QED
        BY <1>1, <1>5, <2>5
    <3>2. (m - 1) + 1 = m /\ m \in 1 .. m
      BY <1>1, <1>5
    <3> QED
      BY <3>1, <3>2
  <2>7. g[m + 1] = g[m] \o tt[m + 1]
    <3>1. m + 1 # 1 /\ (m + 1) - 1 = m /\ m + 1 \in 1 .. m + 1
      BY <1>1, <1>5
    <3> QED
      BY <1>1, <1>3, <3>1 DEF Flattening
  <2> QED
    BY <1>1, <1>3, <2>2, <2>6, <2>7 DEF tt
<1> QED
  BY <1>4, <1>5

-----------------------------------------------------------------------------
LEMMA SeqOfMore ==
  ASSUME NEW S, NEW V, S \subseteq V, NEW s \in Seq(S) PROVE s \in Seq(V)
OBVIOUS

(* The frame of a line: a sequence that begins with the magic bytes.       *)
LEMMA FrameTyped ==
  ASSUME NEW line \in Seq(Byte)
  PROVE  /\ FrameOf(line) \in Seq(Range(FrameOf(line)))
         /\ Len(FrameOf(line)) \in Nat /\ Len(FrameOf(line)) >= 2
<1> DEFINE payload == <<0>> \o line
           body == <<Len(payload) % 256, Len(payload) \div 256>> \o payload
           crc == FoldLeft(CrcUpdate, HeaderCrc, body)
           low == crc % 256
           high == crc \div 256
           plain == body \o <<low, high>>
           V == Int \cup {low, high}
           W == V \cup {0, Magic1}
           stuffed == [i \in DOMAIN plain |-> write_stuffed(plain[i])]
<1>1. body \in Seq(Int)
  <2>1. line \in Seq(Int)
    <3>1. Byte \subseteq Int
      BY DEF Byte, ByteMax
    <3> QED
      BY <3>1, SeqOfMore
  <2>2. <<0>> \in Seq(Int)
    OBVIOUS
  <2>3. payload \in Seq(Int) /\ Len(payload) \in Nat
    BY <2>1, <2>2
  <2> HIDE DEF payload
  <2> QED
    BY <2>3
<1>2. plain \in Seq(V)
  <2>1. body \in Seq(V) /\ <<low, high>> \in Seq(V)
    <3> HIDE DEF body, low, high
    <3> QED
      BY <1>1
  <2> HIDE DEF body, low, high
  <2> QED
    BY <2>1
<1>3. stuffed \in Seq(Seq(W))
  <2> HIDE DEF plain, low, high
  <2>1. \A i \in DOMAIN plain : write_stuffed(plain[i]) \in Seq(W)
    <3>1. V \subseteq W /\ {0, Magic1} \subseteq W
      OBVIOUS
    <3> HIDE DEF V, W
    <3>2. \A i \in DOMAIN plain : plain[i] \in W
      BY <1>2, <3>1
    <3>3. \A b \in W : <<Magic1, 0>> \in Seq(W) /\ <<b>> \in Seq(W)
      BY <3>1
    <3> QED
      BY <3>2, <3>3 DEF write_stuffed
  <2>2. DOMAIN plain = 1 .. Len(plain) /\ Len(plain) \in Nat
    BY <1>2
  <2> HIDE DEF W
  <2> QED
    BY <2>1, <2>2
<1>4. FlattenSeq(stuffed) \in Seq(W)
  <2> HIDE DEF stuffed, W
  <2> QED
    BY <1>3, FlattenTyped
<1>5. FrameOf(line) = <<Magic1, Magic2>> \o FlattenSeq(stuffed)
  BY DEF FrameOf, build_frame
<1> HIDE DEF stuffed, W
<1>6. FrameOf(line) \in Seq(W \cup {Magic1, Magic2}) /\ Len(FrameOf(line)) >= 2
  BY <1>4, <1>5
<1> QED
  BY <1>6 DEF Range

-----------------------------------------------------------------------------
(* A line that fits: it ends in its only line end, within the line buffer, *)
(* and its payload fits.  A longer one, such as the help text              *)
(* (report.c:177), is cut where the buffer is full and that part is lost.  *)
LineFits(line) ==
  /\ line # <<>> /\ line[Len(line)] = NewLine
  /\ \A i \in 1 .. Len(line) - 1 : line[i] # NewLine
  /\ Len(line) <= TxLineSize /\ FitsPayload(line)
AllLinesFit == \A line \in OutLines : LineFits(line)

Frames(lines) == [i \in DOMAIN lines |-> FrameOf(lines[i])]
FrameBytes == UNION {Range(FrameOf(line)) : line \in OutLines}

(* How much of a line has gone from text to the line buffer.               *)
Written(line) ==
  /\ Len(line_buf) + Len(text) = Len(line)
  /\ \A i \in 1 .. Len(line_buf) : line_buf[i] = line[i]
  /\ \A i \in 1 .. Len(text) : text[i] = line[Len(line_buf) + i]

(* While no loss is counted: the frames of the lines before are queued,    *)
(* and of the last line a part of the text is in the line buffer or a part *)
(* of the frame in the ring.                                               *)
Idle == line_buf = <<>> /\ queued = FlattenSeq(Frames(printed))
Writing ==
  \E done \in Seq(OutLines), line \in OutLines :
     /\ printed = Append(done, line) /\ Written(line)
     /\ queued = FlattenSeq(Frames(done))
Copying ==
  /\ text = <<>> /\ line_buf = <<>>
  /\ \E done \in Seq(OutLines), line \in OutLines :
        /\ printed = Append(done, line) /\ frame = FrameOf(line)
        /\ pos \in 1 .. Len(frame)
        /\ queued = FlattenSeq(Frames(done)) \o SubSeq(frame, 1, pos - 1)
TxOrder ==
  /\ printed \in Seq(OutLines)
  /\ pc = "print" /\ text = <<>> => Idle
  /\ pc = "print" /\ text # <<>> => Writing
  /\ pc \in {"test", "wait", "store"} => Copying
  /\ pc = "enable" => text = <<>> /\ Idle
TxOrderKept == dropped = 0 => TxOrder

LEMMA FramesTyped ==
  ASSUME NEW lines \in Seq(OutLines) PROVE Frames(lines) \in Seq(Seq(FrameBytes))
<1>1. ASSUME NEW line \in OutLines PROVE FrameOf(line) \in Seq(FrameBytes)
  <2>1. FrameOf(line) \in Seq(Range(FrameOf(line)))
    BY FrameTyped, PrintAssumption
  <2>2. Range(FrameOf(line)) \subseteq FrameBytes
    BY DEF FrameBytes
  <2> QED
    BY <2>1, <2>2, SeqOfMore
<1>2. PICK V : V = Seq(FrameBytes)
  OBVIOUS
<1>3. \A line \in OutLines : FrameOf(line) \in V
  BY <1>1, <1>2
<1>4. Frames(lines) \in Seq(V)
  BY <1>3 DEF Frames
<1> QED
  BY <1>2, <1>4

LEMMA FrameFacts ==
  ASSUME NEW line \in OutLines
  PROVE  FrameOf(line) \in Seq(FrameBytes) /\ Len(FrameOf(line)) \in Nat /\ Len(FrameOf(line)) >= 2
<1>1. FrameOf(line) \in Seq(Range(FrameOf(line))) /\ Len(FrameOf(line)) \in Nat /\ Len(FrameOf(line)) >= 2
  BY FrameTyped, PrintAssumption
<1>2. Range(FrameOf(line)) \subseteq FrameBytes
  BY DEF FrameBytes
<1> QED
  BY <1>1, <1>2, SeqOfMore

(* With one line more there is one frame more.                             *)
LEMMA OneFrameMore ==
  ASSUME NEW done \in Seq(OutLines), NEW line \in OutLines
  PROVE  /\ FlattenSeq(Frames(done)) \in Seq(FrameBytes)
         /\ FlattenSeq(Frames(Append(done, line)))
              = FlattenSeq(Frames(done)) \o FrameOf(line)
<1>1. Frames(done) \in Seq(Seq(FrameBytes)) /\ FrameOf(line) \in Seq(FrameBytes)
  BY FramesTyped, FrameFacts
<1>2. Frames(Append(done, line)) = Append(Frames(done), FrameOf(line))
  BY DEF Frames
<1> QED
  BY <1>1, <1>2, FlattenTyped, FlattenAppend

LEMMA OrderInit == Init => TxOrderKept
<1> SUFFICES ASSUME Init PROVE TxOrder
  BY DEF TxOrderKept
<1>1. printed = <<>> /\ Frames(printed) = <<>>
  BY DEF Init, Frames
<1>2. FlattenSeq(Frames(printed)) = <<>>
  BY <1>1 DEF FlattenSeq
<1> QED
  BY <1>1, <1>2 DEF Init, TxOrder, Idle

(* The line buffer is flushed exactly with the last byte of a line.        *)
LEMMA WriteKeepsOrder ==
  ASSUME AllLinesFit, TypeOK, TxOrder, WriteByte PROVE TxOrder'
<1> DEFINE b == Head(text)
           buf == IF Len(line_buf) < TxLineSize THEN Append(line_buf, b) ELSE line_buf
<1>1. /\ pc = "print" /\ text # <<>> /\ text' = Tail(text) /\ UNCHANGED <<printed, queued>>
      /\ IF b = NewLine \/ Len(buf) >= TxLineSize
           THEN Flush(buf)
           ELSE line_buf' = buf /\ UNCHANGED <<frame, pos, spin, pc>>
  BY DEF WriteByte, MainAt, ringVars
<1>2. PICK done \in Seq(OutLines), line \in OutLines :
        printed = Append(done, line) /\ Written(line) /\ queued = FlattenSeq(Frames(done))
  BY <1>1 DEF TxOrder, Writing
<1>3. line \in Seq(Byte) /\ LineFits(line)
  BY PrintAssumption DEF AllLinesFit
<1> DEFINE n == Len(line_buf)
<1>4. /\ n \in Nat /\ Len(line) \in Nat /\ n + 1 <= Len(line) /\ b = line[n + 1]
      /\ buf \in Seq(Byte) /\ Len(buf) = n + 1 /\ buf[n + 1] = b
      /\ \A i \in 1 .. n : buf[i] = line_buf[i]
      /\ text' \in Seq(Byte) /\ Len(text') = Len(line) - (n + 1)
      /\ \A i \in 1 .. Len(text') : text'[i] = text[i + 1]
  <2>1. /\ line_buf \in Seq(Byte) /\ text \in Seq(Byte) /\ text # <<>> /\ n < TxLineSize
        /\ Len(text) \in Nat /\ Len(text) >= 1 /\ b = text[1] /\ b \in Byte
    BY <1>1 DEF TypeOK
  <2>2. n + Len(text) = Len(line) /\ text[1] = line[n + 1]
    BY <1>2, <2>1 DEF Written
  <2>3. /\ buf \in Seq(Byte) /\ Len(buf) = n + 1 /\ buf[n + 1] = b
        /\ \A i \in 1 .. n : buf[i] = line_buf[i]
    BY <2>1
  <2>4. /\ text' \in Seq(Byte) /\ Len(text') = Len(text) - 1
        /\ \A i \in 1 .. Len(text') : text'[i] = text[i + 1]
    BY <1>1, <2>1
  <2> QED
    BY <1>3, <2>1, <2>2, <2>3, <2>4
<1>5. \A i \in 1 .. n + 1 : buf[i] = line[i]
  BY <1>2, <1>4 DEF Written
<1>6. \A i \in 1 .. Len(text') : text'[i] = line[(n + 1) + i]
  <2> TAKE i \in 1 .. Len(text')
  <2>1. text'[i] = text[i + 1] /\ i + 1 \in 1 .. Len(text) /\ n + (i + 1) = (n + 1) + i
    <3>1. Len(text) \in Nat /\ n + Len(text) = Len(line)
      BY <1>2 DEF Written, TypeOK
    <3> QED
      BY <1>4, <3>1
  <2> QED
    BY <1>2, <2>1 DEF Written
<1> HIDE DEF b, buf, n
<1>7. CASE n + 1 = Len(line)
  <2>1. b = NewLine
    BY <1>3, <1>4, <1>7 DEF LineFits
  <2>2. buf = line
    BY <1>3, <1>4, <1>5, <1>7
  <2>3. /\ line_buf' = <<>> /\ frame' = FrameOf(line) /\ pos' = 1 /\ pc' = "test"
    BY <1>1, <1>3, <2>1, <2>2 DEF Flush, FrameOf, LineFits
  <2>4. text' = <<>>
    BY <1>4, <1>7
  <2>5. queued' = FlattenSeq(Frames(done)) \o SubSeq(frame', 1, pos' - 1)
    <3>1. FlattenSeq(Frames(done)) \in Seq(FrameBytes) /\ FrameOf(line) \in Seq(FrameBytes)
      BY OneFrameMore, FrameFacts
    <3>2. SubSeq(frame', 1, pos' - 1) = <<>>
      BY <2>3, <3>1
    <3>3. FlattenSeq(Frames(done)) \o <<>> = FlattenSeq(Frames(done))
      BY <3>1
    <3>4. queued' = FlattenSeq(Frames(done))
      BY <1>1, <1>2
    <3> QED
      BY <3>2, <3>3, <3>4
  <2>6. pos' \in 1 .. Len(frame')
    BY <2>3, FrameFacts
  <2>7. Copying'
    BY <1>1, <1>2, <2>3, <2>4, <2>5, <2>6 DEF Copying
  <2> QED
    BY <1>1, <2>3, <2>7 DEF TxOrder
<1>8. CASE n + 1 # Len(line)
  <2>1. b # NewLine /\ Len(buf) < TxLineSize
    BY <1>3, <1>4, <1>8, SizesAssumption DEF LineFits
  <2>2. line_buf' = buf /\ pc' = pc
    BY <1>1, <1>4, <2>1, SizesAssumption
  <2>3. Written(line)'
    <3>1. Len(line_buf') = n + 1
      BY <1>4, <2>2
    <3>2. Len(line_buf') + Len(text') = Len(line)
      BY <1>4, <3>1
    <3> QED
      BY <1>5, <1>6, <2>2, <3>1, <3>2 DEF Written
  <2>4. text' # <<>>
    BY <1>4, <1>8
  <2>5. Writing'
    BY <1>1, <1>2, <2>3 DEF Writing
  <2> QED
    BY <1>1, <2>2, <2>4, <2>5 DEF TxOrder
<1> QED
  BY <1>7, <1>8

LEMMA SameElements ==
  ASSUME NEW S, NEW s \in Seq(S), NEW r \in Seq(S), Len(s) = Len(r),
         \A i \in 1 .. Len(s) : s[i] = r[i]
  PROVE  s = r
OBVIOUS

(* A prefix behind a sequence grows by one element.                        *)
LEMMA PrefixGrows ==
  ASSUME NEW S, NEW s \in Seq(S), NEW f \in Seq(S), NEW p \in 1 .. Len(f)
  PROVE  Append(s \o SubSeq(f, 1, p - 1), f[p]) = s \o SubSeq(f, 1, p)
<1>1. /\ SubSeq(f, 1, p - 1) \in Seq(S) /\ SubSeq(f, 1, p) \in Seq(S) /\ f[p] \in S
      /\ Len(SubSeq(f, 1, p - 1)) = p - 1 /\ Len(SubSeq(f, 1, p)) = p
      /\ \A i \in 1 .. p - 1 : SubSeq(f, 1, p - 1)[i] = f[i]
      /\ \A i \in 1 .. p : SubSeq(f, 1, p)[i] = f[i]
  OBVIOUS
<1>2. PICK before, after : before = SubSeq(f, 1, p - 1) /\ after = SubSeq(f, 1, p)
  OBVIOUS
<1>3. /\ Append(s \o before, f[p]) \in Seq(S) /\ s \o after \in Seq(S)
      /\ Len(Append(s \o before, f[p])) = Len(s) + p /\ Len(s \o after) = Len(s) + p
  BY <1>1, <1>2
<1>4. ASSUME NEW i \in 1 .. Len(s) + p
      PROVE  Append(s \o before, f[p])[i] = (s \o after)[i]
  <2>0. PICK m \in Nat, q \in Nat \ {0} : m = Len(s) /\ q = p
    OBVIOUS
  <2>1. CASE i \in 1 .. Len(s)
    BY <2>1, <1>1, <1>2
  <2>2. CASE i \in Len(s) + 1 .. Len(s) + p - 1
    BY <2>2, <1>1, <1>2
  <2>3. CASE i = Len(s) + p
    BY <2>3, <1>1, <1>2
  <2>4. i \in 1 .. m \/ i \in m + 1 .. m + q - 1 \/ i = m + q
    BY <2>0
  <2> QED
    BY <2>0, <2>4, <2>1, <2>2, <2>3
<1> QED
  BY <1>2, <1>3, <1>4, SameElements

(* The next byte of the frame.                                             *)
LEMMA StoreKeepsOrder == ASSUME TxOrder, Store PROVE TxOrder'
<1>1. /\ pc = "store" /\ queued' = Append(queued, frame[pos]) /\ pos' = pos + 1
      /\ pc' = IF pos = Len(frame) THEN "enable" ELSE "test"
      /\ UNCHANGED <<text, line_buf, printed, frame>>
  BY DEF Store, MainAt, lineVars
<1>2. Copying
  BY <1>1 DEF TxOrder
<1>3. PICK done \in Seq(OutLines), line \in OutLines :
        /\ printed = Append(done, line) /\ frame = FrameOf(line) /\ pos \in 1 .. Len(frame)
        /\ queued = FlattenSeq(Frames(done)) \o SubSeq(frame, 1, pos - 1)
  BY <1>2 DEF Copying
<1>4. /\ FlattenSeq(Frames(done)) \in Seq(FrameBytes) /\ frame \in Seq(FrameBytes)
      /\ Len(frame) \in Nat /\ Len(frame) >= 2
      /\ FlattenSeq(Frames(printed)) = FlattenSeq(Frames(done)) \o frame
  BY <1>3, OneFrameMore, FrameFacts
<1>5. queued' = FlattenSeq(Frames(done)) \o SubSeq(frame, 1, pos)
  <2> HIDE DEF Frames
  <2>1. PICK fs, f, p : fs = FlattenSeq(Frames(done)) /\ f = frame /\ p = pos
    OBVIOUS
  <2>2. /\ fs \in Seq(FrameBytes) /\ f \in Seq(FrameBytes) /\ p \in 1 .. Len(f)
    BY <1>3, <1>4, <2>1
  <2>3. Append(fs \o SubSeq(f, 1, p - 1), f[p]) = fs \o SubSeq(f, 1, p)
    BY <2>2, PrefixGrows
  <2> QED
    BY <1>1, <1>3, <2>1, <2>3
<1>6. CASE pos = Len(frame)
  <2>1. SubSeq(frame, 1, pos) = frame
    BY <1>4, <1>6
  <2>2. queued' = FlattenSeq(Frames(printed))
    BY <1>4, <1>5, <2>1
  <2> QED
    BY <1>1, <1>2, <1>6, <2>2 DEF TxOrder, Copying, Idle
<1>7. CASE pos # Len(frame)
  <2>1. pos' \in 1 .. Len(frame') /\ pos' - 1 = pos /\ frame' = frame
    BY <1>1, <1>3, <1>4, <1>7
  <2>2. Copying'
    BY <1>1, <1>2, <1>3, <1>5, <2>1 DEF Copying
  <2> QED
    BY <1>1, <1>7, <2>2 DEF TxOrder
<1> QED
  BY <1>6, <1>7

LEMMA OrderStep ==
  ASSUME AllLinesFit, TypeOK, TxOrderKept, [Next]_vars PROVE TxOrderKept'
<1> SUFFICES ASSUME dropped' = 0 PROVE TxOrder'
  BY DEF TxOrderKept
<1>1. dropped = 0
  BY DEF TypeOK, Next, Main, PrintLine, WriteByte, Test, Wait, Store, Enable, Udre, vars
<1>2. TxOrder
  BY <1>1 DEF TxOrderKept
<1>3. CASE PrintLine
  <2>1. /\ pc = "print" /\ pc' = pc /\ text = <<>> /\ UNCHANGED <<line_buf, queued>>
        /\ text' \in OutLines /\ printed' = Append(printed, text')
    BY <1>3 DEF PrintLine, MainAt, ringVars
  <2>2. line_buf = <<>> /\ queued = FlattenSeq(Frames(printed)) /\ printed \in Seq(OutLines)
    BY <1>2, <2>1 DEF TxOrder, Idle
  <2>3. text' \in Seq(Byte) /\ text' # <<>>
    BY <2>1, PrintAssumption DEF AllLinesFit, LineFits
  <2>4. line_buf' = <<>> /\ Len(line_buf') = 0
    BY <2>1, <2>2
  <2>5. PICK line : line = text'
    OBVIOUS
  <2>6. Written(line)'
    <3>1. Len(text') \in Nat /\ \A i \in 1 .. Len(text') : 0 + i = i
      BY <2>3
    <3> QED
      BY <2>4, <2>5, <3>1 DEF Written
  <2>7. Writing'
    BY <2>1, <2>2, <2>5, <2>6 DEF Writing
  <2> QED
    BY <2>1, <2>2, <2>3, <2>7 DEF TxOrder
<1>4. CASE WriteByte
  BY <1>2, <1>4, WriteKeepsOrder
<1>5. CASE Test
  <2>1. /\ pc = "test" /\ pc' \in {"wait", "store"}
        /\ UNCHANGED <<text, line_buf, printed, frame, pos, queued>>
    BY <1>5 DEF Test, MainAt, lineVars, copyVars, ringVars
  <2> QED
    BY <1>2, <2>1 DEF TxOrder, Copying
<1>6. CASE Wait
  <2>1. /\ pc = "wait" /\ pc' = "test"
        /\ UNCHANGED <<text, line_buf, printed, frame, pos, queued>>
    BY <1>1, <1>6 DEF Wait, MainAt, lineVars, ringVars
  <2> QED
    BY <1>2, <2>1 DEF TxOrder, Copying
<1>7. CASE Store
  BY <1>2, <1>7, StoreKeepsOrder
<1>8. CASE Enable
  <2>1. /\ pc = "enable" /\ pc' = "print"
        /\ UNCHANGED <<text, line_buf, printed, queued>>
    BY <1>8 DEF Enable, MainAt, lineVars, ringVars
  <2> QED
    BY <1>2, <2>1 DEF TxOrder, Idle
<1>9. CASE Udre \/ UNCHANGED vars
  <2>1. UNCHANGED <<text, line_buf, printed, frame, pos, queued, pc>>
    BY <1>9 DEF Udre, vars, lineVars, copyVars, ringVars
  <2>2. Idle' = Idle /\ Copying' = Copying /\ (Writing <=> Writing')
    BY <2>1 DEF Idle, Copying, Writing, Written
  <2> QED
    BY <1>2, <2>1, <2>2 DEF TxOrder
<1> QED
  BY <1>3, <1>4, <1>5, <1>6, <1>7, <1>8, <1>9 DEF Next, Main

(* As long as no loss is counted (README.md:45, td), what was put into the *)
(* ring when the main program has nothing to print is the frames of all    *)
(* the lines printed, whole and in order (llp_transport.c:189-237),        *)
(* whatever the checksum, the ring and the pace of the transmitter, if all *)
(* the lines fit.                                                          *)
THEOREM TxLinesFramed ==
  ASSUME AllLinesFit PROVE Spec => []LinesFramed
<1>1. Init => TypeOK /\ SpinOK /\ TxOrderKept
  BY TypeInit, OrderInit
<1>2. TypeOK /\ SpinOK /\ TxOrderKept /\ [Next]_vars => (TypeOK /\ SpinOK /\ TxOrderKept)'
  BY TypeStep, OrderStep
<1>3. TxOrderKept => LinesFramed
  BY DEF TxOrderKept, TxOrder, Idle, Frames, LinesFramed
<1> QED
  BY <1>1, <1>2, <1>3, PTL DEF Spec
=============================================================================
