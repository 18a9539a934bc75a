---------------------------- MODULE SettingsProofs ----------------------------
(***************************************************************************)
(* What is proved of Settings, for every size of the EEPROM and of its     *)
(* records, every number of commands and of power failures.                *)
(*                                                                         *)
(* The argument: whatever is still to be written leads to an image of the  *)
(* EEPROM that is already right.  A command builds that image (Issued)     *)
(* from the bytes it lays down, which belong to the records it names       *)
(* (Lays, Layout), a byte written comes nearer to it (WriteByteKeeps), and *)
(* when the power fails the records without a byte missing are already     *)
(* those of the image (PowerLossKeeps).  The bytes of the settings are     *)
(* sound one by one, so that no mixture of old and new ones is unsound.    *)
(***************************************************************************)
EXTENDS Settings, WellFoundedInduction, TLAPS

(* Induction over the natural numbers, for a set in place of a predicate.  *)
LEMMA Induction ==
  ASSUME NEW T, 0 \in T, \A i \in Nat : i \in T => i + 1 \in T
  PROVE  Nat \subseteq T
<1> DEFINE Less == {ss \in Nat \X Nat : ss[1] < ss[2]}
<1>1. SUFFICES ASSUME Nat \ T # {} PROVE FALSE
  OBVIOUS
<1>2. IsWellFoundedOn(Less, Nat)
  BY NatLessThanWellFounded DEF OpToRel
<1>3. PICK x \in Nat \ T : \A y \in Nat \ T : ~ (<<y, x>> \in Less)
  <2> HIDE DEF Less
  <2> QED BY <1>1, <1>2, WFMin
<1>4. x # 0 /\ x - 1 \in Nat /\ x - 1 \notin T
  BY <1>3
<1>5. <<x - 1, x>> \in Less
  BY <1>4
<1> QED
  BY <1>3, <1>4, <1>5

(* A function may be defined by recursion: the values up to any number.    *)
Steps(V) == [Nat -> [V -> V]]
Follows(f, V, first, next, m) ==
  /\ f \in [0 .. m -> V]
  /\ \A i \in 0 .. m : f[i] = IF i = 0 THEN first ELSE next[i][f[i - 1]]
(* A function that is defined by recursion exists: step by step.           *)
LEMMA Recursion ==
  ASSUME NEW V, NEW first \in V, NEW next \in Steps(V), NEW m \in Nat
  PROVE  \E f : Follows(f, V, first, next, m)
<1> DEFINE Upto(k) == \E f \in [0 .. k -> V] :
              \A i \in 0 .. k : f[i] = IF i = 0 THEN first ELSE next[i][f[i - 1]]
           T == {k \in Nat : Upto(k)}
<1>1. 0 \in T
  <2> DEFINE f == [i \in 0 .. 0 |-> first]
  <2>1. f \in [0 .. 0 -> V] /\ \A i \in 0 .. 0 : i = 0 /\ f[i] = first
    OBVIOUS
  <2>2. Upto(0)
    <3> HIDE DEF f
    <3> QED BY <2>1
  <2> QED BY <2>2
<1>2. ASSUME NEW k \in Nat, k \in T PROVE k + 1 \in T
  <2>1. PICK f \in [0 .. k -> V] :
          \A i \in 0 .. k : f[i] = IF i = 0 THEN first ELSE next[i][f[i - 1]]
    BY <1>2
  <2> DEFINE g == [i \in 0 .. k + 1 |-> IF i = k + 1 THEN next[k + 1][f[k]] ELSE f[i]]
  <2>2. next[k + 1][f[k]] \in V
    BY <2>1 DEF Steps
  <2>3. g \in [0 .. k + 1 -> V]
    BY <2>1, <2>2
  <2>4. \A i \in 0 .. k + 1 : g[i] = IF i = 0 THEN first ELSE next[i][g[i - 1]]
    <3> TAKE i \in 0 .. k + 1
    <3>1. CASE i = k + 1
      BY <3>1
    <3>2. CASE i # k + 1
      <4>1. i \in 0 .. k /\ g[i] = f[i] /\ (i # 0 => g[i - 1] = f[i - 1])
        BY <3>2
      <4> QED BY <2>1, <4>1
    <3> QED BY <3>1, <3>2
  <2>5. Upto(k + 1)
    <3> HIDE DEF g
    <3> QED BY <2>3, <2>4
  <2> QED
    BY <2>5
<1>3. Nat \subseteq T
  <2> HIDE DEF T
  <2> QED BY <1>1, <1>2, Induction
<1> QED
  BY <1>3 DEF Follows
-----------------------------------------------------------------------------
(* Arithmetic: blocks of one size, and two digits to a base.               *)
LEMMA Blocks ==
  ASSUME NEW i \in Nat, NEW j \in Nat, NEW size \in Nat, i < j
  PROVE  i * size \in Nat /\ i * size + size <= j * size
<1>1. i * size \in Nat /\ j * size \in Nat /\ (j - i - 1) * size \in Nat
  OBVIOUS
<1>2. j * size = i * size + size + (j - i - 1) * size
  OBVIOUS
<1> QED
  BY <1>1, <1>2

(* A number of two digits is read back from them.                          *)
LEMMA Digits ==
  ASSUME NEW m \in Nat, m <= Base * Base - 1
  PROVE  /\ m % Base \in Byte /\ m \div Base \in Byte
         /\ (m % Base) + Base * (m \div Base) = m
<1>1. Base \in Nat /\ Base > 0
  BY ByteAssumption
<1>2. m = Base * (m \div Base) + (m % Base) /\ m % Base \in 0..Base - 1 /\ m \div Base \in Nat
  BY <1>1
<1>3. m \div Base < Base
  BY <1>1, <1>2
<1> QED
  BY <1>1, <1>2, <1>3 DEF Byte

(* Two digits are a number below the square of the base.                   *)
LEMMA Number ==
  ASSUME NEW low \in Byte, NEW high \in Byte
  PROVE  low + Base * high \in 0..Base * Base - 1
<1>1. Base \in Nat /\ Base > 0 /\ low \in Nat /\ high \in Nat /\ low < Base /\ high + 1 <= Base
  BY ByteAssumption DEF Byte
<1>2. Base * (high + 1) <= Base * Base
  BY <1>1
<1>3. Base * (high + 1) = Base * high + Base
  BY <1>1
<1> QED
  BY <1>1, <1>2, <1>3

(* A function on 1..m is a sequence of that length.                        *)
LEMMA SeqLen ==
  ASSUME NEW S, NEW m \in Nat, NEW b \in [1..m -> S]
  PROVE  b \in Seq(S) /\ Len(b) = m /\ DOMAIN b = 1..m
OBVIOUS

-----------------------------------------------------------------------------
(* The checksum is a byte, that of zeros is zero.                          *)
LEMMA ChecksumType ==
  ASSUME NEW m \in Nat, NEW b \in [1..m -> Byte]
  PROVE  /\ Checksum(b) \in Byte
         /\ (\A i \in 1..m : b[i] = 0) => Checksum(b) = 0
<1> DEFINE Sum(f) == f = [i \in 0..Len(b) |-> IF i = 0 THEN 0 ELSE (Bit(f[i - 1] # 0) + b[i]) % Base]
           step == [i \in Nat |-> [v \in Byte |-> IF i \in 1..m THEN (Bit(v # 0) + b[i]) % Base ELSE 0]]
           sum == CHOOSE f : Sum(f)
<1>1. Len(b) = m /\ Base \in Nat /\ Base > 0 /\ 0 \in Byte
  <2>1. Len(b) = m
    BY SeqLen
  <2>2. Base \in Nat /\ Base > 0
    BY ByteAssumption
  <2> QED BY <2>1, <2>2 DEF Byte
<1>2. step \in Steps(Byte)
  <2> SUFFICES ASSUME NEW i \in 1..m, NEW v \in Byte PROVE (Bit(v # 0) + b[i]) % Base \in Byte
    BY <1>1 DEF Steps
  <2>1. Bit(v # 0) + b[i] \in Nat
    BY DEF Bit, Byte
  <2> QED
    BY <1>1, <2>1 DEF Byte
<1>3. PICK f : Follows(f, Byte, 0, step, m)
  <2> HIDE DEF step
  <2> QED BY <1>1, <1>2, Recursion
<1>4. \A i \in 0..m : f[i] = IF i = 0 THEN 0 ELSE (Bit(f[i - 1] # 0) + b[i]) % Base
  <2> TAKE i \in 0..m
  <2>1. i # 0 => i \in 1..m /\ i \in Nat /\ f[i - 1] \in Byte
    BY <1>3 DEF Follows
  <2> QED BY <1>3, <2>1 DEF Follows
<1>5. Sum(f)
  BY <1>1, <1>3, <1>4 DEF Follows
<1>6. Sum(sum)
  <2> HIDE DEF Sum
  <2> QED BY <1>5
<1>7. \A i \in 0..m : sum[i] = IF i = 0 THEN 0 ELSE (Bit(sum[i - 1] # 0) + b[i]) % Base
  <2> HIDE DEF sum
  <2> QED BY <1>1, <1>6
<1>8. Checksum(b) = sum[m]
  BY <1>1 DEF Checksum
<1> HIDE DEF sum
<1>9. \A i \in 0..m : sum[i] \in Byte
  <2> DEFINE T == {i \in Nat : i \in 0..m => sum[i] \in Byte}
  <2>1. 0 \in T
    BY <1>1, <1>7
  <2>2. ASSUME NEW i \in Nat, i \in T PROVE i + 1 \in T
    <3> SUFFICES ASSUME i + 1 \in 0..m PROVE sum[i + 1] \in Byte
      OBVIOUS
    <3>1. sum[i + 1] = (Bit(sum[i] # 0) + b[i + 1]) % Base /\ b[i + 1] \in Byte
      BY <1>7
    <3>2. Bit(sum[i] # 0) + b[i + 1] \in Nat
      BY <3>1 DEF Bit, Byte
    <3> QED
      BY <3>1, <3>2, <1>1 DEF Byte
  <2>3. Nat \subseteq T
    <3> HIDE DEF T
    <3> QED BY <2>1, <2>2, Induction
  <2> QED BY <2>3
<1>10. ASSUME \A i \in 1..m : b[i] = 0 PROVE \A i \in 0..m : sum[i] = 0
  <2> DEFINE T == {i \in Nat : i \in 0..m => sum[i] = 0}
  <2>1. 0 \in T
    BY <1>7
  <2>2. ASSUME NEW i \in Nat, i \in T PROVE i + 1 \in T
    <3> SUFFICES ASSUME i + 1 \in 0..m PROVE sum[i + 1] = 0
      OBVIOUS
    <3>1. sum[i + 1] = (Bit(sum[i] # 0) + b[i + 1]) % Base /\ b[i + 1] = 0 /\ sum[i] = 0
      BY <1>7, <1>10, <2>2
    <3> QED
      BY <3>1, <1>1 DEF Bit
  <2>3. Nat \subseteq T
    <3> HIDE DEF T
    <3> QED BY <2>1, <2>2, Induction
  <2> QED BY <2>3
<1> QED
  BY <1>8, <1>9, <1>10

-----------------------------------------------------------------------------
(* The values of two sequences put together.                               *)
LEMMA RangeConcat ==
  ASSUME NEW S, NEW s \in Seq(S), NEW t \in Seq(S)
  PROVE  s \o t \in Seq(S) /\ Range(s \o t) = Range(s) \cup Range(t)
<1>1. /\ s \o t \in Seq(S) /\ Len(s \o t) = Len(s) + Len(t) /\ Len(s) \in Nat /\ Len(t) \in Nat
      /\ \A i \in 1..Len(s) + Len(t) : (s \o t)[i] = IF i <= Len(s) THEN s[i] ELSE t[i - Len(s)]
      /\ DOMAIN s = 1..Len(s) /\ DOMAIN t = 1..Len(t) /\ DOMAIN (s \o t) = 1..Len(s) + Len(t)
  OBVIOUS
<1>2. ASSUME NEW x \in Range(s) PROVE x \in Range(s \o t)
  <2>1. PICK i \in 1..Len(s) : x = s[i]
    BY <1>1, <1>2 DEF Range
  <2> QED BY <1>1, <2>1 DEF Range
<1>3. ASSUME NEW x \in Range(t) PROVE x \in Range(s \o t)
  <2>1. PICK i \in 1..Len(t) : x = t[i]
    BY <1>1, <1>3 DEF Range
  <2>2. i + Len(s) \in 1..Len(s) + Len(t) /\ (s \o t)[i + Len(s)] = x
    BY <1>1, <2>1
  <2> QED BY <1>1, <2>2 DEF Range
<1>4. ASSUME NEW x \in Range(s \o t) PROVE x \in Range(s) \cup Range(t)
  <2>1. PICK i \in 1..Len(s) + Len(t) : x = (s \o t)[i]
    BY <1>1, <1>4 DEF Range
  <2> QED BY <1>1, <2>1 DEF Range
<1> QED
  BY <1>1, <1>2, <1>3, <1>4

(* The elements of a flattened sequence are those of its parts.            *)
LEMMA Flattened ==
  ASSUME NEW S, NEW ss \in Seq(Seq(S)), ss # <<>>
  PROVE  /\ FlattenSeq(ss) \in Seq(S)
         /\ Range(FlattenSeq(ss)) = UNION {Range(ss[i]) : i \in DOMAIN ss}
<1> DEFINE n0 == Len(ss)
           Flat(f) == f = [i \in 1..n0 |-> IF i = 1 THEN ss[i] ELSE f[i - 1] \o ss[i]]
           step == [i \in Nat |-> [s \in Seq(S) |-> IF i + 1 \in 1..n0 THEN s \o ss[i + 1] ELSE s]]
           flat == CHOOSE f : Flat(f)
<1>1. n0 \in Nat /\ n0 > 0 /\ DOMAIN ss = 1..n0 /\ \A i \in 1..n0 : ss[i] \in Seq(S)
  OBVIOUS
<1> HIDE DEF n0
<1>2. step \in Steps(Seq(S))
  <2> SUFFICES ASSUME NEW i \in Nat, NEW s \in Seq(S), i + 1 \in 1..n0 PROVE s \o ss[i + 1] \in Seq(S)
    BY DEF Steps
  <2> QED
    BY <1>1
<1>3. PICK f : Follows(f, Seq(S), ss[1], step, n0 - 1)
  <2>1. ss[1] \in Seq(S) /\ n0 - 1 \in Nat
    BY <1>1
  <2> HIDE DEF step
  <2> QED BY <2>1, <1>2, Recursion
<1>4. \A i \in 0..n0 - 1 : f[i] = IF i = 0 THEN ss[1] ELSE f[i - 1] \o ss[i + 1]
  <2> TAKE i \in 0..n0 - 1
  <2>1. i # 0 => i \in Nat /\ i + 1 \in 1..n0 /\ f[i - 1] \in Seq(S)
    BY <1>1, <1>3 DEF Follows
  <2>2. f[i] = IF i = 0 THEN ss[1] ELSE step[i][f[i - 1]]
    BY <1>3 DEF Follows
  <2> QED BY <2>1, <2>2
<1>5. \E g : Flat(g)
  <2> DEFINE g == [i \in 1..n0 |-> f[i - 1]]
  <2>1. \A i \in 1..n0 : g[i] = IF i = 1 THEN ss[i] ELSE g[i - 1] \o ss[i]
    BY <1>1, <1>4
  <2>2. g = [i \in 1..n0 |-> g[i]]
    OBVIOUS
  <2>3. Flat(g)
    <3> HIDE DEF g
    <3> QED BY <2>1, <2>2
  <2> QED BY <2>3
<1>6. Flat(flat)
  <2> HIDE DEF Flat
  <2> QED BY <1>5
<1> HIDE DEF flat
<1>7. \A i \in 1..n0 : flat[i] = IF i = 1 THEN ss[i] ELSE flat[i - 1] \o ss[i]
  BY <1>6
<1>8. FlattenSeq(ss) = flat[n0]
  BY <1>1 DEF FlattenSeq, flat, n0
<1> DEFINE Parts(i) == UNION {Range(ss[j]) : j \in 1..i}
           Good(i) == flat[i] \in Seq(S) /\ Range(flat[i]) = Parts(i)
           T == {i \in Nat : i + 1 \in 1..n0 => Good(i + 1)}
<1>9. 0 \in T
  <2>1. flat[1] = ss[1] /\ ss[1] \in Seq(S)
    BY <1>1, <1>7
  <2>2. Parts(1) = Range(ss[1])
    OBVIOUS
  <2>3. Good(0 + 1)
    BY <2>1, <2>2
  <2> QED BY <2>3
<1>10. ASSUME NEW i \in Nat, i \in T PROVE i + 1 \in T
  <2> SUFFICES ASSUME i + 2 \in 1..n0 PROVE Good(i + 2)
    OBVIOUS
  <2>1. Good(i + 1)
    BY <1>1, <1>10
  <2>2. flat[i + 2] = flat[i + 1] \o ss[i + 2] /\ ss[i + 2] \in Seq(S)
    <3>1. i + 2 # 1 /\ (i + 2) - 1 = i + 1
      OBVIOUS
    <3> QED BY <1>1, <1>7, <3>1
  <2>3. /\ flat[i + 2] \in Seq(S)
        /\ Range(flat[i + 2]) = Range(flat[i + 1]) \cup Range(ss[i + 2])
    BY <2>1, <2>2, RangeConcat
  <2>4. Parts(i + 2) = Parts(i + 1) \cup Range(ss[i + 2])
    <3>1. \A j : j \in 1..i + 2 <=> j \in 1..i + 1 \/ j = i + 2
      OBVIOUS
    <3> QED BY <3>1
  <2> QED BY <2>1, <2>3, <2>4
<1>11. Nat \subseteq T
  <2> HIDE DEF T
  <2> QED BY <1>9, <1>10, Induction
<1>12. Good(n0)
  <2>1. n0 - 1 \in T
    <3> HIDE DEF T
    <3> QED BY <1>1, <1>11
  <2>2. (n0 - 1) + 1 = n0 /\ n0 \in 1..n0
    BY <1>1
  <2> QED BY <2>1, <2>2
<1> QED
  BY <1>1, <1>8, <1>12

-----------------------------------------------------------------------------
(* The layout: the bytes a record owns, the version byte with the settings.*)
Addresses == 0..EepromSize - 1
Own(r) == IF r = Global THEN 0..6 ELSE Addr(r)..Addr(r) + Size(r)

(* The sizes and addresses, as the assumption gives them.                  *)
LEMMA Constants ==
  /\ {EepromSize, AddrParameters, AddrStartup, AddrBuildInfo} \subseteq Nat
  /\ {NCoord, CoordSize, NLines, LineSize} \subseteq Nat \ {0}
  /\ NCoord * (CoordSize + 1) \in Nat /\ NLines * (LineSize + 1) \in Nat
  /\ 7 <= AddrParameters /\ AddrParameters + NCoord * (CoordSize + 1) <= AddrStartup
  /\ AddrStartup + NLines * (LineSize + 1) <= AddrBuildInfo
  /\ AddrBuildInfo + LineSize + 1 <= EepromSize
<1> DEFINE c == NCoord * (CoordSize + 1)
           l == NLines * (LineSize + 1)
<1>1. c \in Nat /\ l \in Nat
  <2>1. NCoord \in Nat /\ CoordSize + 1 \in Nat /\ NLines \in Nat /\ LineSize + 1 \in Nat
    BY LayoutAssumption
  <2> QED BY <2>1
<1> HIDE DEF c, l
<1>2. /\ AddrParameters + c <= AddrStartup /\ AddrStartup + l <= AddrBuildInfo
      /\ AddrBuildInfo + LineSize + 1 <= EepromSize /\ 7 <= AddrParameters
      /\ {AddrParameters, AddrStartup, AddrBuildInfo, EepromSize} \subseteq Nat
      /\ {NCoord, CoordSize, NLines, LineSize} \subseteq Nat \ {0}
  BY LayoutAssumption DEF c, l
<1> QED
  BY <1>1, <1>2 DEF c, l

(* The same without the products, for the steps that need the order only.  *)
LEMMA Counts ==
  /\ NCoord \in Nat \ {0} /\ NLines \in Nat \ {0} /\ LineSize \in Nat \ {0} /\ CoordSize \in Nat \ {0}
  /\ BuildInfo = NCoord + NLines + 1 /\ BuildInfo \in Nat /\ NoRecord = BuildInfo + 1
  /\ Records = 0..BuildInfo /\ Global = 0 /\ Global \in Records /\ BuildInfo \in Records
  /\ {EepromSize, AddrParameters, AddrStartup, AddrBuildInfo} \subseteq Nat
  /\ 7 <= AddrParameters /\ AddrParameters < AddrStartup /\ AddrStartup < AddrBuildInfo
  /\ AddrBuildInfo < EepromSize
<1>1. NCoord \in Nat \ {0} /\ NLines \in Nat \ {0} /\ LineSize \in Nat \ {0} /\ CoordSize \in Nat \ {0}
  BY LayoutAssumption
<1> DEFINE c == NCoord * (CoordSize + 1)
           l == NLines * (LineSize + 1)
<1>2. c \in Nat \ {0} /\ l \in Nat \ {0}
  BY <1>1
<1> HIDE DEF c, l
<1>3. /\ AddrParameters + c <= AddrStartup /\ AddrStartup + l <= AddrBuildInfo
      /\ AddrBuildInfo + LineSize + 1 <= EepromSize /\ 7 <= AddrParameters
      /\ {AddrParameters, AddrStartup, AddrBuildInfo, EepromSize} \subseteq Nat
  BY LayoutAssumption DEF c, l
<1> QED
  BY <1>1, <1>2, <1>3 DEF BuildInfo, NoRecord, Records, Global

(* Where the bytes of each kind of record are.                             *)
LEMMA Kinds ==
  ASSUME NEW r \in Records
  PROVE  \/ r = Global
         \/ /\ r \in 1..NCoord /\ r - 1 \in Nat /\ r - 1 < NCoord /\ ~ IsLine(r) /\ r # Global
            /\ Addr(r) = AddrParameters + (r - 1) * (CoordSize + 1) /\ Size(r) = CoordSize
         \/ /\ r \in NCoord + 1..NCoord + NLines /\ r - NCoord - 1 \in Nat /\ r - NCoord - 1 < NLines
            /\ IsLine(r) /\ r # Global
            /\ Addr(r) = AddrStartup + (r - NCoord - 1) * (LineSize + 1) /\ Size(r) = LineSize
         \/ /\ r = BuildInfo /\ IsLine(r) /\ r # Global /\ Addr(r) = AddrBuildInfo /\ Size(r) = LineSize
<1>1. r \in 0..NCoord + NLines + 1 /\ NCoord \in Nat \ {0} /\ NLines \in Nat \ {0}
  BY Constants DEF Records, BuildInfo
<1>2. CASE r = 0
  BY <1>2 DEF Global
<1>3. CASE r \in 1..NCoord
  BY <1>1, <1>3 DEF Addr, CoordAddr, Size, IsLine, Global
<1>4. CASE r \in NCoord + 1..NCoord + NLines
  BY <1>1, <1>4 DEF Addr, LineAddr, Size, IsLine, Global
<1>5. CASE r = NCoord + NLines + 1
  BY <1>1, <1>5 DEF Addr, Size, IsLine, BuildInfo, Global
<1> QED
  BY <1>1, <1>2, <1>3, <1>4, <1>5

(* The bytes of a record lie between the start of its kind and the next.   *)
LEMMA Bounds ==
  ASSUME NEW r \in Records
  PROVE  /\ Addr(r) \in Nat \ {0} /\ Size(r) \in Nat \ {0} /\ Addr(r) + Size(r) < EepromSize
         /\ r = Global => Addr(r) = 1 /\ Size(r) = 5
         /\ r \in 1..NCoord => Addr(r) >= AddrParameters /\ Addr(r) + Size(r) < AddrStartup
         /\ r \in NCoord + 1..NCoord + NLines =>
              Addr(r) >= AddrStartup /\ Addr(r) + Size(r) < AddrBuildInfo
         /\ r = BuildInfo => Addr(r) = AddrBuildInfo
<1>1. CASE r = Global
  BY <1>1, Constants DEF Global, Addr, Size, BuildInfo
<1>2. CASE r \in 1..NCoord
  <2> DEFINE c == NCoord * (CoordSize + 1)
             a == (r - 1) * (CoordSize + 1)
  <2>1. a \in Nat /\ a + CoordSize + 1 <= c
    BY <1>2, Blocks, Constants
  <2>2. /\ AddrParameters + c <= AddrStartup /\ c \in Nat
        /\ Addr(r) = AddrParameters + a /\ Size(r) = CoordSize
    BY <1>2, Kinds, Constants DEF Global, BuildInfo
  <2> HIDE DEF a, c
  <2> QED BY <1>2, <2>1, <2>2, Constants DEF Global, BuildInfo
<1>3. CASE r \in NCoord + 1..NCoord + NLines
  <2> DEFINE c == NLines * (LineSize + 1)
             a == (r - NCoord - 1) * (LineSize + 1)
  <2>1. a \in Nat /\ a + LineSize + 1 <= c
    BY <1>3, Blocks, Constants
  <2>2. /\ AddrStartup + c <= AddrBuildInfo /\ c \in Nat
        /\ Addr(r) = AddrStartup + a /\ Size(r) = LineSize
    BY <1>3, Kinds, Constants DEF Global, BuildInfo
  <2> HIDE DEF a, c
  <2> QED BY <1>3, <2>1, <2>2, Constants DEF Global, BuildInfo
<1>4. CASE r = BuildInfo
  BY <1>4, Kinds, Constants DEF BuildInfo, Global
<1> QED
  BY <1>1, <1>2, <1>3, <1>4, Kinds

(* Two records of one kind.                                                *)
LEMMA Apart ==
  ASSUME NEW r \in Records, NEW q \in Records, r < q,
         \/ r \in 1..NCoord /\ q \in 1..NCoord
         \/ r \in NCoord + 1..NCoord + NLines /\ q \in NCoord + 1..NCoord + NLines
  PROVE  Addr(r) + Size(r) < Addr(q)
<1>1. CASE r \in 1..NCoord /\ q \in 1..NCoord
  <2> DEFINE a == (r - 1) * (CoordSize + 1)
             b == (q - 1) * (CoordSize + 1)
  <2>1. a \in Nat /\ a + CoordSize + 1 <= b /\ b \in Nat
    BY <1>1, Blocks, Constants
  <2>2. Addr(r) = AddrParameters + a /\ Size(r) = CoordSize /\ Addr(q) = AddrParameters + b
    BY <1>1, Kinds, Constants DEF Global, BuildInfo
  <2> HIDE DEF a, b
  <2> QED BY <2>1, <2>2, Constants
<1>2. CASE r \in NCoord + 1..NCoord + NLines /\ q \in NCoord + 1..NCoord + NLines
  <2> DEFINE a == (r - NCoord - 1) * (LineSize + 1)
             b == (q - NCoord - 1) * (LineSize + 1)
  <2>1. a \in Nat /\ a + LineSize + 1 <= b /\ b \in Nat
    BY <1>2, Blocks, Constants
  <2>2. Addr(r) = AddrStartup + a /\ Size(r) = LineSize /\ Addr(q) = AddrStartup + b
    BY <1>2, Kinds, Constants DEF Global, BuildInfo
  <2> HIDE DEF a, b
  <2> QED BY <2>1, <2>2, Constants
<1> QED
  BY <1>1, <1>2

(* No two records share a byte, for any number and size of records that    *)
(* the assumption admits.                                                  *)
LEMMA Layout ==
  /\ \A r \in Records : Own(r) \subseteq Addresses /\ Addr(r)..Addr(r) + Size(r) \subseteq Own(r)
  /\ \A r, q \in Records : r # q => Own(r) \cap Own(q) = {}
<1>1. ASSUME NEW r \in Records
      PROVE  Own(r) \subseteq Addresses /\ Addr(r)..Addr(r) + Size(r) \subseteq Own(r)
  BY Bounds, Constants DEF Own, Addresses, Global
<1>2. ASSUME NEW r \in Records, NEW q \in Records, r < q PROVE Own(r) \cap Own(q) = {}
  <2>1. q # Global /\ q \in Nat /\ r \in Nat
    BY <1>2, Constants DEF Global, Records, BuildInfo
  <2>4. Addr(q) > 6
    <3>1. q \in 1..NCoord \/ q \in NCoord + 1..NCoord + NLines \/ q = BuildInfo
      BY <2>1, Constants DEF Global, Records, BuildInfo
    <3> QED BY <3>1, Bounds, Constants
  <2>2. CASE r = Global
    BY <2>4, <2>1, <2>2, Bounds DEF Own
  <2>3. CASE r # Global
    <3>1. Addr(r) + Size(r) < Addr(q)
      <4>1. \/ r \in 1..NCoord /\ q \in 1..NCoord
            \/ r \in NCoord + 1..NCoord + NLines /\ q \in NCoord + 1..NCoord + NLines
            \/ r \in 1..NCoord /\ q \in NCoord + 1..NCoord + NLines
            \/ r \in 1..NCoord + NLines /\ q = BuildInfo
        BY <1>2, <2>1, <2>3, Constants DEF Records, BuildInfo, Global
      <4>2. CASE r \in 1..NCoord /\ q \in NCoord + 1..NCoord + NLines
        BY <4>2, Bounds, Constants
      <4>3. CASE r \in 1..NCoord + NLines /\ q = BuildInfo
        BY <4>3, Bounds, Constants
      <4> QED BY <1>2, <4>1, <4>2, <4>3, Apart
    <3> QED BY <2>1, <2>3, <3>1, Bounds DEF Own
  <2> QED BY <2>2, <2>3
<1>3. ASSUME NEW r \in Records, NEW q \in Records, r # q PROVE Own(r) \cap Own(q) = {}
  <2>1. r < q \/ q < r
    BY <1>3, Constants DEF Records, BuildInfo
  <2> QED BY <1>2, <2>1
<1> QED
  BY <1>1, <1>3

-----------------------------------------------------------------------------
(* What a reader of the record is given when the bytes are those of f.     *)
BytesIn(f, r) == [i \in 1..Size(r) |-> f[Addr(r) + i - 1]]
ValidIn(f, r) ==
  Checksum(BytesIn(f, r)) = f[Addr(r) + Size(r)] /\ (r = Global => f[0] = Version)
ValueIn(f, r) ==
  IF ~ValidIn(f, r) THEN Default(r) ELSE IF IsLine(r) THEN Text(BytesIn(f, r)) ELSE BytesIn(f, r)

(* An address within the EEPROM is not wrapped.                            *)
LEMMA Modulo == ASSUME NEW a \in Nat, NEW b \in Nat, a < b PROVE a % b = a
OBVIOUS

(* The reader of the code, in terms of the bytes it reads.                 *)
LEMMA Reading ==
  ASSUME NEW r \in Records
  PROVE  Bytes(r) = BytesIn(eeprom, r) /\ (Valid(r) <=> ValidIn(eeprom, r)) /\ Value(r) = ValueIn(eeprom, r)
<1>1. /\ Addr(r) \in Nat \ {0} /\ Size(r) \in Nat \ {0} /\ Addr(r) + Size(r) < EepromSize
      /\ EepromSize \in Nat
  BY Bounds, Constants
<1>2. \A i \in 1..Size(r) + 1 : At(Addr(r) + i - 1) = eeprom[Addr(r) + i - 1]
  <2> TAKE i \in 1..Size(r) + 1
  <2>1. Addr(r) + i - 1 \in Nat /\ Addr(r) + i - 1 < EepromSize
    BY <1>1
  <2> QED BY <1>1, <2>1, Modulo DEF At
<1>3. At(Addr(r) + Size(r)) = eeprom[Addr(r) + Size(r)] /\ At(0) = eeprom[0]
  BY <1>1, Modulo DEF At
<1>4. Bytes(r) = BytesIn(eeprom, r)
  BY <1>1, <1>2 DEF Bytes, BytesIn
<1>5. Valid(r) <=> ValidIn(eeprom, r)
  BY <1>3, <1>4 DEF Valid, Intact, ValidIn
<1> QED
  BY <1>4, <1>5 DEF Value, ValueIn

(* It depends on the bytes of the record only.                             *)
LEMMA Local ==
  ASSUME NEW r \in Records, NEW f, NEW g, \A a \in Own(r) : f[a] = g[a]
  PROVE  /\ BytesIn(f, r) = BytesIn(g, r) /\ (ValidIn(f, r) <=> ValidIn(g, r))
         /\ ValueIn(f, r) = ValueIn(g, r)
<1>1. /\ Addr(r) \in Nat \ {0} /\ Size(r) \in Nat \ {0}
      /\ \A i \in 1..Size(r) + 1 : Addr(r) + i - 1 \in Own(r)
      /\ Addr(r) + Size(r) \in Own(r) /\ (r = Global => 0 \in Own(r))
  BY Bounds, Layout DEF Own
<1>2. BytesIn(f, r) = BytesIn(g, r)
  BY <1>1 DEF BytesIn
<1>3. ValidIn(f, r) <=> ValidIn(g, r)
  BY <1>1, <1>2 DEF ValidIn
<1> QED
  BY <1>2, <1>3 DEF ValueIn

(* A record whose bytes and checksum are in place.                         *)
Holds(f, r, b) ==
  /\ \A i \in 1..Size(r) : f[Addr(r) + i - 1] = b[i]
  /\ f[Addr(r) + Size(r)] = Checksum(b) /\ (r = Global => f[0] = Version)

(* A record whose bytes and checksum are in place is read back.            *)
LEMMA Held ==
  ASSUME NEW r \in Records, NEW f, NEW b \in [1..Size(r) -> Byte], Holds(f, r, b)
  PROVE  /\ BytesIn(f, r) = b /\ ValidIn(f, r)
         /\ ValueIn(f, r) = IF IsLine(r) THEN Text(b) ELSE b
<1>1. BytesIn(f, r) = b
  BY DEF BytesIn, Holds
<1> QED
  BY <1>1 DEF ValidIn, ValueIn, Holds

(* The bytes of the settings read back as the settings.                    *)
LEMMA SettingsBytes ==
  ASSUME NEW s \in SettingsOf(BOOLEAN)
  PROVE  /\ ToBytes(s) \in [1..5 -> Byte] /\ FromBytes(ToBytes(s)) = s
         /\ ToBytes(s)[1] = s.pulse
         /\ (ToBytes(s)[3] \div 2) % 2 = 1 <=> s.soft
         /\ ToBytes(s)[3] % 2 = 1 <=> s.homing
<1>1. /\ s.pulse \in Byte /\ s.mask \in Byte /\ s.homing \in BOOLEAN /\ s.soft \in BOOLEAN
      /\ s.pulloff \in Nat /\ s.pulloff <= Base * Base - 1
      /\ s = [pulse |-> s.pulse, mask |-> s.mask, homing |-> s.homing, soft |-> s.soft, pulloff |-> s.pulloff]
  BY DEF SettingsOf
<1>2. /\ s.pulloff % Base \in Byte /\ s.pulloff \div Base \in Byte
      /\ (s.pulloff % Base) + Base * (s.pulloff \div Base) = s.pulloff
  BY <1>1, Digits
<1>3. /\ Bit(s.homing) + 2 * Bit(s.soft) \in Byte
      /\ ((Bit(s.homing) + 2 * Bit(s.soft)) \div 2) % 2 = 1 <=> s.soft
      /\ (Bit(s.homing) + 2 * Bit(s.soft)) % 2 = 1 <=> s.homing
  BY <1>1, ByteAssumption DEF Bit, Byte
<1>4. ToBytes(s) \in [1..5 -> Byte]
  BY <1>1, <1>2, <1>3 DEF ToBytes
<1>5. FromBytes(ToBytes(s)) = s
  BY <1>1, <1>2, <1>3 DEF FromBytes, ToBytes
<1> QED
  BY <1>3, <1>4, <1>5 DEF ToBytes

(* Bytes that can be the settings' first and third.                        *)
SoundAt(a, byte) ==
  (a = 1 => byte >= MinPulse) /\ (a = 3 => ((byte \div 2) % 2 = 1 => byte % 2 = 1))

(* Sound bytes make sound settings, whatever the others are.               *)
LEMMA SoundBytes ==
  ASSUME NEW b \in [1..5 -> Byte], SoundAt(1, b[1]), SoundAt(3, b[3])
  PROVE  FromBytes(b) \in SettingsOf(BOOLEAN) /\ Sound(FromBytes(b))
<1>1. b[4] + Base * b[5] \in 0..Base * Base - 1
  BY Number
<1>2. FromBytes(b) \in SettingsOf(BOOLEAN)
  BY <1>1 DEF FromBytes, SettingsOf
<1>3. /\ FromBytes(b).pulse = b[1] /\ FromBytes(b).homing = (b[3] % 2 = 1)
      /\ FromBytes(b).soft = ((b[3] \div 2) % 2 = 1)
  BY DEF FromBytes
<1> QED
  BY <1>2, <1>3 DEF Sound, SoundAt

(* An empty text is all zeros, whatever follows its end.                   *)
LEMMA EmptyText ==
  ASSUME NEW r \in Records, IsLine(r), NEW f, f[Addr(r)] = 0
  PROVE  ValueIn(f, r) = Default(r)
<1>1. /\ Size(r) \in Nat \ {0} /\ Addr(r) \in Nat /\ r # Global
      /\ Default(r) = [i \in 1..Size(r) |-> 0]
  BY Bounds, Constants DEF Default, IsLine, Global
<1>2. BytesIn(f, r)[1] = 0 /\ DOMAIN BytesIn(f, r) = 1..Size(r)
  BY <1>1 DEF BytesIn
<1>3. Text(BytesIn(f, r)) = [i \in 1..Size(r) |-> 0]
  BY <1>1, <1>2 DEF Text
<1> QED
  BY <1>1, <1>3 DEF ValueIn

-----------------------------------------------------------------------------
(* What a sequence of writes lays down: the bytes of img at the addresses  *)
(* of A, each marked with the record that owns it.                         *)
Write == [addr : Addresses, byte : Byte, record : 0..NoRecord]
Lays(ws, img, A) ==
  /\ ws \in Seq(Write)
  /\ \A w \in Range(ws) : /\ w.addr \in A /\ w.byte = img[w.addr]
                          /\ \A r \in Records : w.addr \in Own(r) => w.record = r
  /\ \A a \in A : \E w \in Range(ws) : w.addr = a

(* Two sequences of writes, one after the other.                           *)
LEMMA LaysBoth ==
  ASSUME NEW s, NEW t, NEW img, NEW A, NEW B, Lays(s, img, A), Lays(t, img, B)
  PROVE  Lays(s \o t, img, A \cup B)
<1>1. s \in Seq(Write) /\ t \in Seq(Write)
  BY DEF Lays
<1>2. s \o t \in Seq(Write) /\ Range(s \o t) = Range(s) \cup Range(t)
  BY <1>1, RangeConcat
<1> QED
  BY <1>2 DEF Lays

All(A, m) == UNION {A[i] : i \in 1..m}
Parts(ss, img, A, m) == ss = [i \in 1..m |-> ss[i]] /\ \A i \in 1..m : Lays(ss[i], img, A[i])
(* Any number of them.                                                     *)
LEMMA LaysFlat ==
  ASSUME NEW m \in Nat \ {0}, NEW ss, NEW img, NEW A, Parts(ss, img, A, m)
  PROVE  Lays(FlattenSeq(ss), img, All(A, m))
<1> USE DEF Parts, All
<1>1. ss \in Seq(Seq(Write)) /\ ss # <<>>
  <2>1. ss \in [1..m -> Seq(Write)]
    BY DEF Lays
  <2> QED BY <2>1, SeqLen
<1>2. FlattenSeq(ss) \in Seq(Write) /\ Range(FlattenSeq(ss)) = UNION {Range(ss[i]) : i \in 1..m}
  BY <1>1, Flattened
<1> DEFINE flat == FlattenSeq(ss)
<1> HIDE DEF flat
<1>3. ASSUME NEW w \in Range(flat)
      PROVE  /\ w.addr \in UNION {A[i] : i \in 1..m} /\ w.byte = img[w.addr]
             /\ \A r \in Records : w.addr \in Own(r) => w.record = r
  <2>1. PICK i \in 1..m : w \in Range(ss[i])
    BY <1>2, <1>3 DEF flat
  <2> QED BY <2>1 DEF Lays
<1>4. ASSUME NEW a \in UNION {A[i] : i \in 1..m} PROVE \E w \in Range(flat) : w.addr = a
  <2>1. PICK i \in 1..m : a \in A[i]
    BY <1>4
  <2>2. PICK w \in Range(ss[i]) : w.addr = a
    BY <2>1 DEF Lays
  <2> QED BY <1>2, <2>2 DEF flat
<1> QED
  BY <1>2, <1>3, <1>4 DEF Lays, flat

(* memcpy_to_eeprom_with_checksum() within the EEPROM.                     *)
Cells(ws, addr, m, b, r) ==
  /\ ws \in Seq(Write) /\ DOMAIN ws = 1..m + 1
  /\ \A i \in 1..m + 1 : /\ ws[i].addr = addr + i - 1 /\ ws[i].record = r
                          /\ ws[i].byte = IF i > m THEN Checksum(b) ELSE b[i]

(* The writes are the bytes in their order, then the checksum.             *)
LEMMA Writing ==
  ASSUME NEW addr \in Nat, NEW m \in Nat, NEW b \in [1..m -> Byte], addr + m < EepromSize,
         NEW r \in 0..NoRecord
  PROVE  Cells(WriteAt(addr, b, r), addr, m, b, r)
<1> DEFINE ws == [i \in 1..m + 1 |->
                    [addr |-> addr + i - 1, byte |-> IF i > m THEN Checksum(b) ELSE b[i], record |-> r]]
<1>1. Len(b) = m /\ Checksum(b) \in Byte /\ EepromSize \in Nat
  BY SeqLen, ChecksumType, Constants
<1>2. \A i \in 1..m + 1 : (addr + i - 1) % EepromSize = addr + i - 1 /\ addr + i - 1 \in Addresses
  BY <1>1, Modulo DEF Addresses
<1>3. WriteAt(addr, b, r) = ws
  BY <1>1, <1>2 DEF WriteAt, Put
<1>4. ws \in [1..m + 1 -> Write]
  BY <1>1, <1>2 DEF Write
<1>5. ws \in Seq(Write) /\ DOMAIN ws = 1..m + 1
  <2> HIDE DEF ws
  <2> QED BY <1>4, SeqLen
<1>6. \A i \in 1..m + 1 : /\ ws[i].addr = addr + i - 1 /\ ws[i].record = r
                         /\ ws[i].byte = IF i > m THEN Checksum(b) ELSE b[i]
  OBVIOUS
<1> QED
  BY <1>3, <1>5, <1>6 DEF Cells

(* They lay down the bytes and the checksum.                               *)
LEMMA LaysBytes ==
  ASSUME NEW addr \in Nat, NEW m \in Nat, NEW b \in [1..m -> Byte], addr + m < EepromSize,
         NEW r \in 0..NoRecord, NEW img, \A i \in 1..m : img[addr + i - 1] = b[i],
         img[addr + m] = Checksum(b),
         \A a \in addr..addr + m, q \in Records : a \in Own(q) => q = r
  PROVE  Lays(WriteAt(addr, b, r), img, addr..addr + m)
<1> DEFINE ws == WriteAt(addr, b, r)
<1>1. Cells(ws, addr, m, b, r)
  BY Writing
<1> HIDE DEF ws
<1>2. ASSUME NEW w \in Range(ws)
      PROVE  /\ w.addr \in addr..addr + m /\ w.byte = img[w.addr]
             /\ \A q \in Records : w.addr \in Own(q) => w.record = q
  <2>1. PICK i \in 1..m + 1 : /\ w.addr = addr + i - 1 /\ w.record = r
                              /\ w.byte = IF i > m THEN Checksum(b) ELSE b[i]
    BY <1>1 DEF Range, Cells
  <2>2. w.addr \in addr..addr + m
    BY <2>1
  <2>3. CASE i > m
    <3>1. i = m + 1 /\ w.addr = addr + m /\ w.byte = Checksum(b)
      BY <2>1, <2>3
    <3> QED BY <2>1, <2>2, <3>1
  <2>4. CASE i \in 1..m
    BY <2>1, <2>2, <2>4
  <2> QED BY <2>3, <2>4
<1>3. ASSUME NEW a \in addr..addr + m PROVE \E w \in Range(ws) : w.addr = a
  <2>1. PICK i \in 1..m + 1 : addr + i - 1 = a
    <3>1. a - addr + 1 \in 1..m + 1 /\ addr + (a - addr + 1) - 1 = a
      OBVIOUS
    <3> QED BY <3>1
  <2>2. ws[i].addr = a /\ i \in DOMAIN ws
    BY <1>1, <2>1 DEF Cells
  <2>3. ws[i] \in Range(ws)
    BY <2>2 DEF Range
  <2> QED BY <2>2, <2>3
<1> QED
  BY <1>1, <1>2, <1>3 DEF Lays, Cells, ws

(* For the bytes of a record.                                              *)
LEMMA LaysRecord ==
  ASSUME NEW r \in Records, NEW b \in [1..Size(r) -> Byte], NEW img, Holds(img, r, b)
  PROVE  Lays(WriteAt(Addr(r), b, r), img, Addr(r)..Addr(r) + Size(r))
<1>1. /\ Addr(r) \in Nat /\ Size(r) \in Nat /\ Addr(r) + Size(r) < EepromSize
      /\ \A a \in Addr(r)..Addr(r) + Size(r), q \in Records : a \in Own(q) => q = r
  BY Bounds, Layout
<1>2. r \in 0..NoRecord
  BY Counts
<1> QED
  BY <1>1, <1>2, LaysBytes DEF Holds

(* write_global_settings().                                                *)
LEMMA LaysGlobal ==
  ASSUME NEW s \in SettingsOf(BOOLEAN), NEW img, Holds(img, Global, ToBytes(s))
  PROVE  Lays(WriteGlobal(s), img, Own(Global))
<1>1. /\ Global \in Records /\ Addr(Global) = 1 /\ Size(Global) = 5 /\ Own(Global) = 0..6
      /\ 0 \in Addresses /\ Version \in Byte /\ Global \in 0..NoRecord
  BY Bounds, Constants, ByteAssumption
     DEF Records, Global, BuildInfo, Own, Addresses, Byte, NoRecord
<1>2. Lays(WriteAt(Addr(Global), ToBytes(s), Global), img, 1..6)
  <2>1. ToBytes(s) \in [1..Size(Global) -> Byte]
    BY <1>1, SettingsBytes
  <2>2. Lays(WriteAt(Addr(Global), ToBytes(s), Global), img, Addr(Global)..Addr(Global) + Size(Global))
    BY <1>1, <2>1, LaysRecord
  <2> QED BY <1>1, <2>2
<1>3. Put(0, Version, Global) = [addr |-> 0, byte |-> Version, record |-> Global]
  BY Modulo, Constants DEF Put
<1>4. Lays(<<Put(0, Version, Global)>>, img, {0})
  <2>1. Range(<<Put(0, Version, Global)>>) = {Put(0, Version, Global)}
    BY DEF Range
  <2>2. <<Put(0, Version, Global)>> \in Seq(Write)
    BY <1>1, <1>3 DEF Write
  <2> QED BY <1>1, <1>3, <2>1, <2>2, Layout DEF Lays, Holds
<1>5. {0} \cup (1..6) = Own(Global)
  BY <1>1
<1> QED
  BY <1>2, <1>4, <1>5, LaysBoth DEF WriteGlobal

(* settings_restore(): the defaults, zeros after them.                     *)
Fresh ==
  [a \in Addresses |-> CASE a = 0 -> Version
                         [] a \in 1..5 -> ToBytes(Defaults)[a]
                         [] a = 6 -> Checksum(ToBytes(Defaults))
                         [] OTHER -> 0]

(* Every record is at its default in the restored EEPROM.                  *)
LEMMA DefaultBytes ==
  ASSUME NEW r \in Records
  PROVE  Default(r) \in [1..Size(r) -> Byte] /\ Holds(Fresh, r, Default(r))
<1>1. /\ Addr(r) \in Nat \ {0} /\ Size(r) \in Nat \ {0}
      /\ \A i \in 1..Size(r) + 1 : Addr(r) + i - 1 \in Own(r) /\ Addr(r) + i - 1 \in Addresses
      /\ Addr(r) + Size(r) \in Own(r) /\ Addr(r) + Size(r) \in Addresses
  BY Bounds, Layout
<1>2. CASE r = Global
  <2>1. /\ Addr(r) = 1 /\ Size(r) = 5 /\ Default(r) = ToBytes(Defaults) /\ 0 \in Addresses
        /\ Default(r) \in [1..5 -> Byte]
    BY <1>1, <1>2, Bounds, Layout, SettingsBytes, DefaultsAssumption, Constants DEF Default, Addresses
  <2>2. \A i \in 1..5 : Fresh[Addr(r) + i - 1] = Default(r)[i]
    BY <1>1, <2>1 DEF Fresh
  <2>3. Fresh[6] = Checksum(Default(r)) /\ Fresh[0] = Version
    BY <1>1, <2>1 DEF Fresh
  <2> QED BY <2>1, <2>2, <2>3 DEF Holds
<1>3. CASE r # Global
  <2>1. Default(r) = [i \in 1..Size(r) |-> 0] /\ 0 \in Byte
    BY <1>3, ByteAssumption DEF Default, Byte
  <2>2. \A a \in Own(r) : a > 6
    <3>1. /\ Own(r) = Addr(r)..Addr(r) + Size(r)
          /\ r \in 1..NCoord \/ r \in NCoord + 1..NCoord + NLines \/ r = BuildInfo
      BY <1>3, Counts DEF Own
    <3>2. Addr(r) > 6
      BY <3>1, Bounds, Counts
    <3> QED BY <1>1, <3>1, <3>2
  <2>3. \A a \in Own(r) : a \in Addresses => Fresh[a] = 0
    BY <2>2 DEF Fresh, Addresses
  <2>4. Checksum(Default(r)) = 0 /\ Default(r) \in [1..Size(r) -> Byte]
    BY <1>1, <2>1, ChecksumType
  <2> QED BY <1>1, <1>3, <2>1, <2>3, <2>4 DEF Holds
<1> QED
  BY <1>2, <1>3

(* The restored EEPROM has sound settings.                                 *)
LEMMA FreshType ==
  Fresh \in [Addresses -> Byte] /\ SoundAt(1, Fresh[1]) /\ SoundAt(3, Fresh[3])
<1>1. ToBytes(Defaults) \in [1..5 -> Byte] /\ Checksum(ToBytes(Defaults)) \in Byte
  BY SettingsBytes, DefaultsAssumption, ChecksumType
<1>2. Version \in Byte /\ 0 \in Byte /\ {1, 3} \subseteq Addresses
  BY ByteAssumption, Constants DEF Byte, Addresses
<1>3. Fresh \in [Addresses -> Byte]
  BY <1>1, <1>2 DEF Fresh
<1>4. Fresh[1] = ToBytes(Defaults)[1] /\ Fresh[3] = ToBytes(Defaults)[3]
  BY <1>2 DEF Fresh
<1>5. ToBytes(Defaults)[1] = Defaults.pulse
  BY SettingsBytes, DefaultsAssumption
<1>6. (ToBytes(Defaults)[3] \div 2) % 2 = 1 <=> Defaults.soft
  BY SettingsBytes, DefaultsAssumption
<1>7. ToBytes(Defaults)[3] % 2 = 1 <=> Defaults.homing
  BY SettingsBytes, DefaultsAssumption
<1> QED
  BY <1>3, <1>4, <1>5, <1>6, <1>7, DefaultsAssumption DEF SoundAt

(* The first part of $RST=*: the settings.                                 *)
LEMMA LaysDefaults == Lays(RestoreDefaults, Fresh, Own(Global))
<1>1. Holds(Fresh, Global, ToBytes(Defaults))
  BY DefaultBytes, Counts DEF Default
<1> QED
  BY <1>1, LaysGlobal, DefaultsAssumption DEF RestoreDefaults

(* The writes of two of the three parts of $RST=*, record by record.       *)
Owned(R) == UNION {Own(r) : r \in R}
Starts(R) == UNION {{Addr(r), Addr(r) + 1} : r \in R}

(* The second part: the coordinate records.                                *)
LEMMA LaysParameters == Lays(RestoreParameters, Fresh, Owned(1..NCoord))
<1> DEFINE ss == [i \in 1..NCoord |-> WriteAt(CoordAddr(i - 1), Default(i), Coord(i - 1))]
           A == [i \in 1..NCoord |-> Own(i)]
<1>1. ASSUME NEW i \in 1..NCoord PROVE Lays(ss[i], Fresh, A[i])
  <2>1. i \in Records /\ i # Global /\ Coord(i - 1) = i /\ Addr(i) = CoordAddr(i - 1)
    BY Counts DEF Coord, Addr, Global
  <2>2. Lays(WriteAt(Addr(i), Default(i), i), Fresh, Addr(i)..Addr(i) + Size(i))
    BY <2>1, DefaultBytes, LaysRecord
  <2> QED BY <2>1, <2>2 DEF Own
<1>2. Lays(FlattenSeq(ss), Fresh, All(A, NCoord))
  <2>1. Parts(ss, Fresh, A, NCoord)
    BY <1>1 DEF Parts
  <2> HIDE DEF ss, A
  <2> QED BY <2>1, Counts, LaysFlat
<1>3. All(A, NCoord) = Owned(1..NCoord)
  BY DEF Owned, All
<1> QED
  BY <1>2, <1>3 DEF RestoreParameters

(* A zero and a zero checksum empty a text.                                *)
LEMMA LaysClear ==
  ASSUME NEW r \in Records, IsLine(r)
  PROVE  Lays(Clear(r), Fresh, {Addr(r), Addr(r) + 1})
<1>1. /\ r # Global /\ Addr(r) \in Nat \ {0} /\ Size(r) \in Nat \ {0} /\ Addr(r) + Size(r) < EepromSize
      /\ EepromSize \in Nat /\ r \in 0..NoRecord /\ Size(r) >= 1
  <2>1. r # Global /\ r \in 0..NoRecord
    BY Counts DEF IsLine
  <2> QED BY <2>1, Bounds, Constants
<1>2. Put(Addr(r), 0, r) = [addr |-> Addr(r), byte |-> 0, record |-> r]
  BY <1>1, Modulo DEF Put
<1>3. Put(Addr(r) + 1, 0, r) = [addr |-> Addr(r) + 1, byte |-> 0, record |-> r]
  BY <1>1, Modulo DEF Put
<1>4. /\ {Addr(r), Addr(r) + 1} \subseteq Own(r) /\ Own(r) \subseteq Addresses /\ 0 \in Byte
      /\ Default(r) = [i \in 1..Size(r) |-> 0] /\ Holds(Fresh, r, Default(r))
  BY <1>1, Layout, DefaultBytes, ByteAssumption DEF Own, Default, Byte
<1>5. Fresh[Addr(r)] = 0 /\ Fresh[Addr(r) + 1] = 0
  <2>1. Fresh[Addr(r) + 1 - 1] = 0
    BY <1>1, <1>4 DEF Holds
  <2>2. CASE Size(r) = 1
    <3>1. Checksum(Default(r)) = 0
      BY <1>1, <1>4, ChecksumType
    <3> QED BY <1>1, <1>4, <2>1, <2>2, <3>1 DEF Holds
  <2>3. CASE Size(r) >= 2
    <3>1. 2 \in 1..Size(r) /\ Addr(r) + 2 - 1 = Addr(r) + 1
      BY <1>1, <2>3
    <3>2. Fresh[Addr(r) + 2 - 1] = 0
      BY <1>4, <3>1 DEF Holds
    <3> QED BY <1>1, <2>1, <3>1, <3>2
  <2> QED BY <1>1, <2>2, <2>3
<1>6. Clear(r) \in Seq(Write)
  BY <1>1, <1>2, <1>3, <1>4 DEF Clear, Write
<1>7. Range(Clear(r)) = {Put(Addr(r), 0, r), Put(Addr(r) + 1, 0, r)}
  BY DEF Clear, Range
<1> QED
  BY <1>2, <1>3, <1>4, <1>5, <1>6, <1>7, Layout DEF Lays

(* The third part: the startup lines.                                      *)
LEMMA LaysStartupLines == Lays(RestoreStartupLines, Fresh, Starts(NCoord + 1..NCoord + NLines))
<1> DEFINE ss == [k \in 1..NLines |-> Clear(Line(k - 1))]
           A == [k \in 1..NLines |-> {Addr(NCoord + k), Addr(NCoord + k) + 1}]
<1>1. ASSUME NEW k \in 1..NLines PROVE Lays(ss[k], Fresh, A[k])
  <2>1. Line(k - 1) = NCoord + k /\ NCoord + k \in Records /\ IsLine(NCoord + k)
    BY Counts DEF Line, IsLine
  <2> QED BY <2>1, LaysClear
<1>2. Lays(FlattenSeq(ss), Fresh, All(A, NLines))
  <2>1. Parts(ss, Fresh, A, NLines)
    BY <1>1 DEF Parts
  <2> HIDE DEF ss, A
  <2> QED BY <2>1, Counts, LaysFlat
<1>3. All(A, NLines) = Starts(NCoord + 1..NCoord + NLines)
  <2>1. \A r : r \in NCoord + 1..NCoord + NLines <=> \E k \in 1..NLines : r = NCoord + k
    <3>3. NCoord \in Nat /\ NLines \in Nat
      BY Counts
    <3>1. \A r \in NCoord + 1..NCoord + NLines : r - NCoord \in 1..NLines /\ r = NCoord + (r - NCoord)
      BY <3>3
    <3>2. \A k \in 1..NLines : NCoord + k \in NCoord + 1..NCoord + NLines
      BY <3>3
    <3> QED BY <3>1, <3>2
  <2> QED BY <2>1 DEF Starts, All
<1> QED
  BY <1>2, <1>3 DEF RestoreStartupLines

(* All of $RST=*, with the build information.                              *)
LEMMA LaysAll ==
  Lays(RestoreAll, Fresh,
       Own(Global) \cup Owned(1..NCoord) \cup Starts(NCoord + 1..NCoord + NLines) \cup Starts({BuildInfo}))
<1>1. Lays(Clear(BuildInfo), Fresh, {Addr(BuildInfo), Addr(BuildInfo) + 1})
  BY LaysClear, Counts DEF IsLine
<1>2. Starts({BuildInfo}) = {Addr(BuildInfo), Addr(BuildInfo) + 1}
  BY DEF Starts
<1>3. Lays(RestoreDefaults \o RestoreParameters, Fresh, Own(Global) \cup Owned(1..NCoord))
  BY LaysDefaults, LaysParameters, LaysBoth
<1>4. Lays((RestoreDefaults \o RestoreParameters) \o RestoreStartupLines, Fresh,
           Own(Global) \cup Owned(1..NCoord) \cup Starts(NCoord + 1..NCoord + NLines))
  BY <1>3, LaysStartupLines, LaysBoth
<1> QED
  BY <1>1, <1>2, <1>4, LaysBoth DEF RestoreAll

-----------------------------------------------------------------------------
(* The startup lines that are stored end before the build information.  The*)
(* code does not see to that: the number of $Nx= is not compared with      *)
(* N_STARTUP_LINE (settings.c:64, system.c:264).                           *)
LinesFit == \A k \in LineNumbers : LineAddr(k) + LineSize < AddrBuildInfo

StateOK ==
  /\ eeprom \in [Addresses -> Byte] /\ settings \in SettingsOf(BOOLEAN) /\ alarm \in BOOLEAN
  /\ pc \in {"off", "init", "startup", "ready"} /\ n \in 0..NLines - 1 /\ writes \in Seq(Write)
  /\ DOMAIN expected = Records /\ dirty \subseteq Records
  /\ pc = "off" => writes = <<>>

(* The writes lead from the bytes of the EEPROM to those of f.             *)
Leads(f) ==
  /\ f \in [Addresses -> Byte]
  /\ \A w \in Range(writes) : /\ f[w.addr] = w.byte
                              /\ \A r \in Records : w.addr \in Own(r) => w.record = r
  /\ \A a \in Addresses : f[a] = eeprom[a] \/ \E w \in Range(writes) : w.addr = a

(* Its settings' bytes are sound, its records are the expected ones, and   *)
(* its settings those in memory.                                           *)
SoundIn(f) == SoundAt(1, f[1]) /\ SoundAt(3, f[3])
KeepsIn(f) ==
  \A r \in Records \ dirty : pc # "off" \/ ValidIn(f, Global) => ValueIn(f, r) = expected[r]
PersistsIn(f) ==
  pc # "off" => ValidIn(f, Global) /\ FromBytes(BytesIn(f, Global)) = settings
Image(f) == Leads(f) /\ SoundIn(f) /\ KeepsIn(f) /\ PersistsIn(f)

IInv == StateOK /\ Sound(settings) /\ SoundIn(eeprom) /\ \E f : Image(f)

(* What a step that writes nothing itself has to show.                     *)
Memory ==
  /\ settings \in SettingsOf(BOOLEAN) /\ Sound(settings) /\ alarm \in BOOLEAN
  /\ pc \in {"init", "startup", "ready"} /\ n \in 0..NLines - 1
Laid ==
  /\ writes \in Seq(Write) /\ DOMAIN expected = Records /\ dirty \subseteq Records
  /\ \E f : Image(f)

(* The invariant from its parts.                                           *)
LEMMA Assembled == ASSUME IInv, eeprom' = eeprom, Memory', Laid' PROVE IInv'
<1>1. eeprom \in [Addresses -> Byte] /\ SoundIn(eeprom)
  BY DEF IInv, StateOK
<1>2. StateOK'
  <2>1. pc' # "off"
    BY DEF Memory
  <2> QED BY <1>1, <2>1 DEF StateOK, Memory, Laid
<1> QED
  BY <1>1, <1>2 DEF IInv, Memory, Laid, SoundIn

(* With nothing to write, the EEPROM is its own image.                     *)
LEMMA Quiet ==
  ASSUME IInv, writes = <<>> PROVE Image(eeprom)
<1>1. PICK f : Image(f)
  BY DEF IInv
<1>2. Range(writes) = {}
  BY DEF Range
<1>3. f = eeprom
  <2>1. f \in [Addresses -> Byte] /\ eeprom \in [Addresses -> Byte] /\ \A a \in Addresses : f[a] = eeprom[a]
    BY <1>1, <1>2 DEF Image, Leads, IInv, StateOK
  <2> QED BY <2>1
<1> QED
  BY <1>1, <1>3

(* A step that sets out to write the bytes of img at the addresses of A,   *)
(* and new values of the records of R with them.                           *)
Mix(img, A) == [a \in Addresses |-> IF a \in A THEN img[a] ELSE eeprom[a]]

Issues(img, A, R) ==
  /\ writes = <<>> /\ eeprom' = eeprom /\ pc' # "off" /\ (R = Records \/ pc # "off" \/ Valid(Global))
  /\ img \in [Addresses -> Byte] /\ SoundIn(img)
  /\ A \subseteq Addresses /\ Lays(writes', img, A)
  /\ R \subseteq Records /\ \A r \in Records \ R : A \cap Own(r) = {} /\ expected'[r] = expected[r]
  /\ \A r \in R : ValueIn(Mix(img, A), r) = expected'[r]
  /\ dirty' = dirty \ R /\ DOMAIN expected' = Records
  /\ ValidIn(Mix(img, A), Global) /\ FromBytes(BytesIn(Mix(img, A), Global)) = settings'

(* The EEPROM mixed with what is to be written is the new image.           *)
LEMMA Issued ==
  ASSUME IInv, NEW img, NEW A, NEW R, Issues(img, A, R) PROVE Laid'
<1> USE DEF Issues
<1>1. PICK g : g = Mix(img, A)
  OBVIOUS
<1>2. /\ eeprom \in [Addresses -> Byte] /\ g \in [Addresses -> Byte]
      /\ \A a \in Addresses : g[a] = IF a \in A THEN img[a] ELSE eeprom[a]
      /\ {1, 3} \subseteq Addresses /\ SoundIn(eeprom)
  BY <1>1, Counts DEF IInv, StateOK, Mix, Addresses
<1>3. Leads(g)'
  BY <1>2 DEF Leads, Lays
<1>4. SoundIn(g)
  BY <1>2 DEF SoundIn
<1>5. Image(eeprom)
  BY Quiet
<1>6. \A r \in Records \ dirty' : ValueIn(g, r) = expected'[r]
  <2> TAKE r \in Records \ dirty'
  <2>1. CASE r \notin R
    <3>1. r \in Records \ dirty /\ expected'[r] = expected[r]
      BY <2>1
    <3>2. pc # "off" \/ ValidIn(eeprom, Global)
      BY <2>1, Reading, Counts
    <3>3. ValueIn(eeprom, r) = expected[r]
      BY <1>5, <3>1, <3>2 DEF Image, KeepsIn
    <3>4. \A a \in Own(r) : g[a] = eeprom[a]
      BY <1>2, <2>1, Layout
    <3>5. ValueIn(g, r) = ValueIn(eeprom, r)
      BY <3>4, Local
    <3> QED BY <3>1, <3>3, <3>5
  <2> QED BY <1>1, <2>1
<1>7. KeepsIn(g)' /\ PersistsIn(g)'
  BY <1>6, <1>1 DEF KeepsIn, PersistsIn
<1>8. Image(g)'
  BY <1>3, <1>4, <1>7 DEF Image, SoundIn
<1>9. writes' \in Seq(Write) /\ dirty' \subseteq Records /\ DOMAIN expected' = Records
  BY DEF Lays, IInv, StateOK
<1> QED
  BY <1>8, <1>9 DEF Laid

(* A record laid down whole, an empty text, and a record left alone.       *)
LEMMA Mixed ==
  ASSUME NEW r \in Records, NEW img, NEW A \in SUBSET Addresses, eeprom \in [Addresses -> Byte]
  PROVE  /\ \A b \in [1..Size(r) -> Byte] : Own(r) \subseteq A /\ Holds(img, r, b) =>
              /\ ValidIn(Mix(img, A), r) /\ BytesIn(Mix(img, A), r) = b
              /\ ValueIn(Mix(img, A), r) = IF IsLine(r) THEN Text(b) ELSE b
         /\ IsLine(r) /\ Addr(r) \in A /\ img[Addr(r)] = 0 => ValueIn(Mix(img, A), r) = Default(r)
         /\ A \cap Own(r) = {} =>
              /\ ValidIn(Mix(img, A), r) <=> ValidIn(eeprom, r)
              /\ BytesIn(Mix(img, A), r) = BytesIn(eeprom, r)
<1> DEFINE g == Mix(img, A)
<1>1. /\ \A a \in Addresses : g[a] = IF a \in A THEN img[a] ELSE eeprom[a]
      /\ Own(r) \subseteq Addresses /\ Addr(r) \in Addresses
  BY Layout, Bounds DEF Mix, Addresses
<1> HIDE DEF g
<1>2. ASSUME NEW b \in [1..Size(r) -> Byte], Own(r) \subseteq A, Holds(img, r, b)
      PROVE  ValidIn(g, r) /\ BytesIn(g, r) = b /\ ValueIn(g, r) = IF IsLine(r) THEN Text(b) ELSE b
  <2>1. \A a \in Own(r) : img[a] = g[a]
    BY <1>1, <1>2
  <2>2. /\ BytesIn(img, r) = b /\ ValidIn(img, r)
        /\ ValueIn(img, r) = IF IsLine(r) THEN Text(b) ELSE b
    BY <1>2, Held
  <2> QED BY <2>1, <2>2, Local
<1>3. ASSUME IsLine(r), Addr(r) \in A, img[Addr(r)] = 0 PROVE ValueIn(g, r) = Default(r)
  BY <1>1, <1>3, EmptyText
<1>4. ASSUME A \cap Own(r) = {}
      PROVE  (ValidIn(g, r) <=> ValidIn(eeprom, r)) /\ BytesIn(g, r) = BytesIn(eeprom, r)
  <2>1. \A a \in Own(r) : g[a] = eeprom[a]
    BY <1>1, <1>4
  <2> QED BY <2>1, Local
<1> QED
  BY <1>2, <1>3, <1>4 DEF g

(* An EEPROM that holds b and its checksum at an address.                  *)
Stamp(addr, m, b) ==
  [a \in Addresses |-> IF a = 0 THEN Version
                       ELSE IF a \in addr..addr + m - 1 THEN b[a - addr + 1]
                       ELSE IF a = addr + m THEN Checksum(b) ELSE Erased]

(* Its bytes, and that it has sound settings.                              *)
LEMMA Stamped ==
  ASSUME NEW addr \in Nat \ {0}, NEW m \in Nat \ {0}, NEW b \in [1..m -> Byte], addr + m < EepromSize
  PROVE  /\ Stamp(addr, m, b) \in [Addresses -> Byte] /\ Stamp(addr, m, b)[0] = Version
         /\ \A i \in 1..m : Stamp(addr, m, b)[addr + i - 1] = b[i]
         /\ Stamp(addr, m, b)[addr + m] = Checksum(b)
         /\ addr > 3 => SoundIn(Stamp(addr, m, b))
<1>1. /\ Checksum(b) \in Byte /\ Version \in Byte /\ Erased \in Byte /\ EepromSize \in Nat
      /\ SoundAt(1, Erased) /\ SoundAt(3, Erased)
  <2>1. Erased % 2 = 1
    BY ByteAssumption DEF Erased
  <2>2. Erased >= MinPulse
    BY ByteAssumption, DefaultsAssumption DEF Byte, Erased
  <2> QED
    BY <2>1, <2>2, ChecksumType, ByteAssumption, Counts DEF Byte, Erased, SoundAt
<1>2. \A a \in addr..addr + m : a \in Addresses /\ a # 0
  BY <1>1 DEF Addresses
<1>3. \A i \in 1..m : Stamp(addr, m, b)[addr + i - 1] = b[i]
  <2> TAKE i \in 1..m
  <2>1. addr + i - 1 \in addr..addr + m - 1 /\ (addr + i - 1) - addr + 1 = i /\ addr + i - 1 \in addr..addr + m
    OBVIOUS
  <2> QED BY <1>2, <2>1 DEF Stamp
<1>4. Stamp(addr, m, b)[addr + m] = Checksum(b) /\ Stamp(addr, m, b)[0] = Version
  <2>1. addr + m \in addr..addr + m /\ addr + m \notin addr..addr + m - 1 /\ 0 \in Addresses
    BY Counts DEF Addresses
  <2> QED BY <1>2, <2>1 DEF Stamp
<1>5. Stamp(addr, m, b) \in [Addresses -> Byte]
  <2>1. \A a \in addr..addr + m - 1 : a - addr + 1 \in 1..m
    OBVIOUS
  <2> QED BY <1>1, <2>1 DEF Stamp
<1>6. ASSUME addr > 3 PROVE SoundIn(Stamp(addr, m, b))
  <2>1. {1, 3} \subseteq Addresses
    BY Counts DEF Addresses
  <2>2. Stamp(addr, m, b)[1] = Erased /\ Stamp(addr, m, b)[3] = Erased
    BY <1>6, <2>1 DEF Stamp
  <2> QED BY <1>1, <2>2 DEF SoundIn
<1> QED
  BY <1>3, <1>4, <1>5, <1>6

(* The settings in force are those of the EEPROM, and stay so while their  *)
(* bytes are left alone.                                                   *)
LEMMA GlobalKept ==
  ASSUME IInv, writes = <<>>, pc # "off", NEW img, NEW A \in SUBSET Addresses,
         A \cap Own(Global) = {}, settings' = settings
  PROVE  /\ ValidIn(Mix(img, A), Global)
         /\ FromBytes(BytesIn(Mix(img, A), Global)) = settings'
<1>1. ValidIn(eeprom, Global) /\ FromBytes(BytesIn(eeprom, Global)) = settings
  BY Quiet DEF Image, PersistsIn
<1>2. /\ ValidIn(Mix(img, A), Global) <=> ValidIn(eeprom, Global)
      /\ BytesIn(Mix(img, A), Global) = BytesIn(eeprom, Global)
  BY Counts, Mixed DEF IInv, StateOK
<1> QED
  BY <1>1, <1>2

(* Nothing is written.                                                     *)
LEMMA NothingIssued ==
  ASSUME IInv, writes = <<>>, eeprom' = eeprom, pc' # "off", writes' = <<>>, Same,
         pc # "off" \/ Valid(Global),
         ValidIn(eeprom, Global), FromBytes(BytesIn(eeprom, Global)) = settings'
  PROVE  Laid'
<1>1. Image(eeprom)
  BY Quiet
<1>2. PICK f : f = eeprom
  OBVIOUS
<1>3. Leads(f)'
  BY <1>2 DEF Leads, Range, IInv, StateOK
<1>4. KeepsIn(f)' /\ PersistsIn(f)' /\ SoundIn(f)'
  BY <1>1, <1>2, Reading, Counts DEF Image, KeepsIn, PersistsIn, Same, SoundIn
<1>5. writes' \in Seq(Write) /\ DOMAIN expected' = Records /\ dirty' \subseteq Records
  BY DEF IInv, StateOK, Same
<1>6. Image(f)'
  BY <1>3, <1>4 DEF Image
<1> QED
  BY <1>5, <1>6 DEF Laid

(* One record other than the settings is given new bytes.                  *)
LEMMA RecordIssued ==
  ASSUME IInv, writes = <<>>, eeprom' = eeprom, pc # "off", pc' # "off",
         NEW r \in Records, r # Global, NEW b \in [1..Size(r) -> Byte],
         writes' = WriteAt(Addr(r), b, r), settings' = settings,
         Ask([q \in {r} |-> IF IsLine(r) THEN Text(b) ELSE b])
  PROVE  Laid'
<1> DEFINE img == Stamp(Addr(r), Size(r), b)
           A == Own(r)
<1>1. /\ Addr(r) \in Nat \ {0} /\ Size(r) \in Nat \ {0} /\ Addr(r) + Size(r) < EepromSize
      /\ A = Addr(r)..Addr(r) + Size(r) /\ A \in SUBSET Addresses
  BY Bounds, Layout DEF Own
<1>2. Addr(r) > 3
  <2>1. r \in 1..NCoord \/ r \in NCoord + 1..NCoord + NLines \/ r = BuildInfo
    BY Counts
  <2>2. Addr(r) >= AddrParameters \/ Addr(r) >= AddrStartup \/ Addr(r) = AddrBuildInfo
    BY <2>1, Bounds
  <2> QED BY <1>1, <2>2, Counts
<1>3. img \in [Addresses -> Byte] /\ SoundIn(img) /\ Holds(img, r, b)
  BY <1>1, <1>2, Stamped DEF Holds
<1> HIDE DEF img
<1>4. Lays(writes', img, A)
  BY <1>1, <1>3, LaysRecord
<1>5. \A q \in Records \ {r} : A \cap Own(q) = {}
  BY Layout
<1>6. ValueIn(Mix(img, A), r) = IF IsLine(r) THEN Text(b) ELSE b
  BY <1>1, <1>3, Mixed DEF IInv, StateOK
<1>7. /\ ValidIn(Mix(img, A), Global)
      /\ FromBytes(BytesIn(Mix(img, A), Global)) = settings'
  BY <1>1, <1>5, GlobalKept, Counts
<1>8. /\ \A q \in Records \ {r} : expected'[q] = expected[q]
      /\ expected'[r] = ValueIn(Mix(img, A), r) /\ dirty' = dirty \ {r}
      /\ DOMAIN expected' = Records
  BY <1>6 DEF Ask, IInv, StateOK
<1>9. Issues(img, A, {r})
  BY <1>1, <1>3, <1>4, <1>5, <1>6, <1>7, <1>8 DEF Issues
<1> QED
  BY <1>9, Issued

-----------------------------------------------------------------------------
(* The actions.                                                            *)

(* The erased EEPROM is its own image.                                     *)
LEMMA InitIInv == Init => IInv
<1> SUFFICES ASSUME Init PROVE IInv
  OBVIOUS
<1>1. /\ Erased \in Byte /\ Erased # Version /\ {0, 1, 3} \subseteq Addresses
      /\ SoundAt(1, Erased) /\ SoundAt(3, Erased)
  <2>1. Erased % 2 = 1
    BY ByteAssumption DEF Erased
  <2>2. Erased >= MinPulse
    BY ByteAssumption, DefaultsAssumption DEF Byte, Erased
  <2>3. Erased \in Byte /\ Erased # Version
    BY ByteAssumption DEF Byte, Erased
  <2> QED
    BY <2>1, <2>2, <2>3, Counts DEF SoundAt, Addresses
<1>2. StateOK
  <2>1. eeprom \in [Addresses -> Byte] /\ settings \in SettingsOf(BOOLEAN)
    BY <1>1, DefaultsAssumption DEF Init, Addresses
  <2>2. 0 \in 0..NLines - 1
    BY Counts
  <2>3. n \in 0..NLines - 1 /\ alarm \in BOOLEAN /\ pc = "off" /\ writes = <<>>
    BY <2>2 DEF Init
  <2>4. DOMAIN expected = Records /\ dirty \subseteq Records
    BY DEF Init
  <2> QED BY <2>1, <2>3, <2>4 DEF StateOK
<1>3. Sound(settings)
  BY DefaultsAssumption DEF Init, Sound
<1>4. SoundIn(eeprom) /\ ~ ValidIn(eeprom, Global)
  BY <1>1 DEF Init, SoundIn, ValidIn, Addresses
<1>5. Leads(eeprom)
  BY <1>2 DEF Init, Leads, Range, StateOK
<1>6. Image(eeprom)
  BY <1>4, <1>5 DEF Image, KeepsIn, PersistsIn, Init
<1> QED
  BY <1>2, <1>3, <1>4, <1>6 DEF IInv

(* A sequence has the values of its head and of its tail.                  *)
LEMMA HeadAndTail ==
  ASSUME NEW S, NEW s \in Seq(S), s # <<>>
  PROVE  /\ Head(s) \in Range(s) /\ Tail(s) \in Seq(S) /\ Range(s) = {Head(s)} \cup Range(Tail(s))
<1>1. /\ Len(s) \in Nat \ {0} /\ DOMAIN s = 1..Len(s) /\ Head(s) = s[1] /\ Tail(s) \in Seq(S)
      /\ DOMAIN Tail(s) = 1..Len(s) - 1 /\ \A i \in 1..Len(s) - 1 : Tail(s)[i] = s[i + 1]
  OBVIOUS
<1>2. Head(s) \in Range(s)
  BY <1>1 DEF Range
<1>3. ASSUME NEW x \in Range(s) PROVE x = Head(s) \/ x \in Range(Tail(s))
  <2>1. PICK i \in 1..Len(s) : x = s[i]
    BY <1>1, <1>3 DEF Range
  <2>2. CASE i # 1
    <3>1. i - 1 \in 1..Len(s) - 1 /\ (i - 1) + 1 = i
      BY <1>1, <2>2
    <3>2. Tail(s)[i - 1] = x
      BY <1>1, <2>1, <3>1
    <3> QED BY <1>1, <3>1, <3>2 DEF Range
  <2> QED BY <1>1, <2>1, <2>2
<1>4. ASSUME NEW x \in Range(Tail(s)) PROVE x \in Range(s)
  <2>1. PICK i \in 1..Len(s) - 1 : x = Tail(s)[i]
    BY <1>1, <1>4 DEF Range
  <2>2. i + 1 \in 1..Len(s) /\ x = s[i + 1]
    BY <1>1, <2>1
  <2> QED BY <1>1, <2>2 DEF Range
<1> QED
  BY <1>1, <1>2, <1>3, <1>4

(* A byte is written: the image stays.                                     *)
LEMMA WriteByteKeeps == ASSUME IInv, WriteByte PROVE IInv'
<1>1. PICK f : Image(f)
  BY DEF IInv
<1> DEFINE w0 == Head(writes)
<1>2. /\ writes \in Seq(Write) /\ w0 \in Range(writes) /\ w0 \in Write
      /\ writes' = Tail(writes) /\ Tail(writes) \in Seq(Write)
      /\ Range(writes) = {w0} \cup Range(writes')
  <2>1. writes \in Seq(Write) /\ writes # <<>> /\ writes' = Tail(writes)
    BY DEF IInv, StateOK, WriteByte
  <2> QED BY <2>1, HeadAndTail
<1> HIDE DEF w0
<1>3. /\ w0.addr \in Addresses /\ w0.byte \in Byte /\ f[w0.addr] = w0.byte /\ eeprom \in [Addresses -> Byte]
      /\ eeprom' = [eeprom EXCEPT ![w0.addr] = w0.byte]
  BY <1>1, <1>2 DEF Write, Image, Leads, WriteByte, IInv, StateOK, w0
<1>4. /\ UNCHANGED <<settings, alarm, pc, n, expected, dirty>> /\ writes # <<>>
  BY DEF WriteByte
<1>5. StateOK'
  BY <1>2, <1>3, <1>4 DEF IInv, StateOK
<1>6. \A a \in Addresses : eeprom'[a] = f[a] \/ (eeprom'[a] = eeprom[a] /\ a # w0.addr)
  BY <1>3
<1>7. Leads(f)'
  <2>1. \A a \in Addresses : f[a] = eeprom'[a] \/ \E w \in Range(writes') : w.addr = a
    BY <1>1, <1>2, <1>6 DEF Image, Leads
  <2> QED BY <1>1, <1>2, <2>1 DEF Image, Leads
<1>8. SoundIn(f)' /\ KeepsIn(f)' /\ PersistsIn(f)'
  BY <1>1, <1>4 DEF Image, SoundIn, KeepsIn, PersistsIn
<1>9. SoundIn(eeprom')
  <2>1. {1, 3} \subseteq Addresses
    BY Counts DEF Addresses
  <2> QED BY <1>1, <1>6, <2>1 DEF Image, SoundIn, IInv
<1> QED
  BY <1>4, <1>5, <1>7, <1>8, <1>9 DEF IInv, Image, SoundIn, Sound

(* Power is lost: the records with a byte still to write are dirty.        *)
LEMMA PowerLossKeeps == ASSUME IInv, PowerLoss PROVE IInv'
<1>1. PICK f : Image(f)
  BY DEF IInv
<1>2. PICK e : e = eeprom
  OBVIOUS
<1>3. StateOK' /\ Sound(settings)' /\ SoundIn(eeprom)'
  <2>1. /\ settings' = Defaults /\ eeprom' = eeprom /\ alarm' = FALSE /\ pc' = "off" /\ n' = 0
        /\ writes' = <<>> /\ expected' = expected /\ dirty' \subseteq dirty \cup Records
    BY DEF PowerLoss
  <2>2. 0 \in 0..NLines - 1
    BY Counts
  <2>3. StateOK'
    <3>1. eeprom \in [Addresses -> Byte] /\ DOMAIN expected = Records /\ dirty \subseteq Records
      BY DEF IInv, StateOK
    <3>2. Defaults \in SettingsOf(BOOLEAN)
      BY DefaultsAssumption
    <3>3. <<>> \in Seq(Write)
      OBVIOUS
    <3> QED BY <2>1, <2>2, <3>1, <3>2, <3>3 DEF StateOK
  <2>4. Sound(settings)'
    BY <2>1, DefaultsAssumption DEF Sound
  <2> QED BY <2>1, <2>3, <2>4 DEF IInv, SoundIn
<1>4. Leads(e)'
  BY <1>2 DEF Leads, PowerLoss, Range, IInv, StateOK
<1>5. ASSUME NEW r \in Records \ dirty', NEW a \in Own(r) PROVE f[a] = e[a]
  <2>1. a \in Addresses /\ r \in Records
    BY Layout
  <2>2. ASSUME NEW w \in Range(writes), w.addr = a PROVE FALSE
    <3>1. w.record = r
      BY <1>1, <2>1, <2>2 DEF Image, Leads
    <3>2. r \in {writes[i].record : i \in DOMAIN writes}
      BY <2>2, <3>1 DEF Range
    <3> QED BY <3>2 DEF PowerLoss
  <2> QED BY <1>1, <1>2, <2>1, <2>2 DEF Image, Leads
<1>6. KeepsIn(e)'
  <2>1. ASSUME NEW r \in Records \ dirty' PROVE ValueIn(e, r) = expected'[r]
    <3>1. ValueIn(f, r) = expected[r] /\ expected' = expected
      BY <1>1 DEF Image, KeepsIn, PowerLoss
    <3>2. ValueIn(f, r) = ValueIn(e, r)
      BY <1>5, Local
    <3> QED BY <3>1, <3>2
  <2> QED BY <2>1 DEF KeepsIn
<1>7. PersistsIn(e)' /\ SoundIn(e)'
  BY <1>2 DEF PersistsIn, PowerLoss, IInv, SoundIn
<1> QED
  BY <1>3, <1>4, <1>6, <1>7 DEF IInv, Image

(* Whatever the EEPROM holds, the settings a power-up reads are sound.     *)
LEMMA SoundRead ==
  ASSUME eeprom \in [Addresses -> Byte], SoundIn(eeprom)
  PROVE  /\ FromBytes(Value(Global)) \in SettingsOf(BOOLEAN) /\ Sound(FromBytes(Value(Global)))
         /\ Value(Global) = IF ValidIn(eeprom, Global) THEN BytesIn(eeprom, Global) ELSE ToBytes(Defaults)
<1>1. /\ Global \in Records /\ Addr(Global) = 1 /\ Size(Global) = 5 /\ ~ IsLine(Global)
      /\ 1..5 \subseteq Addresses /\ Default(Global) = ToBytes(Defaults)
  BY Counts, Bounds DEF IsLine, Global, Addresses, Default
<1>2. Value(Global) = IF ValidIn(eeprom, Global) THEN BytesIn(eeprom, Global) ELSE ToBytes(Defaults)
  BY <1>1, Reading DEF ValueIn
<1>3. CASE ValidIn(eeprom, Global)
  <2>1. /\ BytesIn(eeprom, Global) \in [1..5 -> Byte]
        /\ BytesIn(eeprom, Global)[1] = eeprom[1] /\ BytesIn(eeprom, Global)[3] = eeprom[3]
    BY <1>1 DEF BytesIn
  <2> QED BY <1>2, <1>3, <2>1, SoundBytes DEF SoundIn
<1>4. CASE ~ ValidIn(eeprom, Global)
  BY <1>2, <1>4, SettingsBytes, DefaultsAssumption DEF Sound
<1> QED
  BY <1>2, <1>3, <1>4

(* Every record is restored.                                               *)
LEMMA AllRestored ==
  ASSUME IInv, writes = <<>>, eeprom' = eeprom, pc' # "off", writes' = RestoreAll,
         settings' = Defaults, Ask([r \in Records |-> Default(r)])
  PROVE  Laid'
<1> DEFINE A == Own(Global) \cup Owned(1..NCoord) \cup Starts(NCoord + 1..NCoord + NLines) \cup Starts({BuildInfo})
<1>1. A \subseteq Addresses
  <2>1. \A r \in Records : Own(r) \subseteq Addresses /\ {Addr(r), Addr(r) + 1} \subseteq Own(r)
    <3> TAKE r \in Records
    <3>1. Addr(r) \in Nat /\ Size(r) \in Nat \ {0} /\ Addr(r)..Addr(r) + Size(r) \subseteq Own(r)
      BY Bounds, Layout
    <3>2. {Addr(r), Addr(r) + 1} \subseteq Addr(r)..Addr(r) + Size(r)
      BY <3>1
    <3> QED BY <3>1, <3>2, Layout
  <2>2. {Global, BuildInfo} \cup (1..NCoord) \cup (NCoord + 1..NCoord + NLines) \subseteq Records
    BY Counts
  <2> QED BY <2>1, <2>2 DEF Owned, Starts
<1>2. /\ \A r \in {Global} \cup (1..NCoord) : Own(r) \subseteq A
      /\ \A r \in (NCoord + 1..NCoord + NLines) \cup {BuildInfo} : Addr(r) \in A
  BY DEF Owned, Starts
<1>3. Lays(writes', Fresh, A)
  BY LaysAll
<1> HIDE DEF A
<1>4. \A r \in Records : ValueIn(Mix(Fresh, A), r) = Default(r)
  <2> TAKE r \in Records
  <2>1. Default(r) \in [1..Size(r) -> Byte] /\ Holds(Fresh, r, Default(r)) /\ eeprom \in [Addresses -> Byte]
    BY DefaultBytes DEF IInv, StateOK
  <2>2. CASE r \in {Global} \cup (1..NCoord)
    <3>1. ~ IsLine(r)
      BY <2>2, Counts DEF IsLine
    <3> QED BY <1>1, <1>2, <2>1, <2>2, <3>1, Mixed
  <2>3. CASE r \in (NCoord + 1..NCoord + NLines) \cup {BuildInfo}
    <3>1. IsLine(r) /\ r # Global /\ Size(r) \in Nat \ {0} /\ Addr(r) \in Nat
      BY <2>3, Counts, Bounds DEF IsLine
    <3>2. Fresh[Addr(r)] = 0
      <4>1. Default(r)[1] = 0 /\ Addr(r) + 1 - 1 = Addr(r) /\ 1 \in 1..Size(r)
        BY <3>1 DEF Default
      <4>2. Fresh[Addr(r) + 1 - 1] = Default(r)[1]
        BY <2>1, <4>1 DEF Holds
      <4> QED BY <4>1, <4>2
    <3> QED BY <1>1, <1>2, <2>1, <2>3, <3>1, <3>2, Mixed
  <2> QED BY <2>2, <2>3, Counts
<1>5. ValidIn(Mix(Fresh, A), Global) /\ FromBytes(BytesIn(Mix(Fresh, A), Global)) = settings'
  <2>1. /\ Default(Global) \in [1..Size(Global) -> Byte] /\ Holds(Fresh, Global, Default(Global))
        /\ Global \in Records /\ eeprom \in [Addresses -> Byte] /\ Default(Global) = ToBytes(Defaults)
    BY DefaultBytes, Counts DEF IInv, StateOK, Default
  <2>2. ValidIn(Mix(Fresh, A), Global) /\ BytesIn(Mix(Fresh, A), Global) = Default(Global)
    BY <1>1, <1>2, <2>1, Mixed
  <2> QED BY <2>1, <2>2, SettingsBytes, DefaultsAssumption
<1>6. /\ \A r \in Records : expected'[r] = Default(r)
      /\ dirty' = dirty \ Records /\ DOMAIN expected' = Records
  BY DEF Ask
<1>7. Fresh \in [Addresses -> Byte] /\ SoundIn(Fresh)
  BY FreshType DEF SoundIn
<1>8. Issues(Fresh, A, Records)
  BY <1>1, <1>3, <1>4, <1>5, <1>6, <1>7 DEF Issues
<1> QED
  BY <1>8, Issued

(* settings_init(): the settings are read, or all is restored.             *)
LEMMA SettingsInitKeeps == ASSUME IInv, SettingsInit PROVE IInv'
<1>1. /\ pc = "off" /\ writes = <<>> /\ eeprom \in [Addresses -> Byte] /\ SoundIn(eeprom)
      /\ n \in 0..NLines - 1 /\ Global \in Records
  BY Counts DEF IInv, StateOK, SettingsInit
<1>2. /\ settings' = FromBytes(Value(Global)) /\ alarm' = settings'.homing /\ pc' = "init"
      /\ eeprom' = eeprom /\ n' = n
  BY DEF SettingsInit
<1>3. /\ settings' \in SettingsOf(BOOLEAN) /\ Sound(settings')
      /\ Value(Global) = IF ValidIn(eeprom, Global) THEN BytesIn(eeprom, Global) ELSE ToBytes(Defaults)
      /\ Valid(Global) <=> ValidIn(eeprom, Global)
  BY <1>1, <1>2, SoundRead, Reading
<1>4. settings'.homing \in BOOLEAN
  BY <1>3 DEF SettingsOf
<1>5. Memory'
  BY <1>1, <1>2, <1>3, <1>4 DEF Memory, Sound
<1>6. CASE Valid(Global)
  <2>1. writes' = <<>> /\ Same
    BY <1>6 DEF SettingsInit
  <2>2. Laid'
    BY <1>1, <1>2, <1>3, <1>6, <2>1, NothingIssued
  <2> QED BY <1>2, <1>5, <2>2, Assembled
<1>7. CASE ~ Valid(Global)
  <2>1. writes' = RestoreAll /\ Ask([r \in Records |-> Default(r)])
    BY <1>7 DEF SettingsInit
  <2>2. settings' = Defaults
    BY <1>2, <1>3, <1>7, SettingsBytes, DefaultsAssumption
  <2>3. Laid'
    BY <1>1, <1>2, <2>1, <2>2, AllRestored
  <2> QED BY <1>2, <1>5, <2>3, Assembled
<1> QED
  BY <1>6, <1>7

(* Nothing is written, or one record other than the settings.              *)
LEMMA StillLaid ==
  ASSUME IInv, writes = <<>>, eeprom' = eeprom, settings' = settings, pc # "off", pc' # "off",
         writes' = <<>>, Same
  PROVE  Laid'
<1>1. ValidIn(eeprom, Global) /\ FromBytes(BytesIn(eeprom, Global)) = settings
  BY Quiet DEF Image, PersistsIn
<1> QED
  BY <1>1, NothingIssued

(* A record found invalid is given its default value.                      *)
LEMMA Repaired ==
  ASSUME IInv, writes = <<>>, eeprom' = eeprom, settings' = settings, pc # "off", pc' # "off",
         NEW r \in Records, r # Global, Repair(r)
  PROVE  Laid'
<1>1. CASE Valid(r)
  BY <1>1, StillLaid DEF Repair
<1>2. CASE ~ Valid(r)
  <2>1. writes' = WriteAt(Addr(r), Default(r), r) /\ Ask([q \in {r} |-> Default(q)])
    BY <1>2 DEF Repair
  <2>2. Default(r) \in [1..Size(r) -> Byte] /\ Default(r) = [i \in 1..Size(r) |-> 0]
    BY DefaultBytes DEF Default
  <2>3. Text(Default(r)) = Default(r)
    BY <2>2 DEF Text
  <2>4. [q \in {r} |-> Default(q)] = [q \in {r} |-> IF IsLine(r) THEN Text(Default(r)) ELSE Default(r)]
    BY <2>3
  <2>5. Ask([q \in {r} |-> IF IsLine(r) THEN Text(Default(r)) ELSE Default(r)])
    BY <2>1, <2>4
  <2> HIDE DEF Repair
  <2> QED BY <2>1, <2>2, <2>5, RecordIssued
<1> QED
  BY <1>1, <1>2

(* gc_init(), and the lines that are read back.                            *)
LEMMA StartKeeps == ASSUME IInv, Start PROVE IInv'
<1>1. /\ writes = <<>> /\ eeprom' = eeprom /\ settings' = settings /\ alarm' = alarm
      /\ pc = "init" /\ pc' \in {"startup", "ready"} /\ n' = 0 /\ Repair(Coord(0))
  BY DEF Start
<1>2. Coord(0) \in Records /\ Coord(0) # Global /\ 0 \in 0..NLines - 1
  BY Counts DEF Coord, Global
<1>3. Memory'
  BY <1>1, <1>2 DEF IInv, StateOK, Memory, Sound
<1>4. Laid'
  BY <1>1, <1>2, Repaired
<1> QED
  BY <1>1, <1>3, <1>4, Assembled

(* system_execute_startup().                                               *)
LEMMA ReadStartupLineKeeps == ASSUME IInv, ReadStartupLine PROVE IInv'
<1>1. /\ writes = <<>> /\ eeprom' = eeprom /\ settings' = settings /\ alarm' = alarm
      /\ pc = "startup" /\ pc' \in {"startup", "ready"} /\ n' = (n + 1) % NLines /\ Repair(Line(n))
  BY DEF ReadStartupLine
<1>2. n \in 0..NLines - 1
  BY DEF IInv, StateOK
<1>3. Line(n) \in Records /\ Line(n) # Global
  BY <1>2, Counts DEF Line, Global
<1>4. n' \in 0..NLines - 1
  BY <1>1, <1>2, Counts
<1>5. Memory'
  BY <1>1, <1>4 DEF IInv, StateOK, Memory, Sound
<1>6. Laid'
  BY <1>1, <1>3, Repaired
<1> QED
  BY <1>1, <1>5, <1>6, Assembled

(* A record is read for a report or a motion.                              *)
LEMMA ReadRecordKeeps == ASSUME IInv, ReadRecord PROVE IInv'
<1>1. /\ writes = <<>> /\ eeprom' = eeprom /\ settings' = settings /\ alarm' = alarm
      /\ pc = "ready" /\ pc' = pc /\ n' = n
  BY DEF ReadRecord, Ready
<1>2. PICK r \in Records \ {Global} : Repair(r)
  BY DEF ReadRecord
<1>3. Memory'
  BY <1>1 DEF IInv, StateOK, Memory, Sound
<1>4. Laid'
  BY <1>1, <1>2, Repaired
<1> QED
  BY <1>1, <1>3, <1>4, Assembled

(* The commands that leave the EEPROM as it is.                            *)
LEMMA QuietKeeps == ASSUME IInv, Reset \/ Unlock \/ Home PROVE IInv'
<1>1. /\ writes = <<>> /\ writes' = <<>> /\ eeprom' = eeprom /\ settings' = settings
      /\ alarm' \in {alarm, FALSE} /\ pc = "ready" /\ pc' \in {"init", "startup", "ready"} /\ n' = n /\ Same
  BY DEF Reset, Unlock, Home, Ready
<1>2. Memory'
  BY <1>1 DEF IInv, StateOK, Memory, Sound
<1>3. Laid'
  BY <1>1, StillLaid
<1> QED
  BY <1>1, <1>2, <1>3, Assembled

(* settings_store_global_setting(): what is stored is sound.               *)
LEMMA StoredSound ==
  ASSUME NEW s \in SettingsOf(BOOLEAN), Sound(s), NEW p \in Settable, Accepts(s, p[1], p[2])
  PROVE  Stored(s, p[1], p[2]) \in SettingsOf(BOOLEAN) /\ Sound(Stored(s, p[1], p[2]))
<1>1. /\ s.pulse \in Byte /\ s.mask \in Byte /\ s.homing \in BOOLEAN /\ s.soft \in BOOLEAN
      /\ s.pulloff \in 0..Base * Base - 1
      /\ s = [pulse |-> s.pulse, mask |-> s.mask, homing |-> s.homing, soft |-> s.soft, pulloff |-> s.pulloff]
  BY DEF SettingsOf
<1>2. CASE p \in {0} \X Pulses
  <2>1. p[1] = 0 /\ p[2] \in Byte /\ p[2] >= MinPulse
    BY <1>2, InputAssumption DEF Accepts
  <2>2. Stored(s, p[1], p[2]) = [s EXCEPT !.pulse = p[2]]
    BY <2>1 DEF Stored
  <2> QED BY <1>1, <2>1, <2>2 DEF SettingsOf, Sound
<1>3. CASE p \in {2} \X Masks
  <2>1. p[1] = 2 /\ p[2] \in Byte
    BY <1>3, InputAssumption
  <2>2. Stored(s, p[1], p[2]) = [s EXCEPT !.mask = p[2]]
    BY <2>1 DEF Stored
  <2> QED BY <1>1, <2>1, <2>2 DEF SettingsOf, Sound
<1>4. CASE p[1] = 20 /\ p[2] \in {0, 1}
  <2>1. Stored(s, p[1], p[2]) = [s EXCEPT !.soft = p[2] # 0]
    BY <1>4 DEF Stored
  <2> QED BY <1>1, <1>4, <2>1 DEF SettingsOf, Sound, Accepts
<1>5. CASE p[1] = 22 /\ p[2] \in {0, 1}
  <2> DEFINE t == [s EXCEPT !.homing = p[2] # 0, !.soft = s.soft /\ p[2] # 0]
  <2>1. Stored(s, p[1], p[2]) = t
    BY <1>5 DEF Stored
  <2>2. t.pulse = s.pulse /\ t.soft = (s.soft /\ p[2] # 0) /\ t.homing = (p[2] # 0)
    BY <1>1
  <2>3. t \in SettingsOf(BOOLEAN)
    <3>1. (p[2] # 0) \in BOOLEAN /\ (s.soft /\ p[2] # 0) \in BOOLEAN
      OBVIOUS
    <3> QED BY <1>1, <3>1 DEF SettingsOf
  <2> HIDE DEF t
  <2> QED BY <2>1, <2>2, <2>3 DEF Sound
<1>6. CASE p \in {27} \X Pulloffs
  <2>1. p[1] = 27 /\ p[2] \in 0..Base * Base - 1
    BY <1>6, InputAssumption
  <2>2. Stored(s, p[1], p[2]) = [s EXCEPT !.pulloff = p[2]]
    BY <2>1 DEF Stored
  <2> QED BY <1>1, <2>1, <2>2 DEF SettingsOf, Sound
<1> QED
  BY <1>2, <1>3, <1>4, <1>5, <1>6 DEF Settable

(* write_global_settings(): the settings in memory are stored.             *)
LEMMA GlobalIssued ==
  ASSUME IInv, writes = <<>>, eeprom' = eeprom, pc # "off", pc' # "off",
         NEW s \in SettingsOf(BOOLEAN), Sound(s), settings' = s, writes' = WriteGlobal(s),
         Ask([r \in {Global} |-> ToBytes(s)])
  PROVE  Laid'
<1> DEFINE b == ToBytes(s)
           img == Stamp(1, 5, b)
           A == Own(Global)
<1>1. /\ Global \in Records /\ Addr(Global) = 1 /\ Size(Global) = 5 /\ ~ IsLine(Global)
      /\ A \in SUBSET Addresses /\ 1 + 5 < EepromSize
  BY Counts, Bounds, Layout DEF IsLine, Global
<1>2. b \in [1..5 -> Byte] /\ FromBytes(b) = s
  BY SettingsBytes
<1>3. SoundAt(1, b[1]) /\ SoundAt(3, b[3])
  <2>1. /\ b[1] = s.pulse /\ ((b[3] \div 2) % 2 = 1 <=> s.soft) /\ (b[3] % 2 = 1 <=> s.homing)
    BY SettingsBytes
  <2> HIDE DEF b
  <2> QED BY <2>1 DEF Sound, SoundAt
<1> HIDE DEF b
<1>4. /\ img \in [Addresses -> Byte] /\ img[0] = Version /\ img[6] = Checksum(b)
      /\ \A i \in 1..5 : img[1 + i - 1] = b[i]
  <2>1. /\ Addr(Global) \in Nat \ {0} /\ Size(Global) \in Nat \ {0} /\ b \in [1..Size(Global) -> Byte]
        /\ Addr(Global) + Size(Global) < EepromSize
    BY <1>1, <1>2, Bounds
  <2>2. /\ Stamp(Addr(Global), Size(Global), b) \in [Addresses -> Byte]
        /\ Stamp(Addr(Global), Size(Global), b)[0] = Version
        /\ \A i \in 1..Size(Global) : Stamp(Addr(Global), Size(Global), b)[Addr(Global) + i - 1] = b[i]
        /\ Stamp(Addr(Global), Size(Global), b)[Addr(Global) + Size(Global)] = Checksum(b)
    BY <2>1, Stamped
  <2> QED BY <1>1, <2>2
<1> HIDE DEF img
<1>5. Holds(img, Global, b)
  BY <1>1, <1>4 DEF Holds
<1>6. SoundIn(img)
  <2>1. img[1 + 1 - 1] = b[1] /\ img[1 + 3 - 1] = b[3]
    BY <1>4
  <2>2. img[1] = b[1] /\ img[3] = b[3]
    BY <2>1
  <2> QED BY <1>3, <2>2 DEF SoundIn
<1>7. Lays(writes', img, A)
  BY <1>5, LaysGlobal DEF b
<1>8. \A q \in Records \ {Global} : A \cap Own(q) = {}
  BY <1>1, Layout
<1>9. /\ ValidIn(Mix(img, A), Global) /\ BytesIn(Mix(img, A), Global) = b
      /\ ValueIn(Mix(img, A), Global) = b
  BY <1>1, <1>2, <1>5, Mixed DEF IInv, StateOK
<1>10. /\ \A q \in Records \ {Global} : expected'[q] = expected[q]
       /\ expected'[Global] = b /\ dirty' = dirty \ {Global} /\ DOMAIN expected' = Records
  BY <1>1 DEF Ask, b
<1>11. Issues(img, A, {Global})
  BY <1>1, <1>2, <1>4, <1>6, <1>7, <1>8, <1>9, <1>10 DEF Issues
<1> QED
  BY <1>11, Issued

(* $x=value.                                                               *)
LEMMA StoreSettingKeeps == ASSUME IInv, StoreSetting PROVE IInv'
<1>1. /\ writes = <<>> /\ eeprom' = eeprom /\ alarm' = alarm /\ pc = "ready" /\ pc' = pc /\ n' = n
  BY DEF StoreSetting, Command, Ready
<1>2. PICK p \in Settable :
        /\ Accepts(settings, p[1], p[2]) /\ settings' = Stored(settings, p[1], p[2])
        /\ writes' = WriteGlobal(settings') /\ Ask([r \in {Global} |-> ToBytes(settings')])
  BY DEF StoreSetting
<1>3. settings' \in SettingsOf(BOOLEAN) /\ Sound(settings')
  BY <1>2, StoredSound DEF IInv, StateOK
<1>4. Memory'
  BY <1>1, <1>3 DEF IInv, StateOK, Memory, Sound
<1>5. Laid'
  BY <1>1, <1>2, <1>3, GlobalIssued
<1> QED
  BY <1>1, <1>4, <1>5, Assembled

(* settings_write_coord_data().                                            *)
LEMMA WriteCoordDataKeeps == ASSUME IInv, WriteCoordData PROVE IInv'
<1>1. /\ writes = <<>> /\ eeprom' = eeprom /\ settings' = settings /\ alarm' = alarm
      /\ pc = "ready" /\ pc' = pc /\ n' = n
  BY DEF WriteCoordData, Command, Ready
<1>2. PICK i \in 0..NCoord - 1, b \in Coords :
        writes' = WriteAt(CoordAddr(i), b, Coord(i)) /\ Ask([r \in {Coord(i)} |-> b])
  BY DEF WriteCoordData
<1>3. /\ Coord(i) \in Records /\ Coord(i) # Global /\ ~ IsLine(Coord(i)) /\ Size(Coord(i)) = CoordSize
      /\ Addr(Coord(i)) = CoordAddr(i)
  BY Counts DEF Coord, Global, IsLine, Size, Addr
<1>4. b \in [1..Size(Coord(i)) -> Byte]
  BY <1>3, InputAssumption
<1>5. [r \in {Coord(i)} |-> b] = [r \in {Coord(i)} |-> IF IsLine(Coord(i)) THEN Text(b) ELSE b]
  BY <1>3
<1>6. Memory'
  BY <1>1 DEF IInv, StateOK, Memory, Sound
<1>7. Laid'
  <2>1. writes' = WriteAt(Addr(Coord(i)), b, Coord(i))
    BY <1>2, <1>3
  <2>2. Ask([r \in {Coord(i)} |-> IF IsLine(Coord(i)) THEN Text(b) ELSE b])
    BY <1>2, <1>5
  <2> QED BY <1>1, <1>3, <1>4, <2>1, <2>2, RecordIssued
<1> QED
  BY <1>1, <1>6, <1>7, Assembled

(* settings_store_startup_line(): a number that is none of the lines'.     *)
LEMMA BeyondIssued ==
  ASSUME IInv, LinesFit, writes = <<>>, eeprom' = eeprom, pc # "off", pc' # "off", settings' = settings,
         NEW k \in LineNumbers, k >= NLines, NEW b \in [1..LineSize -> Byte],
         writes' = WriteAt(LineAddr(k), b, NoRecord), Same
  PROVE  Laid'
<1> DEFINE addr == LineAddr(k)
           img == Stamp(addr, LineSize, b)
           A == addr..addr + LineSize
<1>1. k \in Nat
  BY InputAssumption
<1>2. /\ addr \in Nat /\ addr >= AddrStartup + NLines * (LineSize + 1) /\ NLines * (LineSize + 1) \in Nat
      /\ addr + LineSize < AddrBuildInfo
  <2> DEFINE l == NLines * (LineSize + 1)
             o == k * (LineSize + 1)
  <2>1. NLines \in Nat /\ k \in Nat /\ LineSize + 1 \in Nat /\ (NLines < k \/ NLines = k)
    BY <1>1, Counts
  <2>2. l \in Nat /\ o \in Nat
    BY <2>1
  <2>3. l <= o
    <3>1. CASE NLines < k
      <4>1. l + (LineSize + 1) <= o
        BY <2>1, <3>1, Blocks
      <4> HIDE DEF l, o
      <4> QED BY <2>1, <2>2, <4>1
    <3>2. CASE NLines = k
      <4>1. l = o
        BY <3>2
      <4> HIDE DEF l, o
      <4> QED BY <2>2, <4>1
    <3> QED BY <2>1, <3>1, <3>2
  <2>4. addr = AddrStartup + o /\ addr + LineSize < AddrBuildInfo
    BY DEF LineAddr, LinesFit
  <2> HIDE DEF l, o, addr
  <2>5. addr \in Nat /\ addr >= AddrStartup + l /\ l \in Nat
    BY <2>2, <2>3, <2>4, Counts
  <2> QED BY <2>4, <2>5 DEF l
<1>3. /\ addr \in Nat \ {0} /\ addr > 3 /\ addr + LineSize < EepromSize /\ addr >= AddrStartup
      /\ LineSize \in Nat \ {0} /\ A \in SUBSET Addresses
  BY <1>2, Counts DEF Addresses
<1>4. \A q \in Records : A \cap Own(q) = {}
  <2> TAKE q \in Records
  <2> DEFINE l == NLines * (LineSize + 1)
  <2>1. CASE q = Global
    BY <1>3, <2>1, Counts DEF Own
  <2>2. q # Global => Own(q) = Addr(q)..Addr(q) + Size(q)
    BY DEF Own
  <2>3. CASE q \in 1..NCoord
    <3>1. Addr(q) + Size(q) < AddrStartup /\ Addr(q) \in Nat /\ Size(q) \in Nat
      BY <2>3, Bounds
    <3>2. q # Global
      BY <2>3, Counts
    <3> HIDE DEF addr
    <3>3. Addr(q) + Size(q) < addr
      BY <1>3, <3>1, Counts
    <3> QED BY <1>3, <2>2, <3>1, <3>2, <3>3
  <2>4. CASE q \in NCoord + 1..NCoord + NLines
    <3> DEFINE o == (q - NCoord - 1) * (LineSize + 1)
    <3>1. o \in Nat /\ o + (LineSize + 1) <= l
      <4>1. q - NCoord - 1 \in Nat /\ NLines \in Nat /\ LineSize + 1 \in Nat /\ q - NCoord - 1 < NLines
        BY <2>4, Counts
      <4> QED BY <4>1, Blocks
    <3>2. q # Global /\ Addr(q) = AddrStartup + o /\ Size(q) = LineSize
      BY <2>4, Kinds, Counts
    <3>3. addr >= AddrStartup + l /\ l \in Nat
      BY <1>2
    <3> HIDE DEF o, l, addr
    <3>4. Addr(q) + Size(q) < addr
      BY <1>3, <3>1, <3>2, <3>3, Counts
    <3> QED BY <1>3, <2>2, <3>1, <3>2, <3>4, Counts
  <2>5. CASE q = BuildInfo
    <3>1. q # Global /\ Addr(q) = AddrBuildInfo /\ Size(q) \in Nat
      BY <2>5, Bounds, Counts
    <3> QED BY <1>2, <2>2, <3>1, Counts
  <2> QED BY <2>1, <2>3, <2>4, <2>5, Counts
<1>5. /\ img \in [Addresses -> Byte] /\ SoundIn(img)
      /\ \A i \in 1..LineSize : img[addr + i - 1] = b[i]
      /\ img[addr + LineSize] = Checksum(b)
  <2> HIDE DEF addr
  <2> QED BY <1>3, Stamped
<1> HIDE DEF img, addr
<1>6. Lays(writes', img, A)
  <2>1. \A a \in addr..addr + LineSize, q \in Records : a \in Own(q) => q = NoRecord
    BY <1>4
  <2>2. NoRecord \in 0..NoRecord /\ writes' = WriteAt(addr, b, NoRecord)
    BY Counts DEF addr
  <2>3. addr \in Nat /\ LineSize \in Nat
    BY <1>3
  <2>4. Lays(WriteAt(addr, b, NoRecord), img, addr..addr + LineSize)
    BY <1>3, <1>5, <2>1, <2>2, <2>3, LaysBytes
  <2> QED BY <2>2, <2>4
<1>7. /\ ValidIn(Mix(img, A), Global)
      /\ FromBytes(BytesIn(Mix(img, A), Global)) = settings'
  BY <1>3, <1>4, GlobalKept, Counts
<1>8. Issues(img, A, {})
  BY <1>3, <1>4, <1>5, <1>6, <1>7 DEF Issues, Same, IInv, StateOK
<1> QED
  BY <1>8, Issued

(* $Nx=line, with a number that is checked by nothing but LinesFit.        *)
LEMMA StoreStartupLineKeeps == ASSUME IInv, LinesFit, StoreStartupLine PROVE IInv'
<1>1. /\ writes = <<>> /\ eeprom' = eeprom /\ settings' = settings /\ alarm' = alarm
      /\ pc = "ready" /\ pc' = pc /\ n' = n
  BY DEF StoreStartupLine, Command, Ready
<1>2. PICK k \in LineNumbers, b \in Texts :
        IF k < NLines
        THEN writes' = WriteAt(LineAddr(k), b, Line(k)) /\ Ask([r \in {Line(k)} |-> Text(b)])
        ELSE writes' = WriteAt(LineAddr(k), b, NoRecord) /\ Same
  BY DEF StoreStartupLine
<1>3. k \in Nat /\ b \in [1..LineSize -> Byte]
  BY InputAssumption
<1>4. Memory'
  BY <1>1 DEF IInv, StateOK, Memory, Sound
<1>5. CASE k < NLines
  <2>1. /\ Line(k) \in Records /\ Line(k) # Global /\ IsLine(Line(k)) /\ Size(Line(k)) = LineSize
        /\ Addr(Line(k)) = LineAddr(k)
    <3>1. PICK r : r = Line(k)
      OBVIOUS
    <3>2. r = 1 + NCoord + k
      BY <3>1 DEF Line
    <3>3. /\ r \in Records /\ r # Global /\ IsLine(r) /\ r \notin 1..NCoord
          /\ r \in NCoord + 1..NCoord + NLines /\ r - NCoord - 1 = k
      BY <1>3, <1>5, <3>2, Counts DEF IsLine
    <3>4. Size(r) = LineSize
      BY <3>3 DEF Size
    <3>5. Addr(r) = LineAddr(k)
      BY <3>3 DEF Addr
    <3> QED
      BY <3>1, <3>3, <3>4, <3>5
  <2>2. [r \in {Line(k)} |-> Text(b)] = [r \in {Line(k)} |-> IF IsLine(Line(k)) THEN Text(b) ELSE b]
    BY <2>1
  <2>3. writes' = WriteAt(Addr(Line(k)), b, Line(k)) /\ b \in [1..Size(Line(k)) -> Byte]
    BY <1>2, <1>3, <1>5, <2>1
  <2>4. Ask([r \in {Line(k)} |-> IF IsLine(Line(k)) THEN Text(b) ELSE b])
    BY <1>2, <1>5, <2>2
  <2>5. Laid'
    BY <1>1, <2>1, <2>3, <2>4, RecordIssued
  <2> QED BY <1>1, <1>4, <2>5, Assembled
<1>6. CASE ~ (k < NLines)
  <2>1. writes' = WriteAt(LineAddr(k), b, NoRecord) /\ Same /\ k >= NLines
    BY <1>2, <1>3, <1>6, Counts
  <2>2. Laid'
    BY <1>1, <1>3, <2>1, BeyondIssued
  <2> QED BY <1>1, <1>4, <2>2, Assembled
<1> QED
  BY <1>5, <1>6

(* $RST=$, $RST=# and $RST=*.                                              *)
LEMMA ParametersRestored ==
  ASSUME IInv, writes = <<>>, eeprom' = eeprom, pc # "off", pc' # "off", settings' = settings,
         writes' = RestoreParameters, Ask([r \in 1..NCoord |-> Default(r)])
  PROVE  Laid'
<1> DEFINE A == Owned(1..NCoord)
<1>1. 1..NCoord \subseteq Records /\ A \in SUBSET Addresses /\ \A r \in 1..NCoord : Own(r) \subseteq A
  <2>1. 1..NCoord \subseteq Records
    BY Counts
  <2> QED BY <2>1, Layout DEF Owned
<1>2. \A q \in Records \ (1..NCoord) : A \cap Own(q) = {}
  BY <1>1, Layout DEF Owned
<1>3. Global \in Records \ (1..NCoord)
  BY Counts
<1>4. Lays(writes', Fresh, A)
  BY LaysParameters
<1> HIDE DEF A
<1>5. \A r \in 1..NCoord : ValueIn(Mix(Fresh, A), r) = Default(r)
  <2> TAKE r \in 1..NCoord
  <2>1. /\ r \in Records /\ ~ IsLine(r) /\ eeprom \in [Addresses -> Byte]
        /\ Default(r) \in [1..Size(r) -> Byte] /\ Holds(Fresh, r, Default(r))
    BY <1>1, Counts, DefaultBytes DEF IInv, StateOK, IsLine
  <2> QED BY <1>1, <2>1, Mixed
<1>6. /\ ValidIn(Mix(Fresh, A), Global)
      /\ FromBytes(BytesIn(Mix(Fresh, A), Global)) = settings'
  BY <1>1, <1>2, <1>3, GlobalKept
<1>7. /\ \A q \in Records \ (1..NCoord) : expected'[q] = expected[q]
      /\ \A r \in 1..NCoord : expected'[r] = Default(r)
      /\ dirty' = dirty \ (1..NCoord) /\ DOMAIN expected' = Records
  BY <1>1 DEF Ask
<1>8. Fresh \in [Addresses -> Byte] /\ SoundIn(Fresh)
  BY FreshType DEF SoundIn
<1>9. Issues(Fresh, A, 1..NCoord)
  BY <1>1, <1>2, <1>4, <1>5, <1>6, <1>7, <1>8 DEF Issues
<1> QED
  BY <1>9, Issued

(* $RST, all three.                                                        *)
LEMMA RestoreKeeps == ASSUME IInv, Restore PROVE IInv'
<1>1. /\ writes = <<>> /\ eeprom' = eeprom /\ alarm' = alarm /\ pc = "ready" /\ pc' = "init" /\ n' = n
  BY DEF Restore, Command, Ready
<1>2. PICK what \in {"$", "#", "*"} :
        /\ settings' = IF what = "#" THEN settings ELSE Defaults
        /\ writes' = CASE what = "$" -> RestoreDefaults
                       [] what = "#" -> RestoreParameters
                       [] what = "*" -> RestoreAll
        /\ Ask([r \in CASE what = "$" -> {Global} [] what = "#" -> 1..NCoord
                        [] what = "*" -> Records |-> Default(r)])
  BY DEF Restore
<1>3. Memory'
  BY <1>1, <1>2, DefaultsAssumption DEF IInv, StateOK, Memory, Sound
<1>4. CASE what = "$"
  <2>1. settings' = Defaults /\ writes' = WriteGlobal(Defaults) /\ Ask([r \in {Global} |-> Default(r)])
    BY <1>2, <1>4 DEF RestoreDefaults
  <2>2. [r \in {Global} |-> Default(r)] = [r \in {Global} |-> ToBytes(Defaults)]
    BY DEF Default
  <2>3. Ask([r \in {Global} |-> ToBytes(Defaults)]) /\ Defaults \in SettingsOf(BOOLEAN) /\ Sound(Defaults)
    BY <2>1, <2>2, DefaultsAssumption DEF Sound
  <2>4. Laid'
    BY <1>1, <2>1, <2>3, GlobalIssued
  <2> QED BY <1>1, <1>3, <2>4, Assembled
<1>5. CASE what = "#"
  <2>1. settings' = settings /\ writes' = RestoreParameters /\ Ask([r \in 1..NCoord |-> Default(r)])
    BY <1>2, <1>5
  <2>2. Laid'
    BY <1>1, <2>1, ParametersRestored
  <2> QED BY <1>1, <1>3, <2>2, Assembled
<1>6. CASE what = "*"
  <2>1. settings' = Defaults /\ writes' = RestoreAll /\ Ask([r \in Records |-> Default(r)])
    BY <1>2, <1>6
  <2>2. Laid'
    BY <1>1, <2>1, AllRestored
  <2> QED BY <1>1, <1>3, <2>2, Assembled
<1> QED
  BY <1>4, <1>5, <1>6

-----------------------------------------------------------------------------
(* The invariant is inductive, and implies the properties.                 *)

(* Nothing happens.                                                        *)
LEMMA Stutter == ASSUME IInv, UNCHANGED vars PROVE IInv'
BY DEF IInv, StateOK, Sound, SoundIn, Image, Leads, KeepsIn, PersistsIn, vars

(* Every step keeps the invariant.                                         *)
LEMMA Inductive == ASSUME LinesFit, IInv, [Next]_vars PROVE IInv'
<1>1. CASE Next
  BY <1>1, WriteByteKeeps, PowerLossKeeps, SettingsInitKeeps, StartKeeps, ReadStartupLineKeeps,
     StoreSettingKeeps, StoreStartupLineKeeps, WriteCoordDataKeeps, RestoreKeeps, ReadRecordKeeps,
     QuietKeeps DEF Next
<1>2. CASE UNCHANGED vars
  BY <1>2, Stutter
<1> QED
  BY <1>1, <1>2

(* The invariant implies what is promised.                                 *)
LEMMA Implies == ASSUME IInv PROVE SettingsPersist /\ SettingsSound /\ RecordsKeep
<1>1. ASSUME writes = <<>>
      PROVE  /\ pc # "off" => Valid(Global) /\ FromBytes(Bytes(Global)) = settings
             /\ \A r \in Records \ dirty : pc # "off" \/ Valid(Global) => Value(r) = expected[r]
  BY <1>1, Quiet, Reading, Counts DEF Image, PersistsIn, KeepsIn
<1>2. SettingsSound
  BY SoundRead DEF IInv, StateOK, SettingsSound
<1> QED
  BY <1>1, <1>2 DEF SettingsPersist, RecordsKeep

(* The invariant holds throughout.                                         *)
LEMMA Always == LinesFit /\ Spec => []IInv
<1> SUFFICES ASSUME LinesFit PROVE Spec => []IInv
  OBVIOUS
<1> QED
  BY InitIInv, Inductive, PTL DEF Spec

(* What is in memory is what the next power-up reads, whatever the records'*)
(* number and sizes and however often the power fails, as long as the lines*)
(* that are stored end before the build information (settings_init(),      *)
(* write_global_settings()).                                               *)
THEOREM SettingsAlwaysPersist == LinesFit => (Spec => []SettingsPersist)
BY Always, Implies, PTL

(* No command and no power failure leaves soft limits without homing or a  *)
(* step pulse too short, in memory or in the EEPROM: not even a record of  *)
(* the settings that was cut short and whose checksum holds by chance.     *)
THEOREM SettingsAlwaysSound == LinesFit => (Spec => []SettingsSound)
BY Always, Implies, PTL

(* A record keeps what was stored in it, whatever is written to the others *)
(* and however often the power fails, unless its own write is cut short.   *)
THEOREM RecordsAlwaysKeep == LinesFit => (Spec => []RecordsKeep)
BY Always, Implies, PTL
=============================================================================
