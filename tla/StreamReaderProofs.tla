------------------------- MODULE StreamReaderProofs -------------------------
(***************************************************************************)
(* Proofs about the reader of a damaging byte stream and the daemon behind *)
(* it, for frames, noise and damage of any kind, and reads of any length.  *)
(***************************************************************************)
EXTENDS StreamReader, SequenceTheorems, WellFoundedInduction, TLAPS

-----------------------------------------------------------------------------
(* Sequences and parts of them.                                            *)

\* The items of a sequence are where and what they should be.
LEMMA Items ==
    ASSUME NEW S, NEW s \in Seq(S)
    PROVE  Len(s) \in Nat /\ DOMAIN s = 1 .. Len(s) /\ \A i \in 1 .. Len(s) : s[i] \in S
  OBVIOUS

\* A part of a sequence.
LEMMA Part ==
    ASSUME NEW S, NEW s \in Seq(S), NEW a \in Nat \ {0}, NEW b \in Nat, b <= Len(s), a <= b + 1
    PROVE  /\ SubSeq(s, a, b) \in Seq(S) /\ Len(SubSeq(s, a, b)) = b - a + 1
           /\ \A j \in 1 .. b - a + 1 : SubSeq(s, a, b)[j] = s[a + j - 1]
  <1>1. \A i \in a .. b : s[i] \in S
    BY Items
  <1>. QED  BY <1>1, SubSeqProperties

\* What is left of a sequence from a position on.
LEMMA Cut ==
    ASSUME NEW S, NEW s \in Seq(S), NEW i \in 1 .. Len(s) + 1
    PROVE  /\ From(s, i) \in Seq(S) /\ Len(From(s, i)) = Len(s) - i + 1
           /\ \A j \in 1 .. Len(s) - i + 1 : From(s, i)[j] = s[i + j - 1]
  <1>1. Len(s) \in Nat /\ i \in Nat \ {0} /\ i <= Len(s) + 1
    BY Items
  <1>. QED  BY <1>1, Part DEF From

\* From a to b, s agrees with what is d further in t.
Alike(s, t, a, b, d) ==
    /\ a \in Nat \ {0} /\ b \in Nat /\ b <= Len(s) /\ a <= b + 1
    /\ d \in Int /\ a + d >= 1 /\ b + d <= Len(t)
    /\ \A x \in a .. b : t[x + d] = s[x]

\* Two sequences that agree on a stretch have it in common.
LEMMA Agree ==
    ASSUME NEW S, NEW s \in Seq(S), NEW t \in Seq(S), NEW a \in Nat, NEW b \in Nat, NEW d \in Int,
           Alike(s, t, a, b, d)
    PROVE  SubSeq(t, a + d, b + d) = SubSeq(s, a, b)
  <1>0. /\ a \in Nat \ {0} /\ b \in Nat /\ b <= Len(s) /\ a <= b + 1
        /\ d \in Int /\ a + d >= 1 /\ b + d <= Len(t)
        /\ \A x \in a .. b : t[x + d] = s[x]
    BY DEF Alike
  <1>. DEFINE u == SubSeq(s, a, b)
              v == SubSeq(t, a + d, b + d)
  <1>1. u \in Seq(S) /\ Len(u) = b - a + 1 /\ \A j \in 1 .. b - a + 1 : u[j] = s[a + j - 1]
    BY <1>0, Part
  <1>2. a + d \in Nat \ {0} /\ b + d \in Nat /\ a + d <= b + d + 1
    BY <1>0
  <1>3. v \in Seq(S) /\ Len(v) = b - a + 1 /\ \A j \in 1 .. b - a + 1 : v[j] = t[a + d + j - 1]
    BY <1>0, <1>2, Part
  <1>4. \A j \in 1 .. b - a + 1 : u[j] = v[j]
    <2>1. ASSUME NEW j \in 1 .. b - a + 1  PROVE u[j] = v[j]
      <3>1. a + j - 1 \in a .. b /\ (a + j - 1) + d = a + d + j - 1
        BY <1>0
      <3>2. t[(a + j - 1) + d] = s[a + j - 1]
        BY <1>0, <3>1
      <3>. HIDE DEF u, v
      <3>. QED  BY <1>1, <1>3, <3>1, <3>2
    <2>. QED  BY <2>1
  <1>5. Len(u) = Len(v)
    BY <1>1, <1>3
  <1>. HIDE DEF u, v
  <1>6. u = v
    BY <1>1, <1>3, <1>4, <1>5, SeqEqual
  <1>. QED  BY <1>6 DEF u, v

\* A part of what is left of a sequence is a part of the sequence.
LEMMA PartOfCut ==
    ASSUME NEW S, NEW s \in Seq(S), NEW i \in 1 .. Len(s), NEW a \in Nat \ {0}, NEW b \in Nat,
           a <= b + 1, b <= Len(s) - i + 1
    PROVE  SubSeq(From(s, i), a, b) = SubSeq(s, i + a - 1, i + b - 1)
  <1>. DEFINE u == From(s, i)
              d == i - 1
  <1>1. Len(s) \in Nat /\ i \in Nat /\ d \in Int /\ i \in 1 .. Len(s) + 1
    BY Items
  <1>2. u \in Seq(S) /\ Len(u) = Len(s) - i + 1 /\ \A j \in 1 .. Len(s) - i + 1 : u[j] = s[i + j - 1]
    BY <1>1, Cut
  <1>3. ASSUME NEW x \in a .. b  PROVE s[x + d] = u[x]
    <2>1. x \in 1 .. Len(s) - i + 1 /\ i + x - 1 = x + d
      BY <1>1
    <2>. HIDE DEF u, d
    <2>. QED  BY <1>2, <2>1
  <1>4. b <= Len(u) /\ a + d >= 1 /\ b + d <= Len(s) /\ a + d = i + a - 1 /\ b + d = i + b - 1
    BY <1>1, <1>2
  <1>5. SubSeq(s, a + d, b + d) = SubSeq(u, a, b)
    <2>. HIDE DEF u, d
    <2>1. Alike(u, s, a, b, d)
      BY <1>1, <1>3, <1>4 DEF Alike
    <2>2. u \in Seq(S) /\ s \in Seq(S) /\ a \in Nat /\ b \in Nat /\ d \in Int
      BY <1>1, <1>2
    <2>. QED  BY <2>1, <2>2, Agree
  <1>. QED  BY <1>4, <1>5

\* What a stream or a buffer holds.
Units == Seq(Nat)

\* A sequence is another one with a third after it.
IsJoin(r, s, t) == r = s \o t

\* A sequence after another.
LEMMA Joined ==
    ASSUME NEW s \in Units, NEW t \in Units, NEW r, IsJoin(r, s, t)
    PROVE  /\ r \in Units /\ Len(r) = Len(s) + Len(t)
           /\ \A i \in 1 .. Len(s) : r[i] = s[i]
           /\ \A i \in 1 .. Len(t) : r[Len(s) + i] = t[i]
  <1>1. Len(s) \in Nat /\ Len(t) \in Nat /\ s \in Seq(Nat) /\ t \in Seq(Nat)
    BY Items DEF Units
  <1>2. s \o t \in Seq(Nat) /\ Len(s \o t) = Len(s) + Len(t)
    BY <1>1, ConcatProperties
  <1>3. \A i \in 1 .. Len(s) + Len(t) :
            (s \o t)[i] = IF i <= Len(s) THEN s[i] ELSE t[i - Len(s)]
    BY <1>1, ConcatProperties
  <1>. DEFINE u == s \o t
  <1>4. ASSUME NEW i \in 1 .. Len(t)  PROVE u[Len(s) + i] = t[i]
    <2>1. Len(s) + i \in 1 .. Len(s) + Len(t) /\ ~(Len(s) + i <= Len(s)) /\ Len(s) + i - Len(s) = i
      BY <1>1
    <2>. QED  BY <1>3, <2>1
  <1>5. ASSUME NEW i \in 1 .. Len(s)  PROVE u[i] = s[i]
    <2>1. i \in 1 .. Len(s) + Len(t) /\ i <= Len(s)
      BY <1>1
    <2>. QED  BY <1>3, <2>1
  <1>6. r = u /\ u \in Units /\ Len(u) = Len(s) + Len(t)
    BY <1>2 DEF IsJoin, Units
  <1>. HIDE DEF u
  <1>. QED  BY <1>4, <1>5, <1>6

-----------------------------------------------------------------------------
(* The checksum.                                                           *)

\* A set that holds the first position and with each one the next holds the last.
LEMMA Positions ==
    ASSUME NEW n \in Nat, NEW P, 0 \in P, \A i \in 1 .. n : i - 1 \in P => i \in P
    PROVE  n \in P
  <1>. DEFINE D == (0 .. n) \ P
  <1>1. SUFFICES ASSUME D # {}  PROVE FALSE
    OBVIOUS
  <1>2. PICK x \in D : \A y \in D : ~(<<y, x>> \in OpToRel(<, Nat))
    <2>1. D \subseteq Nat
      OBVIOUS
    <2> HIDE DEF D
    <2> QED  BY <1>1, <2>1, NatLessThanWellFounded, WFMin
  <1>3. x \in 1 .. n /\ x - 1 \in 0 .. n /\ x - 1 \in Nat /\ x \in Nat /\ x - 1 < x
    OBVIOUS
  <1>4. x - 1 \in P
    <2>1. <<x - 1, x>> \in OpToRel(<, Nat)
      BY <1>3 DEF OpToRel
    <2>. QED  BY <1>2, <1>3, <2>1
  <1>. QED  BY <1>2, <1>3, <1>4

\* The checksum of a sequence, unit by unit.
Folded(crc, units, n) ==
    [i \in 0 .. n |-> IF i = 0 THEN 7 ELSE (crc[i - 1] * 31 + units[i] + 1) % 9973]

\* A checksum can be computed, and is a number.
LEMMA ChecksumIsNat ==
    ASSUME NEW units \in Seq(Nat)
    PROVE  crc32c(units) \in Nat
  <1>. DEFINE n == Len(units)
              P == { m \in 0 .. n : \E f \in [0 .. m -> Nat] : f = Folded(f, units, m) }
              crc == CHOOSE f : f = Folded(f, units, n)
  <1>1. n \in Nat /\ \A i \in 1 .. n : units[i] \in Nat
    BY Items
  <1>2. 0 \in P
    <2>. DEFINE f == [i \in 0 .. 0 |-> 7]
    <2>1. f \in [0 .. 0 -> Nat] /\ f = Folded(f, units, 0)
      BY DEF Folded
    <2>. QED  BY <1>1, <2>1
  <1>3. ASSUME NEW m \in 1 .. n, m - 1 \in P  PROVE m \in P
    <2>1. PICK f \in [0 .. m - 1 -> Nat] : f = Folded(f, units, m - 1)
      BY <1>3
    <2>. DEFINE g == [i \in 0 .. m |-> IF i = m THEN (f[m - 1] * 31 + units[m] + 1) % 9973 ELSE f[i]]
    <2>2. (f[m - 1] * 31 + units[m] + 1) % 9973 \in Nat
      <3>1. f[m - 1] \in Nat /\ units[m] \in Nat
        BY <1>1
      <3>. QED  BY <3>1
    <2>3. g \in [0 .. m -> Nat]
      BY <1>1, <2>2, SMTT(30)
    <2>4. ASSUME NEW i \in 0 .. m
          PROVE  g[i] = IF i = 0 THEN 7 ELSE (g[i - 1] * 31 + units[i] + 1) % 9973
      <3>1. CASE i = m
        <4>1. i # 0 /\ m - 1 \in 0 .. m /\ m - 1 # m
          BY <3>1
        <4>2. g[m - 1] = f[m - 1]
          BY <4>1
        <4>3. g[m] = (f[m - 1] * 31 + units[m] + 1) % 9973
          OBVIOUS
        <4>. HIDE DEF g
        <4>. QED  BY <3>1, <4>1, <4>2, <4>3
      <3>2. CASE i # m
        <4>1. i \in 0 .. m - 1 /\ g[i] = f[i]
          BY <3>2
        <4>2. f[i] = IF i = 0 THEN 7 ELSE (f[i - 1] * 31 + units[i] + 1) % 9973
          BY <2>1, <4>1 DEF Folded
        <4>3. i # 0 => g[i - 1] = f[i - 1]
          <5>1. i # 0 => i - 1 \in 0 .. m /\ i - 1 # m
            BY <4>1
          <5>. QED  BY <5>1
        <4>. HIDE DEF g
        <4>. QED  BY <4>1, <4>2, <4>3
      <3>. QED  BY <3>1, <3>2
    <2>5. g = Folded(g, units, m)
      <3>. DEFINE h == Folded(g, units, m)
      <3>1. DOMAIN g = 0 .. m /\ DOMAIN h = 0 .. m
        BY DEF Folded
      <3>2. \A i \in 0 .. m : g[i] = h[i]
        <4>. HIDE DEF g
        <4>. QED  BY <2>4 DEF Folded
      <3>3. g = [i \in 0 .. m |-> g[i]] /\ h = [i \in 0 .. m |-> h[i]]
        BY DEF Folded
      <3>. HIDE DEF g, h
      <3>4. g = h
        BY <3>2, <3>3
      <3>. QED  BY <3>4 DEF h
    <2>6. m \in 0 .. n
      OBVIOUS
    <2>. HIDE DEF g
    <2>. QED  BY <2>3, <2>5, <2>6
  <1>4. n \in P
    <2>. HIDE DEF P
    <2>. QED  BY <1>1, <1>2, <1>3, Positions
  <1>5. crc = Folded(crc, units, n)
    BY <1>4
  <1>. HIDE DEF crc
  <1>6. \A i \in 0 .. n : crc[i] = IF i = 0 THEN 7 ELSE (crc[i - 1] * 31 + units[i] + 1) % 9973
    <2>. DEFINE h == Folded(crc, units, n)
    <2>1. \A i \in 0 .. n : h[i] = IF i = 0 THEN 7 ELSE (crc[i - 1] * 31 + units[i] + 1) % 9973
      BY DEF Folded
    <2>. HIDE DEF h
    <2>. QED  BY <1>5, <2>1 DEF h
  <1>. DEFINE Q == { m \in 0 .. n : crc[m] \in Nat }
  <1>7. 0 \in Q
    BY <1>1, <1>6
  <1>8. ASSUME NEW m \in 1 .. n, m - 1 \in Q  PROVE m \in Q
    <2>1. m \in 0 .. n /\ m # 0 /\ units[m] \in Nat /\ crc[m - 1] \in Nat
      BY <1>1, <1>8
    <2>2. (crc[m - 1] * 31 + units[m] + 1) % 9973 \in Nat
      BY <2>1
    <2>. QED  BY <1>6, <2>1, <2>2
  <1>9. n \in Q
    <2>. HIDE DEF Q
    <2>. QED  BY <1>1, <1>7, <1>8, Positions
  <1>10. crc32c(units) = crc[n]
    BY DEF crc32c, crc, Folded
  <1>. QED  BY <1>9, <1>10

-----------------------------------------------------------------------------
(* Frames in a sequence of units.                                          *)

\* Two units that are the magic.
LEMMA MagicUnits ==
    ASSUME NEW u \in Seq(Nat)
    PROVE  StartsFrame(u) <=> Len(u) >= 2 /\ u[1] = 68 /\ u[2] = 82
  <1>1. CASE Len(u) >= 2
    <2>. DEFINE v == SubSeq(u, 1, 2)
    <2>1. v \in Seq(Nat) /\ Len(v) = 2 /\ v[1] = u[1] /\ v[2] = u[2]
      <3>1. Len(u) \in Nat
        BY Items
      <3>2. v \in Seq(Nat) /\ Len(v) = 2 - 1 + 1 /\ \A j \in 1 .. 2 - 1 + 1 : v[j] = u[1 + j - 1]
        BY <1>1, <3>1, Part
      <3>3. 1 \in 1 .. 2 - 1 + 1 /\ 2 \in 1 .. 2 - 1 + 1 /\ 1 + 1 - 1 = 1 /\ 1 + 2 - 1 = 2
        OBVIOUS
      <3>. HIDE DEF v
      <3>. QED  BY <3>2, <3>3
    <2>2. v = MAGIC <=> v[1] = 68 /\ v[2] = 82
      <3>1. MAGIC \in Seq(Nat) /\ Len(MAGIC) = 2 /\ MAGIC[1] = 68 /\ MAGIC[2] = 82
        BY DEF MAGIC
      <3>2. ASSUME v[1] = 68, v[2] = 82  PROVE v = MAGIC
        <4>1. \A j \in 1 .. Len(v) : v[j] = MAGIC[j]
          <5>. HIDE DEF v
          <5>1. \A j \in 1 .. Len(v) : j = 1 \/ j = 2
            BY <2>1
          <5>. QED  BY <3>1, <3>2, <5>1
        <4>. HIDE DEF v
        <4>. QED  BY <2>1, <3>1, <4>1, SeqEqual, ZenonT(30)
      <3>. HIDE DEF v
      <3>. QED  BY <3>1, <3>2
    <2>. HIDE DEF v
    <2>3. StartsFrame(u) <=> v = MAGIC
      BY <1>1 DEF StartsFrame, v
    <2>. QED  BY <1>1, <2>1, <2>2, <2>3
  <1>2. CASE ~(Len(u) >= 2)
    BY <1>2 DEF StartsFrame
  <1>. QED  BY <1>1, <1>2

\* A header that is accepted stands at position i of s.
HeaderAt(s, i) ==
    /\ s[i + 2] = PROTOCOL_VERSION
    /\ s[i + 3] \in MessageTypes
    /\ s[i + 5] <= MAX_PAYLOAD_LEN

\* A frame that the codec delimits stands there.
FrameAt(s, i) ==
    /\ i \in 1 .. Len(s) - 5
    /\ s[i] = 68 /\ s[i + 1] = 82
    /\ HeaderAt(s, i)
    /\ i + 6 + s[i + 5] <= Len(s)
    /\ s[i + 6 + s[i + 5]] = crc32c(SubSeq(s, i + 2, i + 5 + s[i + 5]))

\* What the codec sees from position i on, said of the whole sequence.
LEMMA SeenFrom ==
    ASSUME NEW s \in Units, NEW i \in 1 .. Len(s)
    PROVE  /\ StartsFrame(From(s, i)) <=> i < Len(s) /\ s[i] = 68 /\ s[i + 1] = 82
           /\ i + 5 <= Len(s) =>
                /\ ValidHeader(From(s, i)) <=> HeaderAt(s, i)
                /\ FrameLen(From(s, i)) = s[i + 5] + 7
           /\ Incomplete(From(s, i)) <=>
                \/ i + 5 > Len(s)
                \/ HeaderAt(s, i) /\ i + 6 + s[i + 5] > Len(s)
           /\ StartsFrame(From(s, i)) /\ Complete(From(s, i)) <=> FrameAt(s, i)
  <1>. DEFINE u == From(s, i)
  <1>1. Len(s) \in Nat /\ i \in Nat /\ 1 <= i /\ i <= Len(s) /\ i \in 1 .. Len(s) + 1
    BY Items DEF Units
  <1>2. u \in Units /\ Len(u) = Len(s) - i + 1 /\ \A j \in 1 .. Len(s) - i + 1 : u[j] = s[i + j - 1]
    BY <1>1, Cut DEF Units
  <1>2a. Len(u) = Len(s) - i + 1 /\ Len(u) \in Nat
    BY <1>1, <1>2
  <1>3. StartsFrame(u) <=> i < Len(s) /\ s[i] = 68 /\ s[i + 1] = 82
    <2>1. StartsFrame(u) <=> Len(u) >= 2 /\ u[1] = 68 /\ u[2] = 82
      BY <1>2, MagicUnits DEF Units
    <2>2. Len(u) >= 2 => u[1] = s[i] /\ u[2] = s[i + 1]
      <3>1. Len(u) >= 2 => 1 \in 1 .. Len(s) - i + 1 /\ 2 \in 1 .. Len(s) - i + 1
        BY <1>1, <1>2
      <3>2. i + 1 - 1 = i /\ i + 2 - 1 = i + 1
        BY <1>1
      <3>. HIDE DEF u
      <3>. QED  BY <1>2, <3>1, <3>2
    <2>. HIDE DEF u
    <2>. QED  BY <1>1, <1>2a, <2>1, <2>2
  <1>4. ASSUME i + 5 <= Len(s)
        PROVE  /\ u[3] = s[i + 2] /\ u[4] = s[i + 3] /\ u[6] = s[i + 5]
               /\ s[i + 5] \in Nat /\ Len(u) >= 6
    <2>1. 3 \in 1 .. Len(s) - i + 1 /\ 4 \in 1 .. Len(s) - i + 1 /\ 6 \in 1 .. Len(s) - i + 1
      BY <1>1, <1>4
    <2>2. i + 3 - 1 = i + 2 /\ i + 4 - 1 = i + 3 /\ i + 6 - 1 = i + 5 /\ i + 5 \in 1 .. Len(s)
      BY <1>1, <1>4
    <2>3. s[i + 5] \in Nat
      BY <2>2, Items DEF Units
    <2>. HIDE DEF u
    <2>. QED  BY <1>1, <1>2, <1>4, <2>1, <2>2, <2>3
  <1>5. ASSUME i + 5 <= Len(s)
        PROVE  (ValidHeader(u) <=> HeaderAt(s, i)) /\ FrameLen(u) = s[i + 5] + 7
    <2>. HIDE DEF u
    <2>. QED  BY <1>4, <1>5 DEF ValidHeader, HeaderAt, FrameLen, HEADER_LEN, CHECKSUM_LEN
  <1>6. Incomplete(u) <=> \/ i + 5 > Len(s)
                          \/ HeaderAt(s, i) /\ i + 6 + s[i + 5] > Len(s)
    <2>. HIDE DEF u
    <2>1. CASE i + 5 > Len(s)
      BY <1>1, <1>2a, <2>1 DEF Incomplete, HEADER_LEN
    <2>2. CASE i + 5 <= Len(s)
      BY <1>1, <1>2a, <1>4, <1>5, <2>2 DEF Incomplete, HEADER_LEN
    <2>. QED  BY <1>1, <2>1, <2>2
  <1>7. StartsFrame(u) /\ Complete(u) <=> FrameAt(s, i)
    <2>. HIDE DEF u
    <2>1. CASE i + 5 > Len(s)
      BY <1>1, <1>2a, <2>1 DEF Complete, HEADER_LEN, FrameAt
    <2>2. CASE i + 5 <= Len(s) /\ HeaderAt(s, i) /\ i + 6 + s[i + 5] <= Len(s)
      <3>1. u[s[i + 5] + 7] = s[i + 6 + s[i + 5]]
        <4>1. s[i + 5] + 7 \in 1 .. Len(s) - i + 1 /\ i + (s[i + 5] + 7) - 1 = i + 6 + s[i + 5]
          BY <1>1, <1>4, <2>2
        <4>. QED  BY <1>2, <4>1
      <3>2. SubSeq(u, 3, 6 + s[i + 5]) = SubSeq(s, i + 2, i + 5 + s[i + 5])
        <4>. DEFINE b == 6 + s[i + 5]
        <4>1. b \in Nat /\ b <= Len(s) - i + 1 /\ 3 <= b + 1 /\ 3 \in Nat \ {0}
          BY <1>1, <1>4, <2>2
        <4>2. i + 3 - 1 = i + 2 /\ i + b - 1 = i + 5 + s[i + 5]
          <5>1. s[i + 5] \in Nat /\ i \in Nat
            BY <1>1, <1>4, <2>2
          <5>. QED  BY <5>1
        <4>3. SubSeq(u, 3, b) = SubSeq(s, i + 3 - 1, i + b - 1)
          <5>. HIDE DEF b
          <5>1. s \in Seq(Nat) /\ i \in 1 .. Len(s)
            BY DEF Units
          <5>. QED  BY <4>1, <5>1, PartOfCut DEF u
        <4>. QED  BY <4>2, <4>3
      <3>3. FrameLen(u) = s[i + 5] + 7 /\ HEADER_LEN + u[6] = 6 + s[i + 5]
        BY <1>4, <1>5, <2>2 DEF HEADER_LEN
      <3>4. Complete(u) <=> s[i + 6 + s[i + 5]] = crc32c(SubSeq(s, i + 2, i + 5 + s[i + 5]))
        <4>1. Len(u) >= HEADER_LEN /\ ValidHeader(u) /\ Len(u) >= FrameLen(u)
          BY <1>1, <1>2a, <1>4, <1>5, <2>2 DEF HEADER_LEN
        <4>. QED  BY <3>1, <3>2, <3>3, <4>1 DEF Complete, ChecksumMatches
      <3>5. i \in 1 .. Len(s) - 5 /\ i < Len(s)
        BY <1>1, <2>2
      <3>. QED  BY <1>3, <2>2, <3>4, <3>5 DEF FrameAt
    <2>3. CASE i + 5 <= Len(s) /\ ~(HeaderAt(s, i) /\ i + 6 + s[i + 5] <= Len(s))
      BY <1>1, <1>2a, <1>4, <1>5, <2>3 DEF Complete, FrameAt
    <2>. QED  BY <1>1, <2>1, <2>2, <2>3
  <1>. QED  BY <1>3, <1>5, <1>6, <1>7

\* The frames of a sequence, and where they end.
LEMMA FramesAreAt ==
    ASSUME NEW s \in Units
    PROVE  /\ FramesIn(s) = { i \in 1 .. Len(s) : FrameAt(s, i) }
           /\ \A i \in FramesIn(s) :
                /\ i \in Nat \ {0} /\ s[i + 5] \in Nat /\ s[i + 5] <= MAX_PAYLOAD_LEN
                /\ FrameLen(From(s, i)) = s[i + 5] + 7
                /\ EndOf(s, i) = i + 6 + s[i + 5] /\ EndOf(s, i) <= Len(s)
  <1>1. Len(s) \in Nat /\ DOMAIN s = 1 .. Len(s)
    BY Items DEF Units
  <1>2. FramesIn(s) = { i \in 1 .. Len(s) : FrameAt(s, i) }
    BY <1>1, SeenFrom DEF FramesIn
  <1>3. ASSUME NEW i \in FramesIn(s)
        PROVE  /\ i \in Nat \ {0} /\ s[i + 5] \in Nat /\ s[i + 5] <= MAX_PAYLOAD_LEN
               /\ FrameLen(From(s, i)) = s[i + 5] + 7
               /\ EndOf(s, i) = i + 6 + s[i + 5] /\ EndOf(s, i) <= Len(s)
    <2>1. i \in 1 .. Len(s) /\ FrameAt(s, i)
      BY <1>2
    <2>2. i \in Nat /\ 1 <= i /\ i + 5 <= Len(s) /\ i + 5 \in 1 .. Len(s)
      BY <1>1, <2>1 DEF FrameAt
    <2>3. s[i + 5] \in Nat
      BY <2>2, Items DEF Units
    <2>4. FrameLen(From(s, i)) = s[i + 5] + 7
      BY <2>1, <2>2, SeenFrom
    <2>5. s[i + 5] <= MAX_PAYLOAD_LEN /\ i + 6 + s[i + 5] <= Len(s)
      BY <2>1 DEF FrameAt, HeaderAt
    <2>. QED  BY <2>2, <2>3, <2>4, <2>5 DEF EndOf
  <1>. QED  BY <1>2, <1>3

\* A frame is where all its units are.
LEMMA FrameMoves ==
    ASSUME NEW s \in Units, NEW t \in Units, NEW i \in FramesIn(s), NEW d \in Int,
           i + d >= 1, EndOf(s, i) + d <= Len(t),
           \A x \in i .. EndOf(s, i) : t[x + d] = s[x]
    PROVE  /\ i + d \in FramesIn(t) /\ EndOf(t, i + d) = EndOf(s, i) + d
           /\ SubSeq(t, i + d, EndOf(t, i + d)) = SubSeq(s, i, EndOf(s, i))
  <1>. DEFINE p == s[i + 5]
              e == EndOf(s, i)
              j == i + d
  <1>1. /\ i \in Nat \ {0} /\ p \in Nat /\ e = i + 6 + p /\ e <= Len(s) /\ e \in Nat
        /\ FrameAt(s, i)
    BY FramesAreAt
  <1>2. Len(s) \in Nat /\ Len(t) \in Nat /\ s \in Seq(Nat) /\ t \in Seq(Nat)
    BY Items DEF Units
  <1>3. /\ t[i + d] = s[i] /\ t[i + 1 + d] = s[i + 1] /\ t[i + 2 + d] = s[i + 2]
        /\ t[i + 3 + d] = s[i + 3] /\ t[i + 5 + d] = p /\ t[i + 6 + p + d] = s[i + 6 + p]
    <2>1. /\ i \in i .. e /\ i + 1 \in i .. e /\ i + 2 \in i .. e
          /\ i + 3 \in i .. e /\ i + 5 \in i .. e /\ i + 6 + p \in i .. e
      <3>. HIDE DEF p, e
      <3>. QED  BY <1>1
    <2>. QED  BY <2>1
  <1>4. /\ j + 1 = i + 1 + d /\ j + 2 = i + 2 + d /\ j + 3 = i + 3 + d /\ j + 5 = i + 5 + d
        /\ j + 6 + p = i + 6 + p + d /\ j \in Nat \ {0} /\ e + d = j + 6 + p
        /\ j + 5 + p = (i + 5 + p) + d /\ j + 2 = (i + 2) + d
    <2>. HIDE DEF p, e
    <2>. QED  BY <1>1
  <1>5. SubSeq(t, j + 2, j + 5 + p) = SubSeq(s, i + 2, i + 5 + p)
    <2>1. /\ i + 2 \in Nat \ {0} /\ i + 5 + p \in Nat /\ i + 5 + p <= Len(s) /\ i + 2 <= i + 5 + p + 1
          /\ i + 2 + d >= 1 /\ i + 5 + p + d <= Len(t)
      <3>. HIDE DEF p, e
      <3>. QED  BY <1>1, <1>2 DEF e
    <2>2. \A x \in i + 2 .. i + 5 + p : t[x + d] = s[x]
      <3>1. ASSUME NEW x \in i + 2 .. i + 5 + p  PROVE x \in i .. e
        <4>. HIDE DEF p, e
        <4>. QED  BY <1>1, <3>1
      <3>. QED  BY <3>1
    <2>. DEFINE a == i + 2
                b == i + 5 + p
    <2>3. SubSeq(t, a + d, b + d) = SubSeq(s, a, b)
      <3>. HIDE DEF p, e, j, a, b
      <3>1. a \in Nat \ {0} /\ b \in Nat /\ b <= Len(s) /\ a <= b + 1 /\ a + d >= 1 /\ b + d <= Len(t)
            /\ \A x \in a .. b : t[x + d] = s[x]
        BY <2>1, <2>2 DEF a, b
      <3>2. Alike(s, t, a, b, d)
        BY <3>1 DEF Alike
      <3>. QED  BY <1>2, <3>1, <3>2, Agree
    <2>. HIDE DEF p, e, j
    <2>. QED  BY <1>4, <2>3
  <1>6. SubSeq(t, j, e + d) = SubSeq(s, i, e)
    <2>1. i + d >= 1 /\ e + d <= Len(t) /\ i <= e + 1
      <3>. HIDE DEF p, e
      <3>. QED  BY <1>1 DEF e
    <2>2. \A x \in i .. e : t[x + d] = s[x]
      OBVIOUS
    <2>. HIDE DEF p, e
    <2>3. Alike(s, t, i, e, d)
      BY <1>1, <2>1, <2>2 DEF Alike
    <2>. QED  BY <1>1, <1>2, <2>3, Agree
  <1>7. FrameAt(t, j)
    <2>1. s[i] = 68 /\ s[i + 1] = 82 /\ s[i + 2] = PROTOCOL_VERSION /\ s[i + 3] \in MessageTypes
          /\ p <= MAX_PAYLOAD_LEN
      BY <1>1 DEF FrameAt, HeaderAt
    <2>2. s[i + 6 + p] = crc32c(SubSeq(s, i + 2, i + 5 + p))
      BY <1>1 DEF FrameAt
    <2>3. j \in 1 .. Len(t) - 5 /\ j + 6 + p <= Len(t)
      <3>. HIDE DEF p, j
      <3>. QED  BY <1>1, <1>2, <1>4
    <2>4. t[j] = 68 /\ t[j + 1] = 82 /\ HeaderAt(t, j)
      <3>. HIDE DEF p
      <3>. QED  BY <1>3, <1>4, <2>1 DEF HeaderAt
    <2>5. t[j + 5] = p /\ t[j + 6 + p] = crc32c(SubSeq(t, j + 2, j + 5 + p))
      <3>. HIDE DEF p, j
      <3>. QED  BY <1>3, <1>4, <1>5, <2>2
    <2>. HIDE DEF p, j
    <2>. QED  BY <2>3, <2>4, <2>5 DEF FrameAt
  <1>8. j \in FramesIn(t)
    <2>1. j \in 1 .. Len(t)
      <3>. HIDE DEF j
      <3>. QED  BY <1>2, <1>7 DEF FrameAt
    <2>. QED  BY <1>7, <2>1, FramesAreAt
  <1>9. EndOf(t, j) = e + d
    <2>1. EndOf(t, j) = j + 6 + t[j + 5]
      BY <1>8, FramesAreAt
    <2>2. t[j + 5] = p
      <3>. HIDE DEF p
      <3>. QED  BY <1>3, <1>4
    <2>. HIDE DEF p, j, e
    <2>. QED  BY <1>4, <2>1, <2>2
  <1>10. i + d \in FramesIn(t) /\ EndOf(t, i + d) = e + d /\ SubSeq(t, i + d, e + d) = SubSeq(s, i, e)
    BY <1>6, <1>8, <1>9
  <1>. HIDE DEF e
  <1>11. SubSeq(t, i + d, EndOf(t, i + d)) = SubSeq(s, i, e)
    BY <1>10
  <1>. QED  BY <1>10, <1>11 DEF e

-----------------------------------------------------------------------------
(* What is written.                                                        *)

\* A sequence has the units of a frame.
HasFields(f, type, sequence, payload) ==
    /\ f \in Units /\ Len(f) = Len(payload) + 7 /\ Len(payload) \in Nat
    /\ f[1] = 68 /\ f[2] = 82 /\ f[3] = PROTOCOL_VERSION
    /\ f[4] = type /\ f[5] = sequence /\ f[6] = Len(payload)
    /\ SubSeq(f, 7, 6 + Len(payload)) = payload
    /\ f[7 + Len(payload)] = crc32c(SubSeq(f, 3, 6 + Len(payload)))

\* The units of a frame, and what is covered by its checksum.
LEMMA FramedUnits ==
    ASSUME NEW type \in Nat, NEW sequence \in Nat, NEW payload \in Units
    PROVE  HasFields(Framed(type, sequence, payload), type, sequence, payload)
  <1>. DEFINE n == Len(payload)
              head == <<PROTOCOL_VERSION, type, sequence, n>>
              body == head \o payload
              front == MAGIC \o body
              f == front \o <<crc32c(body)>>
  <1>1. f = Framed(type, sequence, payload)
    BY DEF Framed
  <1>2. n \in Nat /\ payload \in Seq(Nat) /\ \A i \in 1 .. n : payload[i] \in Nat
    BY Items DEF Units
  <1>3. /\ head \in Seq(Nat) /\ Len(head) = 4
        /\ head[1] = PROTOCOL_VERSION /\ head[2] = type /\ head[3] = sequence /\ head[4] = n
    BY <1>2 DEF PROTOCOL_VERSION
  <1>4. /\ body \in Units /\ Len(body) = 4 + n
        /\ body[1] = PROTOCOL_VERSION /\ body[2] = type /\ body[3] = sequence /\ body[4] = n
        /\ \A i \in 1 .. n : body[4 + i] = payload[i]
    <2>1. /\ body \in Units /\ Len(body) = Len(head) + n
          /\ \A i \in 1 .. Len(head) : body[i] = head[i]
          /\ \A i \in 1 .. n : body[Len(head) + i] = payload[i]
      <3>1. IsJoin(body, head, payload) /\ head \in Units
        BY <1>3 DEF IsJoin, Units
      <3>. HIDE DEF head, body
      <3>. QED  BY <3>1, Joined DEF n
    <2>2. 1 \in 1 .. 4 /\ 2 \in 1 .. 4 /\ 3 \in 1 .. 4 /\ 4 \in 1 .. 4
      OBVIOUS
    <2>. HIDE DEF body, head, n
    <2>. QED  BY <1>3, <2>1, <2>2
  <1>5. /\ MAGIC \in Seq(Nat) /\ Len(MAGIC) = 2 /\ MAGIC[1] = 68 /\ MAGIC[2] = 82
    BY DEF MAGIC
  <1>6. /\ front \in Units /\ Len(front) = 6 + n /\ front[1] = 68 /\ front[2] = 82
        /\ \A i \in 1 .. 4 + n : front[2 + i] = body[i]
    <2>1. /\ front \in Units /\ Len(front) = Len(MAGIC) + Len(body)
          /\ \A i \in 1 .. Len(MAGIC) : front[i] = MAGIC[i]
          /\ \A i \in 1 .. Len(body) : front[Len(MAGIC) + i] = body[i]
      <3>1. IsJoin(front, MAGIC, body) /\ MAGIC \in Units
        BY <1>5 DEF IsJoin, Units
      <3>. HIDE DEF body, front
      <3>. QED  BY <1>4, <3>1, Joined, SMTT(30)
    <2>2. 1 \in 1 .. 2 /\ 2 \in 1 .. 2
      OBVIOUS
    <2>3. Len(front) = 6 + n
      <3>. HIDE DEF front, body
      <3>. QED  BY <1>2, <1>4, <1>5, <2>1
    <2>. HIDE DEF front, body
    <2>. QED  BY <1>4, <1>5, <2>1, <2>2, <2>3
  <1>7. crc32c(body) \in Nat /\ <<crc32c(body)>> \in Seq(Nat) /\ Len(<<crc32c(body)>>) = 1
    <2>1. crc32c(body) \in Nat
      <3>. HIDE DEF body
      <3>. QED  BY <1>4, ChecksumIsNat DEF Units
    <2>. HIDE DEF body
    <2>. QED  BY <2>1
  <1>8. /\ f \in Units /\ Len(f) = n + 7
        /\ \A i \in 1 .. 6 + n : f[i] = front[i]
        /\ f[7 + n] = crc32c(body)
    <2>. DEFINE last == <<crc32c(body)>>
    <2>1. /\ f \in Units /\ Len(f) = Len(front) + Len(last)
          /\ \A i \in 1 .. Len(front) : f[i] = front[i]
          /\ \A i \in 1 .. Len(last) : f[Len(front) + i] = last[i]
      <3>1. last \in Units
        BY <1>7 DEF Units
      <3>2. IsJoin(f, front, last)
        BY DEF IsJoin
      <3>. HIDE DEF f, front, last
      <3>. QED  BY <1>6, <3>1, <3>2, Joined, SMTT(30)
    <2>2. 1 \in 1 .. Len(last) /\ last[1] = crc32c(body) /\ Len(last) = 1
      <3>. HIDE DEF body
      <3>. QED  BY <1>7
    <2>3. Len(front) + 1 = 7 + n /\ Len(front) + Len(last) = n + 7
      <3>. HIDE DEF front, last
      <3>. QED  BY <1>2, <1>6, <2>2
    <2>4. f[Len(front) + 1] = last[1]
      <3>. HIDE DEF f, front, last
      <3>. QED  BY <2>1, <2>2
    <2>. HIDE DEF f, front, last
    <2>. QED  BY <1>6, <2>1, <2>2, <2>3, <2>4
  <1>9. \A i \in 1 .. 4 + n : f[2 + i] = body[i]
    <2>1. ASSUME NEW i \in 1 .. 4 + n  PROVE f[2 + i] = body[i]
      <3>1. 2 + i \in 1 .. 6 + n
        BY <1>2
      <3>. HIDE DEF f, front, body
      <3>. QED  BY <1>6, <1>8, <2>1, <3>1
    <2>. QED  BY <2>1
  <1>10. /\ f[1] = 68 /\ f[2] = 82 /\ f[3] = PROTOCOL_VERSION
         /\ f[4] = type /\ f[5] = sequence /\ f[6] = n
    <2>1. 1 \in 1 .. 6 + n /\ 2 \in 1 .. 6 + n
          /\ 1 \in 1 .. 4 + n /\ 2 \in 1 .. 4 + n /\ 3 \in 1 .. 4 + n /\ 4 \in 1 .. 4 + n
      BY <1>2
    <2>2. 2 + 1 = 3 /\ 2 + 2 = 4 /\ 2 + 3 = 5 /\ 2 + 4 = 6
      OBVIOUS
    <2>3. f[1] = 68 /\ f[2] = 82
      <3>. HIDE DEF f, front, n
      <3>. QED  BY <1>6, <1>8, <2>1
    <2>4. f[2 + 1] = body[1] /\ f[2 + 2] = body[2] /\ f[2 + 3] = body[3] /\ f[2 + 4] = body[4]
      <3>. HIDE DEF f, body, n
      <3>. QED  BY <1>9, <2>1
    <2>. HIDE DEF f, body, n
    <2>. QED  BY <1>4, <2>2, <2>3, <2>4
  <1>11. SubSeq(f, 3, 6 + n) = body
    <2>. DEFINE d == 2
    <2>1. body = SubSeq(body, 1, 4 + n)
      <3>. HIDE DEF body
      <3>. QED  BY <1>4, SubSeqFull DEF Units
    <2>2. /\ 1 \in Nat \ {0} /\ 4 + n \in Nat /\ 4 + n <= Len(body) /\ 1 <= 4 + n + 1
          /\ 1 + 2 >= 1 /\ 4 + n + 2 <= Len(f) /\ 1 + 2 = 3 /\ 4 + n + 2 = 6 + n
      <3>. HIDE DEF body, f, n
      <3>. QED  BY <1>2, <1>4, <1>8
    <2>3. \A x \in 1 .. 4 + n : f[x + 2] = body[x]
      <3>1. ASSUME NEW x \in 1 .. 4 + n  PROVE f[x + 2] = body[x]
        <4>1. x + 2 = 2 + x
          BY <1>2
        <4>. HIDE DEF f, body, n
        <4>. QED  BY <1>9, <4>1
      <3>. HIDE DEF f, body, n
      <3>. QED  BY <3>1
    <2>. DEFINE b == 4 + n
    <2>4. SubSeq(f, 1 + 2, b + 2) = SubSeq(body, 1, b)
      <3>1. /\ b \in Nat /\ b <= Len(body) /\ 1 <= b + 1 /\ b + 2 <= Len(f)
            /\ \A x \in 1 .. b : f[x + 2] = body[x]
        <4>. HIDE DEF f, body, n
        <4>. QED  BY <2>2, <2>3
      <3>. HIDE DEF f, body, b
      <3>2. Alike(body, f, 1, b, 2)
        BY <3>1 DEF Alike
      <3>3. f \in Seq(Nat) /\ body \in Seq(Nat)
        BY <1>4, <1>8 DEF Units
      <3>. QED  BY <3>1, <3>2, <3>3, Agree
    <2>. HIDE DEF f, body, n
    <2>. QED  BY <2>1, <2>2, <2>4
  <1>12. SubSeq(f, 7, 6 + n) = payload
    <2>1. payload = SubSeq(payload, 1, n)
      BY <1>2, SubSeqFull
    <2>2. /\ n <= Len(payload) /\ 1 <= n + 1 /\ 1 + 6 >= 1 /\ n + 6 <= Len(f)
          /\ 1 + 6 = 7 /\ n + 6 = 6 + n
      <3>. HIDE DEF f
      <3>. QED  BY <1>2, <1>8
    <2>3. \A x \in 1 .. n : f[x + 6] = payload[x]
      <3>1. ASSUME NEW x \in 1 .. n  PROVE f[x + 6] = payload[x]
        <4>1. 4 + x \in 1 .. 4 + n /\ 2 + (4 + x) = x + 6
          BY <1>2
        <4>. HIDE DEF f, body
        <4>. QED  BY <1>4, <1>9, <4>1
      <3>. HIDE DEF f, n
      <3>. QED  BY <3>1
    <2>4. SubSeq(f, 1 + 6, n + 6) = SubSeq(payload, 1, n)
      <3>1. n \in Nat /\ f \in Seq(Nat) /\ payload \in Seq(Nat)
        BY <1>2, <1>8 DEF Units
      <3>. HIDE DEF f, n
      <3>2. Alike(payload, f, 1, n, 6)
        BY <2>2, <2>3, <3>1 DEF Alike
      <3>. QED  BY <3>1, <3>2, Agree
    <2>. HIDE DEF f, n
    <2>. QED  BY <2>1, <2>2, <2>4
  <1>13. f[7 + n] = crc32c(SubSeq(f, 3, 6 + n))
    <2>. HIDE DEF f, body, n
    <2>. QED  BY <1>8, <1>11
  <1>14. /\ f \in Units /\ Len(f) = n + 7 /\ n \in Nat
         /\ f[1] = 68 /\ f[2] = 82 /\ f[3] = PROTOCOL_VERSION
         /\ f[4] = type /\ f[5] = sequence /\ f[6] = n
         /\ SubSeq(f, 7, 6 + n) = payload
         /\ f[7 + n] = crc32c(SubSeq(f, 3, 6 + n))
    <2>. HIDE DEF f, n
    <2>. QED  BY <1>2, <1>8, <1>10, <1>12, <1>13
  <1>15. HasFields(f, type, sequence, payload)
    <2>. HIDE DEF f
    <2>. QED  BY <1>14 DEF HasFields
  <1>. HIDE DEF f
  <1>. QED  BY <1>1, <1>15

\* What is written with a payload of a frame's size is a frame to decoders
\* and to the codec.
LEMMA FramedIsFrame ==
    ASSUME NEW type \in MessageTypes, NEW sequence \in Nat, NEW payload \in Units,
           Len(payload) <= MAX_PAYLOAD_LEN
    PROVE  LET f == Framed(type, sequence, payload)
           IN  /\ f \in Units /\ IsFrame(f, type) /\ PayloadOf(f) = payload
               /\ f[4] = type /\ f[5] = sequence
               /\ 1 \in FramesIn(f) /\ EndOf(f, 1) = Len(f)
  <1>. DEFINE f == Framed(type, sequence, payload)
              n == Len(payload)
  <1>1. type \in Nat
    BY DEF MessageTypes
  <1>2. /\ f \in Units /\ Len(f) = n + 7 /\ n \in Nat
        /\ f[1] = 68 /\ f[2] = 82 /\ f[3] = PROTOCOL_VERSION
        /\ f[4] = type /\ f[5] = sequence /\ f[6] = n
        /\ SubSeq(f, 7, 6 + n) = payload
        /\ f[7 + n] = crc32c(SubSeq(f, 3, 6 + n))
    <2>1. HasFields(f, type, sequence, payload)
      BY <1>1, FramedUnits
    <2>. HIDE DEF f
    <2>. QED  BY <2>1 DEF HasFields
  <1>3. n <= MAX_PAYLOAD_LEN
    OBVIOUS
  <1>. HIDE DEF f, n
  <1>4. PayloadOf(f) = payload
    BY <1>2 DEF PayloadOf, HEADER_LEN
  <1>5. SubSeq(f, 1, 2) = MAGIC
    <2>1. Len(f) >= 2
      BY <1>2
    <2>. QED  BY <1>2, <2>1, MagicUnits DEF Units, StartsFrame
  <1>6. IsFrame(f, type)
    <2>1. Len(f) >= 6 /\ Len(f) = 6 + f[6] + 1 /\ Len(f) = 7 + n /\ 6 + f[6] = 6 + n
      BY <1>2
    <2>. QED  BY <1>2, <1>3, <1>5, <2>1 DEF IsFrame, HEADER_LEN, CHECKSUM_LEN
  <1>7. FrameAt(f, 1)
    <2>1. 1 \in 1 .. Len(f) - 5 /\ 1 + 6 + n = 7 + n /\ 1 + 5 + n = 6 + n /\ 7 + n <= Len(f)
      BY <1>2
    <2>2. HeaderAt(f, 1)
      <3>1. 1 + 2 = 3 /\ 1 + 3 = 4 /\ 1 + 5 = 6
        OBVIOUS
      <3>. QED  BY <1>2, <1>3, <3>1 DEF HeaderAt
    <2>3. 1 + 1 = 2 /\ 1 + 2 = 3 /\ 1 + 5 = 6
      OBVIOUS
    <2>. QED  BY <1>2, <2>1, <2>2, <2>3 DEF FrameAt
  <1>8. 1 \in FramesIn(f)
    <2>1. 1 \in 1 .. Len(f)
      BY <1>2
    <2>. QED  BY <1>2, <1>7, <2>1, FramesAreAt
  <1>9. EndOf(f, 1) = Len(f)
    <2>1. EndOf(f, 1) = 1 + 6 + f[1 + 5]
      BY <1>2, <1>8, FramesAreAt
    <2>2. 1 + 5 = 6
      OBVIOUS
    <2>. QED  BY <1>2, <2>1, <2>2
  <1>. QED  BY <1>2, <1>4, <1>6, <1>8, <1>9 DEF f

\* The units of a frame in a sequence.
FrameOf(s, i) == SubSeq(s, i, EndOf(s, i))

\* A frame has units, and they are those of the sequence.
LEMMA FrameOfUnits ==
    ASSUME NEW s \in Units, NEW i \in FramesIn(s)
    PROVE  /\ FrameOf(s, i) \in Units /\ FrameOf(s, i) # <<>>
           /\ Len(FrameOf(s, i)) = EndOf(s, i) - i + 1 /\ Len(FrameOf(s, i)) >= 7
           /\ i \in Nat \ {0} /\ EndOf(s, i) \in Nat /\ i < EndOf(s, i) /\ EndOf(s, i) <= Len(s)
           /\ \A x \in 1 .. Len(FrameOf(s, i)) : FrameOf(s, i)[x] = s[i + x - 1]
  <1>. DEFINE e == EndOf(s, i)
  <1>1. i \in Nat \ {0} /\ e \in Nat /\ i + 6 <= e /\ e <= Len(s)
    BY FramesAreAt
  <1>. HIDE DEF e
  <1>2. i <= e + 1
    BY <1>1
  <1>3. /\ SubSeq(s, i, e) \in Seq(Nat) /\ Len(SubSeq(s, i, e)) = e - i + 1
        /\ \A x \in 1 .. e - i + 1 : SubSeq(s, i, e)[x] = s[i + x - 1]
    BY <1>1, <1>2, Part DEF Units
  <1>. DEFINE f == SubSeq(s, i, e)
  <1>4. f = FrameOf(s, i)
    BY DEF FrameOf, e
  <1>5. /\ f \in Units /\ Len(f) = e - i + 1 /\ \A x \in 1 .. e - i + 1 : f[x] = s[i + x - 1]
    BY <1>3 DEF Units
  <1>. HIDE DEF f
  <1>6. Len(f) >= 7 /\ i < e
    BY <1>1, <1>5
  <1>7. f # <<>>
    BY <1>6
  <1>. QED  BY <1>1, <1>4, <1>5, <1>6, <1>7 DEF e

-----------------------------------------------------------------------------
(* Where the frames written undamaged are among the units left to scan.    *)

\* What is known of a frame written undamaged: it decodes to what it says.
Entries == { e \in [frame : Units, message : [type : MessageTypes, sequence : Nat,
                                              content : Envelope \cup Status \cup Response \cup {None}]] :
               e.frame # <<>> /\ Decodable(e.frame) /\ Decoded(e.frame) = e.message }

\* The position of each of them; 0 is that of one a part of which was lost.
Placed(s, u, at) ==
    /\ at \in [1 .. Len(u) -> Nat]
    /\ \A k \in 1 .. Len(u) : at[k] # 0 => at[k] \in FramesIn(s) /\ FrameOf(s, at[k]) = u[k].frame

\* They follow each other.
Ordered(s, u, at) ==
    \A j, k \in 1 .. Len(u) : j < k /\ at[j] # 0 /\ at[k] # 0 => EndOf(s, at[j]) < at[k]

\* A frame that decodes is one of them.
Covered(s, u, at) ==
    \A i \in FramesIn(s) : Decodable(FrameOf(s, i)) => \E k \in 1 .. Len(u) : at[k] = i

\* Each is there, and no other frame has a unit in common with it.
Whole(s, u, at) ==
    \A k \in 1 .. Len(u) :
        /\ at[k] # 0
        /\ \A i \in FramesIn(s) : i # at[k] => EndOf(s, i) < at[k] \/ EndOf(s, at[k]) < i

Layout(s, u, at, lost) ==
    Placed(s, u, at) /\ Ordered(s, u, at) /\ Covered(s, u, at) /\ (lost \/ Whole(s, u, at))

\* Where frames go when units are added, or removed; the first r entries are
\* done with.
Carries(s, u, at, lost, t, r, v, gone, to) ==
    /\ r \in 0 .. Len(u) /\ Len(v) = Len(u) - r /\ \A k \in 1 .. Len(v) : v[k] = u[k + r]
    /\ to \in [FramesIn(s) -> Nat]
    /\ \A i \in FramesIn(s) : to[i] # 0 =>
          to[i] \in FramesIn(t) /\ FrameOf(t, to[i]) = FrameOf(s, i)
    /\ \A i, j \in FramesIn(s) : to[i] # 0 /\ to[j] # 0 /\ EndOf(s, i) < j =>
          EndOf(t, to[i]) < to[j]
    /\ \A j \in FramesIn(t) :
          \/ \E i \in FramesIn(s) : to[i] = j
          \/ /\ ~Decodable(FrameOf(t, j))
             /\ gone \/ \A i \in FramesIn(s) : to[i] # 0 => EndOf(t, to[i]) < j
    /\ \A k \in 1 .. r : at[k] # 0 => to[at[k]] = 0
    /\ gone \/ (~lost /\ \A k \in r + 1 .. Len(u) : to[at[k]] # 0)

\* Then the frames are still where they should be.
LEMMA Carried ==
    ASSUME NEW s \in Units, NEW t \in Units, NEW u, NEW at, NEW lost \in BOOLEAN,
           Layout(s, u, at, lost), Len(u) \in Nat,
           NEW r, NEW v, NEW to, NEW gone \in BOOLEAN,
           Carries(s, u, at, lost, t, r, v, gone, to)
    PROVE  \E now : Layout(t, v, now, gone)
  <1>. DEFINE now == [k \in 1 .. Len(v) |-> IF at[k + r] = 0 THEN 0 ELSE to[at[k + r]]]
  <1>1. Placed(s, u, at) /\ Ordered(s, u, at) /\ Covered(s, u, at) /\ (lost \/ Whole(s, u, at))
    BY DEF Layout
  <1>. USE DEF Carries
  <1>2. Len(v) \in Nat /\ r \in Nat
    OBVIOUS
  <1>3. ASSUME NEW k \in 1 .. Len(v)
        PROVE  /\ k + r \in 1 .. Len(u) /\ k + r \in r + 1 .. Len(u) /\ k \in Nat
               /\ v[k] = u[k + r] /\ at[k + r] \in Nat
               /\ at[k + r] # 0 => at[k + r] \in FramesIn(s) /\ FrameOf(s, at[k + r]) = v[k].frame
               /\ now[k] = IF at[k + r] = 0 THEN 0 ELSE to[at[k + r]]
               /\ now[k] \in Nat
    <2>1. k + r \in 1 .. Len(u) /\ k + r \in r + 1 .. Len(u) /\ k \in Nat
      BY <1>2
    <2>2. v[k] = u[k + r]
      OBVIOUS
    <2>3. /\ at[k + r] \in Nat
          /\ at[k + r] # 0 => at[k + r] \in FramesIn(s) /\ FrameOf(s, at[k + r]) = u[k + r].frame
      BY <1>1, <2>1 DEF Placed
    <2>4. now[k] = IF at[k + r] = 0 THEN 0 ELSE to[at[k + r]]
      OBVIOUS
    <2>. HIDE DEF now
    <2>. QED  BY <2>1, <2>2, <2>3, <2>4
  <1>4. now \in [1 .. Len(v) -> Nat]
    BY <1>3
  <1>. HIDE DEF now
  <1>5. Placed(t, v, now)
    <2>1. ASSUME NEW k \in 1 .. Len(v), now[k] # 0
          PROVE  now[k] \in FramesIn(t) /\ FrameOf(t, now[k]) = v[k].frame
      BY <1>3, <2>1
    <2>. QED  BY <1>4, <2>1 DEF Placed
  <1>6. Ordered(t, v, now)
    <2>1. ASSUME NEW j \in 1 .. Len(v), NEW k \in 1 .. Len(v), j < k, now[j] # 0, now[k] # 0
          PROVE  EndOf(t, now[j]) < now[k]
      <3>1. j + r < k + r
        BY <1>2, <2>1
      <3>2. at[j + r] # 0 /\ at[k + r] # 0 /\ now[j] = to[at[j + r]] /\ now[k] = to[at[k + r]]
        BY <1>3, <2>1
      <3>3. EndOf(s, at[j + r]) < at[k + r]
        BY <1>1, <1>3, <3>1, <3>2 DEF Ordered
      <3>. QED  BY <1>3, <2>1, <3>2, <3>3
    <2>. QED  BY <2>1 DEF Ordered
  <1>7. Covered(t, v, now)
    <2>1. ASSUME NEW j \in FramesIn(t), Decodable(FrameOf(t, j))
          PROVE  \E k \in 1 .. Len(v) : now[k] = j
      <3>1. PICK i \in FramesIn(s) : to[i] = j
        BY <2>1
      <3>2. j # 0 /\ i # 0
        BY FrameOfUnits
      <3>3. Decodable(FrameOf(s, i))
        BY <2>1, <3>1, <3>2
      <3>4. PICK k \in 1 .. Len(u) : at[k] = i
        BY <1>1, <3>3 DEF Covered
      <3>5. k \notin 1 .. r
        BY <3>1, <3>2, <3>4
      <3>6. k - r \in 1 .. Len(v) /\ (k - r) + r = k
        BY <1>2, <3>5
      <3>7. now[k - r] = j
        BY <1>3, <3>1, <3>2, <3>4, <3>6
      <3>. QED  BY <3>6, <3>7
    <2>. QED  BY <2>1 DEF Covered
  <1>8. ASSUME ~gone  PROVE Whole(t, v, now)
    <2>1. Whole(s, u, at) /\ \A k \in r + 1 .. Len(u) : to[at[k]] # 0
      BY <1>1, <1>8
    <2>2. ASSUME NEW k \in 1 .. Len(v)
          PROVE  /\ at[k + r] # 0 /\ now[k] # 0 /\ now[k] = to[at[k + r]]
                 /\ at[k + r] \in FramesIn(s)
      BY <1>3, <2>1 DEF Whole
    <2>3. ASSUME NEW k \in 1 .. Len(v), NEW j \in FramesIn(t), j # now[k]
          PROVE  EndOf(t, j) < now[k] \/ EndOf(t, now[k]) < j
      <3>1. CASE \E i \in FramesIn(s) : to[i] = j
        <4>1. PICK i \in FramesIn(s) : to[i] = j
          BY <3>1
        <4>2. j # 0 /\ i # at[k + r]
          BY <2>2, <2>3, <4>1, FrameOfUnits
        <4>3. EndOf(s, i) < at[k + r] \/ EndOf(s, at[k + r]) < i
          BY <1>3, <2>1, <4>2 DEF Whole
        <4>. QED  BY <2>2, <4>1, <4>2, <4>3
      <3>2. CASE ~(\E i \in FramesIn(s) : to[i] = j)
        BY <1>8, <2>2, <3>2
      <3>. QED  BY <3>1, <3>2
    <2>. QED  BY <2>2, <2>3 DEF Whole
  <1>9. Layout(t, v, now, gone)
    BY <1>5, <1>6, <1>7, <1>8 DEF Layout
  <1>. QED  BY <1>9

\* The frames of a first part are frames of the whole, and the other way
\* round those of the whole that end in it.
LEMMA InFront ==
    ASSUME NEW s \in Units, NEW x \in Units, NEW t \in Units, IsJoin(t, s, x)
    PROVE  /\ \A i \in FramesIn(s) :
                 i \in FramesIn(t) /\ EndOf(t, i) = EndOf(s, i) /\ FrameOf(t, i) = FrameOf(s, i)
           /\ \A i \in FramesIn(t) : EndOf(t, i) <= Len(s) =>
                 i \in FramesIn(s) /\ EndOf(t, i) = EndOf(s, i) /\ FrameOf(t, i) = FrameOf(s, i)
  <1>1. Len(t) = Len(s) + Len(x) /\ \A i \in 1 .. Len(s) : t[i] = s[i]
    BY Joined
  <1>2. Len(s) \in Nat /\ Len(x) \in Nat
    BY Items DEF Units
  <1>3. ASSUME NEW i \in FramesIn(s)
        PROVE  i \in FramesIn(t) /\ EndOf(t, i) = EndOf(s, i) /\ FrameOf(t, i) = FrameOf(s, i)
    <2>1. i \in Nat \ {0} /\ EndOf(s, i) \in Nat /\ i < EndOf(s, i) /\ EndOf(s, i) <= Len(s)
      BY FrameOfUnits
    <2>. DEFINE d == 0
    <2>2. \A j \in i .. EndOf(s, i) : j + d = j /\ j \in 1 .. Len(s)
      BY <1>2, <2>1
    <2>3. \A j \in i .. EndOf(s, i) : t[j + d] = s[j]
      BY <1>1, <2>2
    <2>4. /\ i + d >= 1 /\ EndOf(s, i) + d <= Len(t)
          /\ i + d = i /\ EndOf(s, i) + d = EndOf(s, i)
          /\ d \in Int
      BY <1>1, <1>2, <2>1
    <2>. HIDE DEF d
    <2>5. /\ i + d \in FramesIn(t) /\ EndOf(t, i + d) = EndOf(s, i) + d
          /\ SubSeq(t, i + d, EndOf(t, i + d)) = SubSeq(s, i, EndOf(s, i))
      BY <2>3, <2>4, FrameMoves
    <2>. QED  BY <2>4, <2>5 DEF FrameOf
  <1>4. ASSUME NEW i \in FramesIn(t), EndOf(t, i) <= Len(s)
        PROVE  i \in FramesIn(s) /\ EndOf(t, i) = EndOf(s, i) /\ FrameOf(t, i) = FrameOf(s, i)
    <2>1. i \in Nat \ {0} /\ EndOf(t, i) \in Nat /\ i < EndOf(t, i)
      BY FrameOfUnits
    <2>. DEFINE d == 0
    <2>2. \A j \in i .. EndOf(t, i) : j + d = j /\ j \in 1 .. Len(s)
      BY <1>2, <1>4, <2>1
    <2>3. \A j \in i .. EndOf(t, i) : s[j + d] = t[j]
      BY <1>1, <2>2
    <2>4. /\ i + d >= 1 /\ EndOf(t, i) + d <= Len(s)
          /\ i + d = i /\ EndOf(t, i) + d = EndOf(t, i)
          /\ d \in Int
      BY <1>4, <2>1
    <2>. HIDE DEF d
    <2>5. /\ i + d \in FramesIn(s) /\ EndOf(s, i + d) = EndOf(t, i) + d
          /\ SubSeq(s, i + d, EndOf(s, i + d)) = SubSeq(t, i, EndOf(t, i))
      BY <2>3, <2>4, FrameMoves
    <2>. QED  BY <2>4, <2>5 DEF FrameOf
  <1>. QED  BY <1>3, <1>4

\* The frames of a last part are frames of the whole, and the other way
\* round those of the whole that begin in it.
LEMMA Behind ==
    ASSUME NEW s \in Units, NEW x \in Units, NEW t \in Units, IsJoin(t, s, x)
    PROVE  /\ \A i \in FramesIn(x) :
                 /\ i + Len(s) \in FramesIn(t) /\ EndOf(t, i + Len(s)) = EndOf(x, i) + Len(s)
                 /\ FrameOf(t, i + Len(s)) = FrameOf(x, i)
           /\ \A i \in FramesIn(t) : i > Len(s) =>
                 /\ i - Len(s) \in FramesIn(x) /\ EndOf(x, i - Len(s)) = EndOf(t, i) - Len(s)
                 /\ FrameOf(x, i - Len(s)) = FrameOf(t, i)
  <1>. DEFINE n == Len(s)
  <1>1. Len(t) = n + Len(x) /\ \A i \in 1 .. Len(x) : t[n + i] = x[i]
    BY Joined
  <1>2. n \in Nat /\ Len(x) \in Nat /\ Len(t) \in Nat /\ n \in Int /\ 0 - n \in Int
    BY Items DEF Units
  <1>. HIDE DEF n
  <1>3. ASSUME NEW i \in FramesIn(x)
        PROVE  /\ i + n \in FramesIn(t) /\ EndOf(t, i + n) = EndOf(x, i) + n
               /\ FrameOf(t, i + n) = FrameOf(x, i)
    <2>1. i \in Nat \ {0} /\ EndOf(x, i) \in Nat /\ i < EndOf(x, i) /\ EndOf(x, i) <= Len(x)
      BY FrameOfUnits
    <2>2. \A j \in i .. EndOf(x, i) : j + n = n + j /\ j \in 1 .. Len(x)
      BY <1>2, <2>1
    <2>3. \A j \in i .. EndOf(x, i) : t[j + n] = x[j]
      BY <1>1, <2>2
    <2>4. i + n >= 1 /\ EndOf(x, i) + n <= Len(t)
      BY <1>1, <1>2, <2>1
    <2>5. /\ i + n \in FramesIn(t) /\ EndOf(t, i + n) = EndOf(x, i) + n
          /\ SubSeq(t, i + n, EndOf(t, i + n)) = SubSeq(x, i, EndOf(x, i))
      BY <1>2, <2>3, <2>4, FrameMoves
    <2>. QED  BY <2>5 DEF FrameOf
  <1>4. ASSUME NEW i \in FramesIn(t), i > n
        PROVE  /\ i - n \in FramesIn(x) /\ EndOf(x, i - n) = EndOf(t, i) - n
               /\ FrameOf(x, i - n) = FrameOf(t, i)
    <2>1. i \in Nat \ {0} /\ EndOf(t, i) \in Nat /\ i < EndOf(t, i) /\ EndOf(t, i) <= Len(t)
      BY FrameOfUnits
    <2>. DEFINE d == 0 - n
    <2>2. \A j \in i .. EndOf(t, i) : j + d \in 1 .. Len(x) /\ n + (j + d) = j
      BY <1>1, <1>2, <1>4, <2>1
    <2>3. /\ i + d >= 1 /\ EndOf(t, i) + d <= Len(x) /\ d \in Int
          /\ i + d = i - n /\ EndOf(t, i) + d = EndOf(t, i) - n
      BY <1>1, <1>2, <1>4, <2>1
    <2>. HIDE DEF d
    <2>4. \A j \in i .. EndOf(t, i) : x[j + d] = t[j]
      BY <1>1, <2>2
    <2>5. /\ i + d \in FramesIn(x) /\ EndOf(x, i + d) = EndOf(t, i) + d
          /\ SubSeq(x, i + d, EndOf(x, i + d)) = SubSeq(t, i, EndOf(t, i))
      BY <2>3, <2>4, FrameMoves
    <2>. QED  BY <2>3, <2>5 DEF FrameOf
  <1>. QED  BY <1>3, <1>4 DEF n

\* A frame written undamaged comes last.
LEMMA Appended ==
    ASSUME NEW s \in Units, NEW x \in Units, NEW t \in Units, IsJoin(t, s, x),
           1 \in FramesIn(x), EndOf(x, 1) = Len(x),
           NEW u, NEW v, Len(u) \in Nat, Len(v) = Len(u) + 1,
           \A k \in 1 .. Len(u) : v[k] = u[k], v[Len(u) + 1].frame = x,
           NEW at, NEW lost \in BOOLEAN, Layout(s, u, at, lost),
           \A i \in FramesIn(t) : EndOf(t, i) > Len(s) => i = Len(s) + 1
    PROVE  \E now : Layout(t, v, now, lost)
  <1>. DEFINE n == Len(u)
              p == Len(s) + 1
              now == [k \in 1 .. Len(v) |-> IF k <= n THEN at[k] ELSE p]
  <1>1. Placed(s, u, at) /\ Ordered(s, u, at) /\ Covered(s, u, at) /\ (lost \/ Whole(s, u, at))
    BY DEF Layout
  <1>2. Len(s) \in Nat /\ n \in Nat /\ Len(v) = n + 1 /\ x \in Seq(Nat)
    BY Items DEF Units
  <1>3. p \in FramesIn(t) /\ FrameOf(t, p) = v[n + 1].frame
    <2>1. 1 + Len(s) \in FramesIn(t) /\ FrameOf(t, 1 + Len(s)) = FrameOf(x, 1)
      BY Behind
    <2>2. FrameOf(x, 1) = x
      BY <1>2, SubSeqFull DEF FrameOf
    <2>3. 1 + Len(s) = p
      BY <1>2
    <2>. QED  BY <2>1, <2>2, <2>3
  <1>4. \A i \in FramesIn(s) :
            /\ i \in FramesIn(t) /\ EndOf(t, i) = EndOf(s, i) /\ FrameOf(t, i) = FrameOf(s, i)
            /\ i \in Nat \ {0} /\ EndOf(s, i) \in Nat /\ EndOf(s, i) < p
    BY <1>2, InFront, FrameOfUnits, SMTT(30)
  <1>5. \A i \in FramesIn(t) : i = p \/ i \in FramesIn(s)
    <2>1. ASSUME NEW i \in FramesIn(t), i # p  PROVE i \in FramesIn(s)
      <3>1. EndOf(t, i) \in Nat /\ ~(EndOf(t, i) > Len(s))
        BY <2>1, FrameOfUnits
      <3>2. EndOf(t, i) <= Len(s)
        BY <1>2, <3>1
      <3>. QED  BY <3>2, InFront
    <2>. QED  BY <2>1
  <1>6. ASSUME NEW k \in 1 .. n
        PROVE  /\ k \in 1 .. Len(v) /\ now[k] = at[k] /\ at[k] \in Nat /\ v[k] = u[k]
               /\ at[k] # 0 => at[k] \in FramesIn(s) /\ FrameOf(s, at[k]) = u[k].frame
    <2>1. k \in 1 .. Len(v) /\ k <= n
      BY <1>2
    <2>2. now[k] = at[k]
      BY <2>1
    <2>. HIDE DEF now
    <2>. QED  BY <1>1, <2>1, <2>2 DEF Placed
  <1>7. n + 1 \in 1 .. Len(v) /\ now[n + 1] = p
    <2>1. n + 1 \in 1 .. Len(v) /\ ~(n + 1 <= n)
      BY <1>2
    <2>. QED  BY <2>1
  <1>8. \A k \in 1 .. Len(v) : k \in 1 .. n \/ k = n + 1
    BY <1>2
  <1>9. now \in [1 .. Len(v) -> Nat]
    <2>1. p \in Nat
      BY <1>2
    <2>2. ASSUME NEW k \in 1 .. Len(v)  PROVE (IF k <= n THEN at[k] ELSE p) \in Nat
      <3>1. CASE k \in 1 .. n
        <4>1. at[k] \in Nat
          BY <1>6, <3>1
        <4>. HIDE DEF p
        <4>. QED  BY <2>1, <4>1
      <3>2. CASE k = n + 1
        <4>. HIDE DEF p
        <4>. QED  BY <1>2, <2>1, <3>2
      <3>. QED  BY <1>8, <3>1, <3>2
    <2>. QED  BY <2>2
  <1>. HIDE DEF now, p, n
  <1>10. Placed(t, v, now)
    BY <1>3, <1>4, <1>6, <1>7, <1>8, <1>9 DEF Placed
  <1>11. Ordered(t, v, now)
    <2>1. ASSUME NEW j \in 1 .. Len(v), NEW k \in 1 .. Len(v), j < k, now[j] # 0, now[k] # 0
          PROVE  EndOf(t, now[j]) < now[k]
      <3>1. j \in 1 .. n
        BY <1>2, <1>8, <2>1
      <3>2. now[j] = at[j] /\ at[j] \in FramesIn(s)
        BY <1>6, <2>1, <3>1
      <3>3. CASE k \in 1 .. n
        BY <1>1, <1>4, <1>6, <2>1, <3>1, <3>2, <3>3 DEF Ordered, n
      <3>4. CASE k = n + 1
        BY <1>4, <1>7, <3>2, <3>4
      <3>. QED  BY <1>8, <3>3, <3>4
    <2>. QED  BY <2>1 DEF Ordered
  <1>12. Covered(t, v, now)
    <2>1. ASSUME NEW i \in FramesIn(s), Decodable(FrameOf(t, i))
          PROVE  \E k \in 1 .. Len(v) : now[k] = i
      <3>1. Decodable(FrameOf(s, i))
        BY <1>4, <2>1
      <3>2. PICK k \in 1 .. n : at[k] = i
        BY <1>1, <3>1 DEF Covered, n
      <3>. QED  BY <1>6, <3>2
    <2>. QED  BY <1>5, <1>7, <2>1 DEF Covered
  <1>13. ASSUME ~lost  PROVE Whole(t, v, now)
    <2>1. \A k \in 1 .. n : at[k] # 0 /\ at[k] \in FramesIn(s)
      BY <1>1, <1>6, <1>13 DEF Whole, n
    <2>2. p \in Nat /\ p # 0
      BY <1>2 DEF p
    <2>3. \A k \in 1 .. Len(v) : now[k] # 0
      BY <1>6, <1>7, <1>8, <2>1, <2>2
    <2>4. ASSUME NEW k \in 1 .. Len(v), NEW i \in FramesIn(t), i # now[k]
          PROVE  EndOf(t, i) < now[k] \/ EndOf(t, now[k]) < i
      <3>1. CASE k \in 1 .. n /\ i \in FramesIn(s)
        <4>1. now[k] = at[k] /\ EndOf(t, i) = EndOf(s, i) /\ EndOf(t, at[k]) = EndOf(s, at[k])
          BY <1>4, <1>6, <2>1, <3>1
        <4>2. EndOf(s, i) < at[k] \/ EndOf(s, at[k]) < i
          BY <1>1, <1>13, <2>4, <3>1, <4>1 DEF Whole, n
        <4>. QED  BY <4>1, <4>2
      <3>2. CASE k \in 1 .. n /\ i = p
        BY <1>4, <1>6, <2>1, <3>2
      <3>3. CASE k = n + 1
        BY <1>4, <1>5, <1>7, <2>4, <3>3
      <3>. QED  BY <1>5, <1>8, <3>1, <3>2, <3>3
    <2>. QED  BY <2>3, <2>4 DEF Whole
  <1>14. Layout(t, v, now, lost)
    BY <1>10, <1>11, <1>12, <1>13 DEF Layout
  <1>. QED  BY <1>14

\* What is written damaged, or by others, completes nothing that decodes.
LEMMA Littered ==
    ASSUME NEW s \in Units, NEW x \in Units, NEW t \in Units, IsJoin(t, s, x),
           NEW u, Len(u) \in Nat, NEW at, NEW lost \in BOOLEAN, Layout(s, u, at, lost),
           \A i \in FramesIn(t) : EndOf(t, i) > Len(s) =>
               i > Len(s) /\ ~Decodable(FrameOf(t, i))
    PROVE  \E now : Layout(t, u, now, lost)
  <1>. DEFINE to == [i \in FramesIn(s) |-> i]
  <1>1. Len(s) \in Nat
    BY Items DEF Units
  <1>2. \A i \in FramesIn(s) :
            /\ i \in FramesIn(t) /\ EndOf(t, i) = EndOf(s, i) /\ FrameOf(t, i) = FrameOf(s, i)
            /\ i \in Nat \ {0} /\ EndOf(s, i) \in Nat /\ EndOf(s, i) <= Len(s) /\ to[i] = i
    BY InFront, FrameOfUnits
  <1>3. to \in [FramesIn(s) -> Nat]
    BY <1>2
  <1>. HIDE DEF to
  <1>4. ASSUME NEW j \in FramesIn(t)
        PROVE  \/ \E i \in FramesIn(s) : to[i] = j
               \/ /\ ~Decodable(FrameOf(t, j))
                  /\ lost \/ \A i \in FramesIn(s) : to[i] # 0 => EndOf(t, to[i]) < j
    <2>1. EndOf(t, j) \in Nat /\ j \in Nat
      BY FrameOfUnits
    <2>2. CASE EndOf(t, j) <= Len(s)
      BY <1>2, <2>2, InFront
    <2>3. CASE EndOf(t, j) > Len(s)
      <3>1. j > Len(s) /\ ~Decodable(FrameOf(t, j))
        BY <2>3
      <3>. QED  BY <1>1, <1>2, <2>1, <3>1
    <2>. QED  BY <1>1, <2>1, <2>2, <2>3
  <1>5. \A i \in FramesIn(s) : to[i] # 0 => to[i] \in FramesIn(t) /\ FrameOf(t, to[i]) = FrameOf(s, i)
    BY <1>2
  <1>6. \A i, j \in FramesIn(s) : to[i] # 0 /\ to[j] # 0 /\ EndOf(s, i) < j => EndOf(t, to[i]) < to[j]
    BY <1>2
  <1>7. lost \/ (~lost /\ \A k \in 0 + 1 .. Len(u) : to[at[k]] # 0)
    <2>1. ASSUME ~lost, NEW k \in 0 + 1 .. Len(u)  PROVE to[at[k]] # 0
      <3>1. k \in 1 .. Len(u)
        OBVIOUS
      <3>2. at[k] \in FramesIn(s)
        BY <2>1, <3>1 DEF Layout, Placed, Whole
      <3>. QED  BY <1>2, <3>2
    <2>. QED  BY <2>1
  <1>8. /\ 0 \in 0 .. Len(u) /\ Len(u) = Len(u) - 0 /\ \A k \in 1 .. Len(u) : u[k] = u[k + 0]
        /\ \A k \in 1 .. 0 : at[k] # 0 => to[at[k]] = 0
    OBVIOUS
  <1>. DEFINE r == 0
  <1>9. /\ r \in 0 .. Len(u) /\ Len(u) = Len(u) - r /\ \A k \in 1 .. Len(u) : u[k] = u[k + r]
        /\ \A k \in 1 .. r : at[k] # 0 => to[at[k]] = 0
        /\ lost \/ (~lost /\ \A k \in r + 1 .. Len(u) : to[at[k]] # 0)
    BY <1>7, <1>8
  <1>. HIDE DEF r
  <1>10. Carries(s, u, at, lost, t, r, u, lost, to)
    BY <1>3, <1>4, <1>5, <1>6, <1>9 DEF Carries
  <1>. QED  BY <1>10, Carried

\* A chunk between b and rest is lost, and no frame that decodes takes its
\* place.
Loses(s, b, chunk, rest, t) ==
    /\ b \in Units /\ chunk \in Units /\ rest \in Units /\ s \in Units /\ t \in Units
    /\ IsJoin(t, b, rest)
    /\ \E front \in Units : IsJoin(front, b, chunk) /\ IsJoin(s, front, rest)
    /\ \E all \in Units : IsJoin(s, b, all)
    /\ \A i \in FramesIn(t) : i <= Len(b) /\ EndOf(t, i) > Len(b) => ~Decodable(FrameOf(t, i))

\* With a chunk the frames are lost that have units in it.
LEMMA Lost ==
    ASSUME NEW s, NEW b, NEW chunk, NEW rest, NEW t, Loses(s, b, chunk, rest, t),
           NEW u, Len(u) \in Nat, NEW at, NEW lost \in BOOLEAN, Layout(s, u, at, lost)
    PROVE  \E now : Placed(t, u, now) /\ Ordered(t, u, now) /\ Covered(t, u, now)
  <1>. USE DEF Loses
  <1>a. PICK front \in Units : IsJoin(front, b, chunk) /\ IsJoin(s, front, rest)
    OBVIOUS
  <1>b. PICK all \in Units : IsJoin(s, b, all)
    OBVIOUS
  <1>. DEFINE n == Len(b)
              m == Len(front)
              to == [i \in FramesIn(s) |->
                        IF EndOf(s, i) <= n THEN i ELSE IF i > m THEN (i - m) + n ELSE 0]
  <1>1. n \in Nat /\ m \in Nat /\ n <= m
    <2>1. n \in Nat /\ Len(chunk) \in Nat
      BY Items DEF Units
    <2>2. m = n + Len(chunk)
      BY <1>a, Joined
    <2>. HIDE DEF n, m
    <2>. QED  BY <2>1, <2>2
  <1>2. \A i \in FramesIn(s) : to[i] = IF EndOf(s, i) <= n THEN i ELSE IF i > m THEN (i - m) + n ELSE 0
    OBVIOUS
  <1>. HIDE DEF to
  <1>3. ASSUME NEW i \in FramesIn(s)
        PROVE  /\ i \in Nat \ {0} /\ EndOf(s, i) \in Nat /\ i < EndOf(s, i) /\ to[i] \in Nat
               /\ EndOf(s, i) <= n => /\ to[i] = i /\ to[i] \in FramesIn(t)
                                      /\ EndOf(t, to[i]) = EndOf(s, i)
                                      /\ FrameOf(t, to[i]) = FrameOf(s, i)
               /\ i > m => /\ to[i] = (i - m) + n /\ to[i] \in FramesIn(t)
                           /\ EndOf(t, to[i]) = (EndOf(s, i) - m) + n
                           /\ FrameOf(t, to[i]) = FrameOf(s, i)
               /\ to[i] # 0 => EndOf(s, i) <= n \/ i > m
    <2>1. i \in Nat \ {0} /\ EndOf(s, i) \in Nat /\ i < EndOf(s, i)
      BY FrameOfUnits
    <2>2. to[i] \in Nat
      <3>. HIDE DEF n, m
      <3>. QED  BY <1>1, <1>2, <2>1
    <2>3. ASSUME EndOf(s, i) <= n
          PROVE  /\ to[i] = i /\ to[i] \in FramesIn(t)
                 /\ EndOf(t, to[i]) = EndOf(s, i) /\ FrameOf(t, to[i]) = FrameOf(s, i)
      <3>1. i \in FramesIn(b) /\ EndOf(s, i) = EndOf(b, i) /\ FrameOf(s, i) = FrameOf(b, i)
        BY <1>b, <2>3, InFront
      <3>2. i \in FramesIn(t) /\ EndOf(t, i) = EndOf(b, i) /\ FrameOf(t, i) = FrameOf(b, i)
        BY <1>b, <3>1, InFront
      <3>. QED  BY <1>2, <2>3, <3>1, <3>2
    <2>4. ASSUME i > m
          PROVE  /\ to[i] = (i - m) + n /\ to[i] \in FramesIn(t)
                 /\ EndOf(t, to[i]) = (EndOf(s, i) - m) + n /\ FrameOf(t, to[i]) = FrameOf(s, i)
      <3>1. /\ i - m \in FramesIn(rest) /\ EndOf(rest, i - m) = EndOf(s, i) - m
            /\ FrameOf(rest, i - m) = FrameOf(s, i)
        BY <1>a, <2>4, Behind
      <3>2. /\ (i - m) + n \in FramesIn(t) /\ EndOf(t, (i - m) + n) = EndOf(rest, i - m) + n
            /\ FrameOf(t, (i - m) + n) = FrameOf(rest, i - m)
        BY <1>a, <3>1, Behind
      <3>3. ~(EndOf(s, i) <= n)
        <4>. HIDE DEF n, m
        <4>. QED  BY <1>1, <2>1, <2>4
      <3>4. to[i] = (i - m) + n
        BY <1>2, <2>4, <3>3
      <3>. QED  BY <3>1, <3>2, <3>4
    <2>5. to[i] # 0 => EndOf(s, i) <= n \/ i > m
      BY <1>2
    <2>. HIDE DEF n, m
    <2>. QED  BY <2>1, <2>2, <2>3, <2>4, <2>5
  <1>4. to \in [FramesIn(s) -> Nat]
    <2>1. to = [i \in FramesIn(s) |-> to[i]]
      BY DEF to
    <2>. QED  BY <1>3, <2>1
  <1>5. ASSUME NEW i \in FramesIn(s), NEW j \in FramesIn(s), to[i] # 0, to[j] # 0, EndOf(s, i) < j
        PROVE  EndOf(t, to[i]) < to[j]
    <2>. HIDE DEF n, m
    <2>1. i \in Nat /\ j \in Nat /\ EndOf(s, i) \in Nat /\ EndOf(s, j) \in Nat /\ j < EndOf(s, j) /\ i < EndOf(s, i)
      BY <1>3
    <2>2. CASE EndOf(s, i) <= n /\ EndOf(s, j) <= n
      BY <1>3, <1>5, <2>2
    <2>3. CASE EndOf(s, i) <= n /\ j > m
      <3>1. EndOf(t, to[i]) = EndOf(s, i) /\ to[j] = (j - m) + n
        BY <1>3, <2>3
      <3>. QED  BY <1>1, <2>1, <2>3, <3>1
    <2>4. CASE i > m /\ j > m
      <3>1. EndOf(t, to[i]) = (EndOf(s, i) - m) + n /\ to[j] = (j - m) + n
        BY <1>3, <2>4
      <3>. QED  BY <1>1, <1>5, <2>1, <2>4, <3>1
    <2>5. CASE i > m /\ EndOf(s, j) <= n
      BY <1>1, <1>5, <2>1, <2>5
    <2>. QED  BY <1>3, <1>5, <2>2, <2>3, <2>4, <2>5
  <1>6. ASSUME NEW j \in FramesIn(t)
        PROVE  \/ \E i \in FramesIn(s) : to[i] = j
               \/ /\ ~Decodable(FrameOf(t, j))
                  /\ TRUE \/ \A i \in FramesIn(s) : to[i] # 0 => EndOf(t, to[i]) < j
    <2>1. j \in Nat /\ EndOf(t, j) \in Nat
      BY FrameOfUnits
    <2>2. CASE EndOf(t, j) <= n
      <3>1. j \in FramesIn(b) /\ EndOf(t, j) = EndOf(b, j)
        BY <1>b, <2>2, InFront
      <3>2. j \in FramesIn(s) /\ EndOf(s, j) = EndOf(b, j)
        BY <1>b, <3>1, InFront
      <3>3. EndOf(s, j) <= n
        BY <2>2, <3>1, <3>2
      <3>. QED  BY <1>3, <3>2, <3>3
    <2>3. CASE j > n
      <3>1. j - n \in FramesIn(rest)
        BY <1>a, <2>3, Behind
      <3>2. (j - n) + m \in FramesIn(s)
        BY <1>a, <3>1, Behind
      <3>3. (j - n) + m > m /\ (((j - n) + m) - m) + n = j
        <4>. HIDE DEF n, m
        <4>. QED  BY <1>1, <2>1, <2>3
      <3>4. to[(j - n) + m] = j
        BY <1>3, <3>2, <3>3
      <3>. QED  BY <3>2, <3>4
    <2>4. CASE j <= n /\ EndOf(t, j) > n
      BY <2>4
    <2>. HIDE DEF n
    <2>. QED  BY <1>1, <2>1, <2>2, <2>3, <2>4
  <1>7. \A i \in FramesIn(s) : to[i] # 0 => to[i] \in FramesIn(t) /\ FrameOf(t, to[i]) = FrameOf(s, i)
    BY <1>3
  <1>. DEFINE r == 0
              gone == TRUE
  <1>8. /\ r \in 0 .. Len(u) /\ Len(u) = Len(u) - r /\ \A k \in 1 .. Len(u) : u[k] = u[k + r]
        /\ \A k \in 1 .. r : at[k] # 0 => to[at[k]] = 0
        /\ gone \in BOOLEAN
        /\ gone \/ (~lost /\ \A k \in r + 1 .. Len(u) : to[at[k]] # 0)
    OBVIOUS
  <1>9. \A j \in FramesIn(t) :
            \/ \E i \in FramesIn(s) : to[i] = j
            \/ /\ ~Decodable(FrameOf(t, j))
               /\ gone \/ \A i \in FramesIn(s) : to[i] # 0 => EndOf(t, to[i]) < j
    BY <1>6
  <1>10. \E now : Layout(t, u, now, gone)
    <2>1. \A i, j \in FramesIn(s) : to[i] # 0 /\ to[j] # 0 /\ EndOf(s, i) < j =>
              EndOf(t, to[i]) < to[j]
      BY <1>5
    <2>2. Carries(s, u, at, lost, t, r, u, gone, to)
      <3>. HIDE DEF r, gone, n, m
      <3>. QED  BY <1>4, <1>7, <1>8, <1>9, <2>1 DEF Carries
    <2>3. gone \in BOOLEAN
      OBVIOUS
    <2>. HIDE DEF r, gone, n, m
    <2>. QED  BY <2>2, <2>3, Carried, Zenon
  <1>. QED  BY <1>10 DEF Layout

\* The scan has gone past a first part, and done with the first r.
LEMMA Passed ==
    ASSUME NEW p \in Units, NEW t \in Units, NEW s \in Units, IsJoin(s, p, t),
           NEW u, Len(u) \in Nat, NEW at, NEW lost \in BOOLEAN, Layout(s, u, at, lost),
           NEW r \in 0 .. Len(u), NEW v, Len(v) = Len(u) - r,
           \A k \in 1 .. Len(v) : v[k] = u[k + r],
           \A k \in 1 .. r : at[k] <= Len(p),
           lost \/ \A k \in r + 1 .. Len(u) : at[k] > Len(p)
    PROVE  \E now : Layout(t, v, now, lost)
  <1>. DEFINE c == Len(p)
              to == [i \in FramesIn(s) |-> IF i > c THEN i - c ELSE 0]
  <1>1. c \in Nat
    BY Items DEF Units
  <1>2. \A i \in FramesIn(s) : to[i] = IF i > c THEN i - c ELSE 0
    OBVIOUS
  <1>. HIDE DEF to
  <1>3. ASSUME NEW i \in FramesIn(s)
        PROVE  /\ i \in Nat \ {0} /\ EndOf(s, i) \in Nat /\ to[i] \in Nat /\ (to[i] # 0 <=> i > c)
               /\ i > c => /\ to[i] = i - c /\ to[i] \in FramesIn(t)
                           /\ EndOf(t, to[i]) = EndOf(s, i) - c /\ FrameOf(t, to[i]) = FrameOf(s, i)
    <2>1. i \in Nat \ {0} /\ EndOf(s, i) \in Nat
      BY FrameOfUnits
    <2>2. i > c => /\ i - c \in FramesIn(t)
                   /\ EndOf(t, i - c) = EndOf(s, i) - c /\ FrameOf(t, i - c) = FrameOf(s, i)
      BY Behind
    <2>. HIDE DEF c
    <2>. QED  BY <1>1, <1>2, <2>1, <2>2
  <1>4. to \in [FramesIn(s) -> Nat]
    <2>1. to = [i \in FramesIn(s) |-> to[i]]
      BY DEF to
    <2>. QED  BY <1>3, <2>1
  <1>5. ASSUME NEW j \in FramesIn(t)  PROVE \E i \in FramesIn(s) : to[i] = j
    <2>1. j \in Nat \ {0} /\ j + c \in FramesIn(s)
      BY Behind, FrameOfUnits
    <2>2. j + c > c /\ (j + c) - c = j
      <3>. HIDE DEF c
      <3>. QED  BY <1>1, <2>1
    <2>3. to[j + c] = j
      BY <1>2, <2>1, <2>2
    <2>. QED  BY <2>1, <2>3
  <1>. HIDE DEF c
  <1>6. \A i, j \in FramesIn(s) : to[i] # 0 /\ to[j] # 0 /\ EndOf(s, i) < j => EndOf(t, to[i]) < to[j]
    BY <1>1, <1>3
  <1>7. ASSUME NEW k \in 1 .. Len(u)
        PROVE  at[k] \in Nat /\ (at[k] # 0 => at[k] \in FramesIn(s))
    BY DEF Layout, Placed
  <1>8. ASSUME NEW k \in 1 .. r, at[k] # 0  PROVE to[at[k]] = 0
    <2>1. k \in 1 .. Len(u)
      OBVIOUS
    <2>2. at[k] \in FramesIn(s) /\ ~(at[k] > c)
      BY <1>1, <1>7, <1>8, <2>1 DEF c
    <2>. QED  BY <1>2, <2>2
  <1>9. ASSUME ~lost, NEW k \in r + 1 .. Len(u)  PROVE to[at[k]] # 0
    <2>1. k \in 1 .. Len(u)
      OBVIOUS
    <2>2. at[k] > c
      BY <1>9 DEF c
    <2>3. at[k] \in FramesIn(s)
      BY <1>1, <1>7, <2>1, <2>2
    <2>. QED  BY <1>3, <2>2, <2>3
  <1>10. \A i \in FramesIn(s) : to[i] # 0 => to[i] \in FramesIn(t) /\ FrameOf(t, to[i]) = FrameOf(s, i)
    BY <1>3
  <1>11. \A j \in FramesIn(t) :
            \/ \E i \in FramesIn(s) : to[i] = j
            \/ /\ ~Decodable(FrameOf(t, j))
               /\ lost \/ \A i \in FramesIn(s) : to[i] # 0 => EndOf(t, to[i]) < j
    BY <1>5
  <1>12. lost \/ (~lost /\ \A k \in r + 1 .. Len(u) : to[at[k]] # 0)
    BY <1>9
  <1>13. \A k \in 1 .. r : at[k] # 0 => to[at[k]] = 0
    BY <1>8
  <1>14. Carries(s, u, at, lost, t, r, v, lost, to)
    BY <1>4, <1>6, <1>10, <1>11, <1>12, <1>13 DEF Carries
  <1>. QED  BY <1>14, Carried

-----------------------------------------------------------------------------
(* What the codec delimits.                                                *)

\* Some numbers have a least one.
LEMMA Least ==
    ASSUME NEW S, S \subseteq Nat, S # {}
    PROVE  Min(S) \in S /\ \A y \in S : Min(S) <= y
  <1>1. PICK x \in S : \A y \in S : ~(<<y, x>> \in OpToRel(<, Nat))
    BY NatLessThanWellFounded, WFMin
  <1>2. ASSUME NEW y \in S  PROVE x <= y
    <2>1. x \in Nat /\ y \in Nat /\ ~(y < x)
      BY <1>1 DEF OpToRel
    <2>. QED  BY <2>1
  <1>. QED  BY <1>1, <1>2 DEF Min

\* The scan stops at a frame that begins in the buffer, whether or not the
\* rest of it is there; but a last unit is only half of a magic.
LEMMA StopsAtFrames ==
    ASSUME NEW b \in Units, NEW x \in Units, NEW s \in Units, IsJoin(s, b, x),
           NEW i \in FramesIn(s), i < Len(b)
    PROVE  i \in Stops(b)
  <1>1. Len(s) = Len(b) + Len(x) /\ \A j \in 1 .. Len(b) : s[j] = b[j]
    BY Joined
  <1>2. Len(b) \in Nat /\ Len(x) \in Nat /\ DOMAIN b = 1 .. Len(b)
    BY Items DEF Units
  <1>3. /\ i \in Nat \ {0} /\ s[i + 5] \in Nat /\ EndOf(s, i) = i + 6 + s[i + 5]
        /\ EndOf(s, i) <= Len(s) /\ EndOf(s, i) \in Nat /\ FrameAt(s, i)
    BY FramesAreAt, FrameOfUnits
  <1>4. i \in 1 .. Len(b) /\ i + 1 \in 1 .. Len(b)
    BY <1>2, <1>3
  <1>5. StartsFrame(From(b, i))
    <2>1. s[i] = 68 /\ s[i + 1] = 82
      BY <1>3 DEF FrameAt
    <2>2. b[i] = 68 /\ b[i + 1] = 82
      BY <1>1, <1>4, <2>1
    <2>. QED  BY <1>4, <2>2, SeenFrom
  <1>6. CASE EndOf(s, i) <= Len(b)
    <2>1. i \in FramesIn(b)
      BY <1>6, InFront
    <2>. QED  BY <1>2, <1>4, <2>1 DEF FramesIn, Stops
  <1>7. CASE EndOf(s, i) > Len(b)
    <2>1. Incomplete(From(b, i))
      <3>1. CASE i + 5 > Len(b)
        BY <1>4, <3>1, SeenFrom
      <3>2. CASE i + 5 <= Len(b)
        <4>1. /\ i + 2 \in 1 .. Len(b) /\ i + 3 \in 1 .. Len(b) /\ i + 5 \in 1 .. Len(b)
          BY <1>2, <1>3, <3>2
        <4>2. b[i + 2] = s[i + 2] /\ b[i + 3] = s[i + 3] /\ b[i + 5] = s[i + 5]
          BY <1>1, <4>1
        <4>3. HeaderAt(b, i) /\ i + 6 + b[i + 5] > Len(b)
          BY <1>3, <1>7, <4>2 DEF FrameAt, HeaderAt
        <4>. QED  BY <1>4, <4>3, SeenFrom
      <3>. QED  BY <1>2, <1>3, <3>1, <3>2
    <2>. QED  BY <1>2, <1>4, <1>5, <2>1 DEF Stops
  <1>. QED  BY <1>2, <1>3, <1>6, <1>7

\* The outcome of a scan that goes past the first c units: either nothing is
\* delimited, and no frame began there, or the first frame, at m, is, and c
\* is its last unit.
Scanned(b, s, next, c, m) ==
    /\ c \in 0 .. Len(b) /\ next.rest = From(b, c + 1)
    /\ \/ /\ next.frame = <<>>
          /\ Len(next.rest) < MAX_FRAME_LEN
          /\ \A i \in FramesIn(s) : i > c
       \/ /\ m \in FramesIn(b) /\ next.frame = FrameOf(b, m) /\ c = EndOf(b, m)
          /\ \A i \in FramesIn(s) : m <= i

\* That is what next_frame does, whatever follows what is in the buffer.
LEMMA NextIsScanned ==
    ASSUME ProtocolAssumption, NEW b \in Units, NEW x \in Units, NEW s \in Units, IsJoin(s, b, x)
    PROVE  \E c, m : Scanned(b, s, NextFrame(b), c, m)
  <1>. DEFINE n == Len(b)
              next == NextFrame(b)
  <1>1. n \in Nat /\ DOMAIN b = 1 .. n /\ b \in Seq(Nat)
    BY Items DEF Units
  <1>2. MAX_PAYLOAD_LEN \in Nat /\ MAX_FRAME_LEN = MAX_PAYLOAD_LEN + 7 /\ MAX_FRAME_LEN \in Nat
    BY DEF ProtocolAssumption, MAX_FRAME_LEN, HEADER_LEN, CHECKSUM_LEN
  <1>3. \A i \in FramesIn(s) : i \in Nat \ {0} /\ (i < n => i \in Stops(b))
    BY StopsAtFrames, FrameOfUnits
  <1>4. CASE Stops(b) = {} /\ ~(b # <<>> /\ b[n] = 68)
    <2>1. next.frame = <<>> /\ next.rest = <<>>
      BY <1>4 DEF NextFrame, Remainder, Last, MAGIC
    <2>2. From(b, n + 1) = <<>>
      <3>1. n + 1 \in Int /\ n < n + 1
        BY <1>1
      <3>. QED  BY <1>1, <3>1, SubSeqEmpty DEF From
    <2>3. Len(next.rest) < MAX_FRAME_LEN
      BY <1>2, <2>1
    <2>4. ASSUME NEW i \in FramesIn(s)  PROVE i > n
      <3>1. i \in Nat \ {0} /\ ~(i < n)
        BY <1>3, <1>4
      <3>2. i # n
        <4>1. SUFFICES ASSUME i = n  PROVE FALSE
          OBVIOUS
        <4>2. s[i] = 68
          BY FramesAreAt DEF FrameAt
        <4>3. i \in 1 .. n
          BY <1>1, <3>1, <4>1
        <4>4. b[n] = 68
          BY <4>1, <4>2, <4>3, Joined
        <4>5. b # <<>>
          BY <1>1, <4>3
        <4>. QED  BY <1>4, <4>4, <4>5
      <3>. HIDE DEF n
      <3>. QED  BY <1>1, <3>1, <3>2
    <2>5. n \in 0 .. n
      BY <1>1
    <2>6. Scanned(b, s, next, n, 0)
      BY <2>1, <2>2, <2>3, <2>4, <2>5 DEF Scanned
    <2>. QED  BY <2>6
  <1>5. CASE Stops(b) = {} /\ b # <<>> /\ b[n] = 68
    <2>1. next.frame = <<>> /\ next.rest = <<68>>
      BY <1>5 DEF NextFrame, Remainder, Last, MAGIC
    <2>2. n \in 1 .. n /\ n - 1 \in 0 .. n /\ (n - 1) + 1 = n
      <3>1. n # 0
        BY <1>1, <1>5, EmptySeq
      <3>. QED  BY <1>1, <3>1
    <2>3. From(b, n) = <<68>>
      <3>. DEFINE u == From(b, n)
      <3>1. n \in 1 .. n + 1 /\ n - n + 1 = 1 /\ 1 \in 1 .. n - n + 1 /\ n + 1 - 1 = n
        BY <2>2
      <3>2. u \in Seq(Nat) /\ Len(u) = n - n + 1 /\ \A j \in 1 .. n - n + 1 : u[j] = b[n + j - 1]
        BY <1>1, <3>1, Cut
      <3>. HIDE DEF u
      <3>3. u[1] = b[n + 1 - 1]
        BY <3>1, <3>2
      <3>4. u \in Seq(Nat) /\ Len(u) = 1 /\ u[1] = 68
        BY <1>5, <3>1, <3>2, <3>3
      <3>5. u = <<68>>
        BY <3>4
      <3>. QED  BY <3>5 DEF u
    <2>4. Len(next.rest) < MAX_FRAME_LEN
      BY <1>2, <2>1
    <2>5. ASSUME NEW i \in FramesIn(s)  PROVE i > n - 1
      <3>1. i \in Nat \ {0} /\ ~(i < n)
        BY <1>3, <1>5
      <3>. QED  BY <1>1, <3>1
    <2>. DEFINE c == n - 1
    <2>6. c \in 0 .. n /\ next.rest = From(b, c + 1) /\ \A i \in FramesIn(s) : i > c
      BY <2>1, <2>2, <2>3, <2>5
    <2>. HIDE DEF c
    <2>7. Scanned(b, s, next, c, 0)
      BY <2>1, <2>4, <2>6 DEF Scanned
    <2>. QED  BY <2>7
  <1>6. CASE Stops(b) # {}
    <2>. DEFINE m == Min(Stops(b))
                u == From(b, m)
    <2>1. m \in Stops(b) /\ \A y \in Stops(b) : m <= y
      <3>1. Stops(b) \subseteq Nat
        BY <1>1 DEF Stops
      <3>. QED  BY <1>6, <3>1, Least
    <2>2. m \in 1 .. n /\ StartsFrame(u) /\ (Incomplete(u) \/ Complete(u))
      BY <1>1, <2>1 DEF Stops
    <2>3. next = IF Incomplete(u) THEN [frame |-> <<>>, rest |-> u]
                 ELSE [frame |-> SubSeq(u, 1, FrameLen(u)), rest |-> From(u, FrameLen(u) + 1)]
      BY <1>6 DEF NextFrame
    <2>4. ASSUME NEW i \in FramesIn(s)  PROVE m <= i
      <3>1. i < n => m <= i
        BY <1>3, <2>1
      <3>. HIDE DEF m
      <3>. QED  BY <1>1, <1>3, <2>2, <3>1
    <2>. HIDE DEF m
    <2>5. m \in 1 .. n + 1 /\ m \in Nat /\ m >= 1 /\ m <= n
      BY <1>1, <2>2
    <2>6. u \in Units /\ Len(u) = n - m + 1 /\ \A j \in 1 .. n - m + 1 : u[j] = b[m + j - 1]
      BY <1>1, <2>5, Cut DEF Units
    <2>7. CASE Incomplete(u)
      <3>1. next.frame = <<>> /\ next.rest = u
        BY <2>3, <2>7
      <3>2. Len(u) < MAX_FRAME_LEN
        <4>1. Len(u) \in Nat
          BY <2>5, <2>6
        <4>2. CASE Len(u) < 6
          BY <1>2, <4>1, <4>2
        <4>3. CASE Len(u) >= 6
          <5>1. u[6] <= MAX_PAYLOAD_LEN /\ Len(u) < FrameLen(u)
            BY <2>7, <4>1, <4>3 DEF Incomplete, ValidHeader, HEADER_LEN
          <5>2. FrameLen(u) = u[6] + 7 /\ u[6] \in Nat
            <6>1. 6 \in 1 .. Len(u)
              BY <4>1, <4>3
            <6>2. u[6] \in Nat
              BY <2>6, <6>1, Items DEF Units
            <6>. QED  BY <6>2 DEF FrameLen, HEADER_LEN, CHECKSUM_LEN
          <5>. HIDE DEF u
          <5>. QED  BY <1>2, <4>1, <5>1, <5>2
        <4>. QED  BY <4>1, <4>2, <4>3
      <3>. DEFINE c == m - 1
      <3>3. c \in 0 .. n /\ c + 1 = m /\ \A i \in FramesIn(s) : i > c
        <4>. HIDE DEF u
        <4>. QED  BY <1>1, <1>3, <2>4, <2>5
      <3>. HIDE DEF c
      <3>4. next.rest = From(b, c + 1)
        BY <3>1, <3>3
      <3>5. Len(next.rest) < MAX_FRAME_LEN
        BY <3>1, <3>2
      <3>6. Scanned(b, s, next, c, 0)
        <4>. HIDE DEF next, u
        <4>. QED  BY <3>1, <3>3, <3>4, <3>5 DEF Scanned
      <3>. QED  BY <3>6
    <2>8. CASE ~Incomplete(u)
      <3>1. m \in FramesIn(b)
        BY <1>1, <2>2, <2>8 DEF FramesIn
      <3>2. /\ EndOf(b, m) = m + 6 + b[m + 5] /\ FrameLen(u) = b[m + 5] + 7 /\ b[m + 5] \in Nat
            /\ EndOf(b, m) <= n
        BY <3>1, FramesAreAt
      <3>. DEFINE k == FrameLen(u)
                  e == EndOf(b, m)
      <3>3. k \in Nat /\ k >= 7 /\ e \in Nat /\ m + k - 1 = e /\ e = m + k - 1 /\ k <= n - m + 1 /\ e <= n
        <4>. DEFINE p == b[m + 5]
        <4>1. p \in Nat /\ k = p + 7 /\ e = m + 6 + p /\ e <= n
          BY <3>2
        <4>. HIDE DEF k, e, p, n
        <4>. QED  BY <1>1, <2>5, <4>1
      <3>. HIDE DEF k, e
      <3>4. SubSeq(u, 1, k) = SubSeq(b, m, e)
        <4>. DEFINE q == 1
        <4>1. q \in Nat \ {0} /\ q <= k + 1 /\ k \in Nat /\ k <= Len(b) - m + 1
          BY <2>5, <3>3
        <4>2. SubSeq(u, q, k) = SubSeq(b, m + q - 1, m + k - 1)
          <5>1. b \in Seq(Nat) /\ m \in 1 .. Len(b)
            BY <1>1, <2>2
          <5>. HIDE DEF q
          <5>. QED  BY <4>1, <5>1, PartOfCut, SMTT(30)
        <4>3. m + q - 1 = m
          BY <2>5
        <4>. QED  BY <3>3, <4>2, <4>3
      <3>5. From(u, k + 1) = From(b, e + 1)
        <4>1. /\ k + 1 \in Nat \ {0} /\ n - m + 1 \in Nat /\ k + 1 <= (n - m + 1) + 1
              /\ n - m + 1 <= n - m + 1 /\ m + (k + 1) - 1 = e + 1 /\ m + (n - m + 1) - 1 = n
          BY <1>1, <2>5, <3>3
        <4>. DEFINE q == k + 1
                    l == n - m + 1
        <4>2. SubSeq(u, q, l) = SubSeq(b, m + q - 1, m + l - 1)
          <5>1. q \in Nat \ {0} /\ l \in Nat /\ q <= l + 1 /\ l <= Len(b) - m + 1
            BY <4>1
          <5>2. b \in Seq(Nat) /\ m \in 1 .. Len(b)
            BY <1>1, <2>2
          <5>. HIDE DEF q, l
          <5>. QED  BY <5>1, <5>2, PartOfCut, SMTT(30)
        <4>3. SubSeq(u, k + 1, Len(u)) = SubSeq(b, e + 1, n)
          <5>. HIDE DEF u
          <5>. QED  BY <2>6, <4>1, <4>2
        <4>. QED  BY <4>3 DEF From
      <3>6. next.frame = FrameOf(b, m) /\ next.rest = From(b, e + 1)
        <4>1. next.frame = SubSeq(u, 1, k) /\ next.rest = From(u, k + 1)
          <5>. HIDE DEF next, u
          <5>. QED  BY <2>3, <2>8 DEF k
        <4>. HIDE DEF next, u
        <4>. QED  BY <3>4, <3>5, <4>1 DEF FrameOf, e
      <3>7. e \in 0 .. n
        BY <1>1, <3>3
      <3>8. Scanned(b, s, next, e, m)
        <4>. HIDE DEF next, u
        <4>. QED  BY <2>4, <3>1, <3>6, <3>7 DEF Scanned, e
      <3>. QED  BY <3>8
    <2>. QED  BY <2>7, <2>8
  <1>. QED  BY <1>4, <1>5, <1>6

-----------------------------------------------------------------------------
(* What is written decodes to what it is to say.                           *)

\* A frame that the codec delimits and a decoder decodes.
Speaks(f, message) ==
    /\ f \in Units /\ 1 \in FramesIn(f) /\ EndOf(f, 1) = Len(f)
    /\ [frame |-> f, message |-> message] \in Entries

\* A frame speaks when the decoder of its type accepts its payload.
LEMMA FramedSpeaks ==
    ASSUME NEW type \in MessageTypes, NEW sequence \in Nat, NEW payload \in Units,
           Len(payload) <= MAX_PAYLOAD_LEN,
           NEW content \in Envelope \cup Status \cup Response \cup {None},
           \/ type = COMMAND_MESSAGE_TYPE /\ IsCommandPayload(payload) /\ decode_payload(payload) = content
           \/ type = QUEUE_STATUS_MESSAGE_TYPE /\ IsQueueStatusPayload(payload) /\ StatusOf(payload) = content
           \/ type = CLOCK_REQUEST_MESSAGE_TYPE /\ payload = << 0 >> /\ content = None
           \/ type = CLOCK_RESPONSE_MESSAGE_TYPE /\ IsClockResponsePayload(payload)
              /\ ResponseOf(payload) = content
    PROVE  Speaks(Framed(type, sequence, payload), Message(type, sequence, content))
  <1>. DEFINE f == Framed(type, sequence, payload)
  <1>1. /\ f \in Units /\ IsFrame(f, type) /\ PayloadOf(f) = payload
        /\ f[4] = type /\ f[5] = sequence
        /\ 1 \in FramesIn(f) /\ EndOf(f, 1) = Len(f)
    BY FramedIsFrame
  <1>. HIDE DEF f
  <1>2. Decodable(f)
    BY <1>1 DEF Decodable
  <1>3. Decoded(f) = Message(type, sequence, content)
    <2>. DEFINE said == CASE f[4] = COMMAND_MESSAGE_TYPE -> decode_payload(payload)
                          [] f[4] = QUEUE_STATUS_MESSAGE_TYPE -> StatusOf(payload)
                          [] f[4] = CLOCK_REQUEST_MESSAGE_TYPE -> None
                          [] OTHER -> ResponseOf(payload)
    <2>1. said = content
      BY <1>1 DEF COMMAND_MESSAGE_TYPE, QUEUE_STATUS_MESSAGE_TYPE, CLOCK_REQUEST_MESSAGE_TYPE,
                  CLOCK_RESPONSE_MESSAGE_TYPE
    <2>2. Decoded(f) = Message(f[4], f[5], said)
      BY <1>1 DEF Decoded
    <2>. HIDE DEF said
    <2>. QED  BY <1>1, <2>1, <2>2
  <1>4. f # <<>>
    <2>1. 1 \in 1 .. Len(f)
      BY <1>1, FramesAreAt
    <2>. QED  BY <2>1
  <1>5. [frame |-> f, message |-> Message(type, sequence, content)] \in Entries
    BY <1>1, <1>2, <1>3, <1>4 DEF Entries, Message
  <1>. QED  BY <1>1, <1>5 DEF Speaks, f

\* A status is decoded as it was encoded.
LEMMA StatusSpeaks ==
    ASSUME MAX_PAYLOAD_LEN \in Nat, MAX_PAYLOAD_LEN >= 6,
           NEW sequence \in Nat, NEW status \in Status
    PROVE  Speaks(encode_queue_status(sequence, status),
                  Message(QUEUE_STATUS_MESSAGE_TYPE, sequence, status))
  <1>. DEFINE flag == IF status.underrun THEN 1 ELSE 0
              p == <<0, status.capacity, status.fill, status.earliest_accepted,
                     status.latest_accepted, flag>>
  <1>1. /\ status.capacity \in Nat /\ status.fill \in Nat /\ status.earliest_accepted \in Nat
        /\ status.latest_accepted \in Nat /\ status.underrun \in BOOLEAN
        /\ status = [capacity |-> status.capacity, fill |-> status.fill,
                     earliest_accepted |-> status.earliest_accepted,
                     latest_accepted |-> status.latest_accepted, underrun |-> status.underrun]
    BY DEF Status
  <1>2. flag \in {0, 1} /\ (flag = 1) = status.underrun
    BY <1>1
  <1>. HIDE DEF flag
  <1>3. /\ p \in Units /\ Len(p) = 6 /\ p[1] = 0 /\ p[2] = status.capacity /\ p[3] = status.fill
        /\ p[4] = status.earliest_accepted /\ p[5] = status.latest_accepted /\ p[6] = flag
    BY <1>1, <1>2 DEF Units
  <1>. HIDE DEF p
  <1>4. IsQueueStatusPayload(p)
    BY <1>2, <1>3 DEF IsQueueStatusPayload
  <1>5. StatusOf(p) = status
    BY <1>1, <1>2, <1>3 DEF StatusOf
  <1>6. Speaks(Framed(QUEUE_STATUS_MESSAGE_TYPE, sequence, p),
               Message(QUEUE_STATUS_MESSAGE_TYPE, sequence, status))
    <2>1. QUEUE_STATUS_MESSAGE_TYPE \in MessageTypes
      BY DEF QUEUE_STATUS_MESSAGE_TYPE, MessageTypes
    <2>2. Len(p) <= MAX_PAYLOAD_LEN
      BY <1>3
    <2>. QED  BY <1>3, <1>4, <1>5, <2>1, <2>2, FramedSpeaks
  <1>. QED  BY <1>6 DEF encode_queue_status, p, flag

\* So are clock frames.
LEMMA ClockSpeaks ==
    ASSUME MAX_PAYLOAD_LEN \in Nat, MAX_PAYLOAD_LEN >= 6, NEW sequence \in Nat
    PROVE  /\ Speaks(encode_clock_request(sequence), Message(CLOCK_REQUEST_MESSAGE_TYPE, sequence, None))
           /\ \A response \in Response :
                Speaks(encode_clock_response(sequence, response),
                       Message(CLOCK_RESPONSE_MESSAGE_TYPE, sequence, response))
  <1>1. CLOCK_REQUEST_MESSAGE_TYPE \in MessageTypes /\ CLOCK_RESPONSE_MESSAGE_TYPE \in MessageTypes
    BY DEF CLOCK_REQUEST_MESSAGE_TYPE, CLOCK_RESPONSE_MESSAGE_TYPE, MessageTypes
  <1>2. Speaks(Framed(CLOCK_REQUEST_MESSAGE_TYPE, sequence, <<0>>),
               Message(CLOCK_REQUEST_MESSAGE_TYPE, sequence, None))
    <2>. DEFINE p == <<0>>
    <2>1. p \in Units /\ Len(p) <= MAX_PAYLOAD_LEN
      BY DEF Units
    <2>2. p = <<0>>
      OBVIOUS
    <2>. HIDE DEF p
    <2>3. Speaks(Framed(CLOCK_REQUEST_MESSAGE_TYPE, sequence, p),
                 Message(CLOCK_REQUEST_MESSAGE_TYPE, sequence, None))
      BY <1>1, <2>1, <2>2, FramedSpeaks
    <2>. QED  BY <2>2, <2>3
  <1>3. ASSUME NEW response \in Response
        PROVE  Speaks(encode_clock_response(sequence, response),
                      Message(CLOCK_RESPONSE_MESSAGE_TYPE, sequence, response))
    <2>. DEFINE p == <<0, response.controller_receive, response.controller_send>>
    <2>1. /\ response.controller_receive \in Nat /\ response.controller_send \in Nat
          /\ response = [controller_receive |-> response.controller_receive,
                         controller_send |-> response.controller_send]
      BY DEF Response
    <2>2. /\ p \in Units /\ Len(p) = 3 /\ p[1] = 0
          /\ p[2] = response.controller_receive /\ p[3] = response.controller_send
      BY <2>1 DEF Units
    <2>. HIDE DEF p
    <2>3. IsClockResponsePayload(p) /\ ResponseOf(p) = response /\ Len(p) <= MAX_PAYLOAD_LEN
      BY <2>1, <2>2 DEF IsClockResponsePayload, ResponseOf
    <2>4. Speaks(Framed(CLOCK_RESPONSE_MESSAGE_TYPE, sequence, p),
                 Message(CLOCK_RESPONSE_MESSAGE_TYPE, sequence, response))
      BY <1>1, <2>2, <2>3, FramedSpeaks
    <2>. QED  BY <2>4 DEF encode_clock_response, p
  <1>. QED  BY <1>2, <1>3 DEF encode_clock_request

\* The units of a command that names its device.
HasNamed(p, at, envelope) ==
    /\ p \in Units /\ Len(p) = at + 1 + Len(envelope.name) + Len(envelope.numbers)
    /\ p[at] = envelope.tag /\ p[at + 1] = Len(envelope.name)
    /\ SubSeq(p, at + 2, at + 1 + Len(envelope.name)) = envelope.name
    /\ SubSeq(p, at + 2 + Len(envelope.name), Len(p)) = envelope.numbers
    /\ \A i \in 1 .. Len(envelope.name) : p[at + 1 + i] = envelope.name[i]

\* A sequence is in the place where it was put.
LEMMA InPlace ==
    ASSUME NEW s \in Units, NEW t \in Units, NEW d \in Nat, d + Len(s) <= Len(t),
           \A i \in 1 .. Len(s) : t[d + i] = s[i]
    PROVE  SubSeq(t, d + 1, d + Len(s)) = s
  <1>. DEFINE a == 1
              n == Len(s)
  <1>1. n \in Nat /\ s \in Seq(Nat) /\ t \in Seq(Nat)
    BY Items DEF Units
  <1>2. SubSeq(s, a, n) = s
    BY <1>1, SubSeqFull
  <1>3. /\ a \in Nat \ {0} /\ n <= Len(s) /\ a <= n + 1 /\ d \in Int /\ a + d >= 1 /\ n + d <= Len(t)
        /\ a + d = d + 1 /\ n + d = d + n
    <2>1. n <= Len(s) /\ d + n <= Len(t)
      BY <1>1
    <2>. HIDE DEF n
    <2>. QED  BY <1>1, <2>1
  <1>4. ASSUME NEW x \in a .. n  PROVE t[x + d] = s[x]
    <2>1. x \in 1 .. Len(s) /\ x + d = d + x
      BY <1>1
    <2>. HIDE DEF a, n
    <2>. QED  BY <2>1
  <1>5. SubSeq(t, a + d, n + d) = SubSeq(s, a, n)
    <2>. HIDE DEF a, n
    <2>1. Alike(s, t, a, n, d)
      BY <1>1, <1>3, <1>4 DEF Alike
    <2>. QED  BY <1>1, <1>3, <2>1, Agree
  <1>. HIDE DEF a, n
  <1>. QED  BY <1>2, <1>3, <1>5 DEF n

\* Each unit of a command's payload is where decoding looks for it.
LEMMA PayloadUnits ==
    ASSUME None \notin Nat, NEW envelope \in Envelope
    PROVE  LET p == encode_payload(envelope)
               at == IF envelope.execute_at = None THEN 2 ELSE 3
           IN  /\ p \in Units /\ Len(p) >= at
               /\ p[1] = at - 2 /\ (at = 3 => p[2] = envelope.execute_at) /\ p[at] = envelope.tag
               /\ envelope.tag = TAG_HEARTBEAT => Len(p) = at
               /\ envelope.tag # TAG_HEARTBEAT => HasNamed(p, at, envelope)
  <1>. DEFINE time == IF envelope.execute_at = None THEN <<0>> ELSE <<1, envelope.execute_at>>
              at == IF envelope.execute_at = None THEN 2 ELSE 3
              head == time \o <<envelope.tag>>
              n == Len(envelope.name)
              named == <<n>> \o envelope.name
              device == named \o envelope.numbers
              tail == IF envelope.tag = TAG_HEARTBEAT THEN <<>> ELSE device
              p == head \o tail
  <1>1. /\ envelope.execute_at \in Nat \cup {None} /\ envelope.tag \in 0 .. 3
        /\ envelope.name \in Units /\ envelope.numbers \in Units
    BY DEF Envelope, NumbersOf, TAG_HEARTBEAT, TAG_SET_HEATER_TARGET, TAG_HOME, TAG_MOVE, Units
  <1>2. n \in Nat /\ Len(envelope.numbers) \in Nat
    BY <1>1, Items DEF Units
  <1>3. /\ time \in Units /\ Len(time) = at - 1 /\ time[1] = at - 2
        /\ at = 3 => time[2] = envelope.execute_at
    BY <1>1 DEF Units
  <1>4. at \in {2, 3}
    OBVIOUS
  <1>. HIDE DEF at, time
  <1>5. /\ head \in Units /\ Len(head) = at /\ head[1] = at - 2 /\ head[at] = envelope.tag
        /\ at = 3 => head[2] = envelope.execute_at
    <2>. DEFINE last == <<envelope.tag>>
    <2>1. last \in Units /\ Len(last) = 1 /\ last[1] = envelope.tag
      BY <1>1 DEF Units
    <2>2. IsJoin(head, time, last)
      BY DEF IsJoin
    <2>. HIDE DEF last, head
    <2>3. /\ head \in Units /\ Len(head) = Len(time) + Len(last)
          /\ \A i \in 1 .. Len(time) : head[i] = time[i]
          /\ \A i \in 1 .. Len(last) : head[Len(time) + i] = last[i]
      <3>1. time \in Units /\ last \in Units
        BY <1>3, <2>1
      <3>. QED  BY <2>2, <3>1, Joined
    <2>4. 1 \in 1 .. Len(time) /\ (at = 3 => 2 \in 1 .. Len(time)) /\ 1 \in 1 .. Len(last)
          /\ Len(time) + 1 = at
      BY <1>3, <1>4, <2>1
    <2>. QED  BY <1>3, <2>1, <2>3, <2>4
  <1>6. /\ device \in Units /\ Len(device) = 1 + n + Len(envelope.numbers) /\ device[1] = n
        /\ \A i \in 1 .. n : device[1 + i] = envelope.name[i]
        /\ \A i \in 1 .. Len(envelope.numbers) : device[(1 + n) + i] = envelope.numbers[i]
    <2>. DEFINE first == <<n>>
    <2>1. first \in Units /\ Len(first) = 1 /\ first[1] = n
      <3>. HIDE DEF n
      <3>. QED  BY <1>2 DEF Units
    <2>2. IsJoin(named, first, envelope.name) /\ IsJoin(device, named, envelope.numbers)
      BY DEF IsJoin
    <2>. HIDE DEF first, named, device
    <2>3. /\ named \in Units /\ Len(named) = Len(first) + n
          /\ \A i \in 1 .. Len(first) : named[i] = first[i]
          /\ \A i \in 1 .. n : named[Len(first) + i] = envelope.name[i]
      <3>1. first \in Units /\ envelope.name \in Units /\ IsJoin(named, first, envelope.name)
        BY <1>1, <2>1, <2>2
      <3>. QED  BY <3>1, Joined
    <2>4. /\ device \in Units /\ Len(device) = Len(named) + Len(envelope.numbers)
          /\ \A i \in 1 .. Len(named) : device[i] = named[i]
          /\ \A i \in 1 .. Len(envelope.numbers) : device[Len(named) + i] = envelope.numbers[i]
      <3>1. /\ named \in Units /\ envelope.numbers \in Units
            /\ IsJoin(device, named, envelope.numbers)
        BY <1>1, <2>2, <2>3
      <3>. QED  BY <3>1, Joined
    <2>. HIDE DEF n
    <2>5. Len(named) = 1 + n /\ 1 \in 1 .. Len(first) /\ 1 \in 1 .. Len(named)
      BY <1>2, <2>1, <2>3
    <2>6. \A i \in 1 .. n : 1 + i \in 1 .. Len(named)
      BY <1>2, <2>5
    <2>7. device[1] = n
      BY <2>1, <2>3, <2>4, <2>5
    <2>8. ASSUME NEW i \in 1 .. n  PROVE device[1 + i] = envelope.name[i]
      <3>1. named[1 + i] = envelope.name[i]
        BY <2>1, <2>3
      <3>. QED  BY <2>4, <2>6, <3>1
    <2>9. Len(device) = 1 + n + Len(envelope.numbers)
      BY <2>4, <2>5
    <2>10. \A i \in 1 .. Len(envelope.numbers) : device[(1 + n) + i] = envelope.numbers[i]
      BY <2>4, <2>5
    <2>. QED  BY <2>4, <2>7, <2>8, <2>9, <2>10
  <1>7. tail \in Units
    <2>1. <<>> \in Units
      BY DEF Units
    <2>. HIDE DEF device
    <2>. QED  BY <1>6, <2>1
  <1>8. IsJoin(p, head, tail)
    BY DEF IsJoin
  <1>. HIDE DEF p, head, tail
  <1>9. /\ p \in Units /\ Len(p) = at + Len(tail)
        /\ \A i \in 1 .. at : p[i] = head[i]
        /\ \A i \in 1 .. Len(tail) : p[at + i] = tail[i]
    <2>1. /\ p \in Units /\ Len(p) = Len(head) + Len(tail)
          /\ \A i \in 1 .. Len(head) : p[i] = head[i]
          /\ \A i \in 1 .. Len(tail) : p[Len(head) + i] = tail[i]
      BY <1>5, <1>7, <1>8, Joined
    <2>. QED  BY <1>5, <2>1
  <1>10. p[1] = at - 2 /\ (at = 3 => p[2] = envelope.execute_at) /\ p[at] = envelope.tag
    <2>1. 1 \in 1 .. at /\ 2 \in 1 .. at /\ at \in 1 .. at
      BY <1>4
    <2>. QED  BY <1>5, <1>9, <2>1
  <1>11. Len(tail) \in Nat /\ Len(p) >= at
    <2>1. Len(tail) \in Nat
      BY <1>7, Items DEF Units
    <2>. QED  BY <1>4, <1>9, <2>1
  <1>12. ASSUME envelope.tag = TAG_HEARTBEAT  PROVE Len(p) = at
    <2>1. Len(tail) = 0
      BY <1>12 DEF tail
    <2>. QED  BY <1>4, <1>9, <2>1
  <1>13. ASSUME envelope.tag # TAG_HEARTBEAT  PROVE HasNamed(p, at, envelope)
    <2>1. tail = device
      BY <1>13 DEF tail
    <2>. DEFINE m == Len(envelope.numbers)
    <2>. HIDE DEF device
    <2>2. /\ Len(p) = at + 1 + n + m /\ \A i \in 1 .. 1 + n + m : p[at + i] = device[i]
      <3>1. Len(device) = 1 + n + m
        BY <1>6
      <3>2. Len(p) = at + Len(device)
        BY <1>9, <2>1
      <3>3. \A i \in 1 .. 1 + n + m : p[at + i] = device[i]
        BY <1>9, <2>1, <3>1
      <3>4. n \in Nat /\ m \in Nat
        BY <1>2
      <3>. HIDE DEF n, m
      <3>5. Len(p) = at + 1 + n + m
        BY <1>4, <3>1, <3>2, <3>4
      <3>. QED  BY <3>3, <3>5
    <2>3. at \in Nat /\ n \in Nat /\ m \in Nat
      BY <1>2, <1>4
    <2>4. p[at + 1] = n
      <3>1. 1 \in 1 .. 1 + n + m
        <4>. HIDE DEF n, m
        <4>. QED  BY <2>3
      <3>. QED  BY <1>6, <2>2, <3>1
    <2>5. ASSUME NEW i \in 1 .. n  PROVE p[(at + 1) + i] = envelope.name[i]
      <3>1. device[1 + i] = envelope.name[i]
        BY <1>6
      <3>. HIDE DEF n, m
      <3>2. 1 + i \in 1 .. 1 + n + m /\ (at + 1) + i = at + (1 + i)
        BY <2>3
      <3>. QED  BY <2>2, <3>1, <3>2
    <2>6. ASSUME NEW i \in 1 .. m  PROVE p[(at + 1 + n) + i] = envelope.numbers[i]
      <3>1. device[(1 + n) + i] = envelope.numbers[i]
        BY <1>6
      <3>. HIDE DEF n, m
      <3>2. (1 + n) + i \in 1 .. 1 + n + m /\ (at + 1 + n) + i = at + ((1 + n) + i)
        BY <2>3
      <3>. QED  BY <2>2, <3>1, <3>2
    <2>7. SubSeq(p, (at + 1) + 1, (at + 1) + n) = envelope.name
      <3>. DEFINE d == at + 1
      <3>1. d \in Nat /\ d + n <= Len(p)
        <4>. HIDE DEF n, m
        <4>. QED  BY <2>2, <2>3
      <3>2. \A i \in 1 .. n : p[d + i] = envelope.name[i]
        BY <2>5
      <3>. HIDE DEF d
      <3>3. SubSeq(p, d + 1, d + n) = envelope.name
        BY <1>1, <1>9, <3>1, <3>2, InPlace
      <3>. QED  BY <3>3 DEF d
    <2>8. SubSeq(p, (at + 1 + n) + 1, (at + 1 + n) + m) = envelope.numbers
      <3>. DEFINE d == at + 1 + n
      <3>1. d \in Nat /\ d + m <= Len(p)
        <4>. HIDE DEF n, m
        <4>. QED  BY <2>2, <2>3
      <3>2. \A i \in 1 .. m : p[d + i] = envelope.numbers[i]
        BY <2>6
      <3>. HIDE DEF d
      <3>3. SubSeq(p, d + 1, d + m) = envelope.numbers
        BY <1>1, <1>9, <3>1, <3>2, InPlace
      <3>. QED  BY <3>3 DEF d
    <2>9. /\ (at + 1) + 1 = at + 2 /\ (at + 1) + n = at + 1 + n
          /\ (at + 1 + n) + 1 = at + 2 + n /\ (at + 1 + n) + m = at + 1 + n + m
      <3>. HIDE DEF n, m
      <3>. QED  BY <2>3
    <2>10. /\ SubSeq(p, at + 2, at + 1 + n) = envelope.name
           /\ SubSeq(p, at + 2 + n, Len(p)) = envelope.numbers
      <3>. HIDE DEF n, m
      <3>. QED  BY <2>2, <2>7, <2>8, <2>9
    <2>11. \A i \in 1 .. n : p[at + 1 + i] = envelope.name[i]
      BY <2>5
    <2>. QED  BY <1>9, <1>10, <2>2, <2>4, <2>10, <2>11 DEF HasNamed
  <1>14. p = encode_payload(envelope)
    BY DEF encode_payload, p, head, tail, time
  <1>15. /\ p \in Units /\ Len(p) >= at
         /\ p[1] = at - 2 /\ (at = 3 => p[2] = envelope.execute_at) /\ p[at] = envelope.tag
         /\ envelope.tag = TAG_HEARTBEAT => Len(p) = at
         /\ envelope.tag # TAG_HEARTBEAT => HasNamed(p, at, envelope)
    BY <1>9, <1>10, <1>11, <1>12, <1>13
  <1>. QED  BY <1>14, <1>15 DEF at

\* A command that is not refused is decoded as it was encoded.
LEMMA CommandSpeaks ==
    ASSUME None \notin Nat, NEW sequence \in Nat, NEW envelope \in Envelope, Encodable(envelope)
    PROVE  Speaks(encode_command(sequence, envelope),
                  Message(COMMAND_MESSAGE_TYPE, sequence, envelope))
  <1>. DEFINE p == encode_payload(envelope)
              at == IF envelope.execute_at = None THEN 2 ELSE 3
              n == Len(envelope.name)
              m == Len(envelope.numbers)
              decoded == decode_payload(p)
              whole == [execute_at |-> envelope.execute_at, tag |-> envelope.tag,
                        name |-> envelope.name, numbers |-> envelope.numbers]
  <1>1. /\ p \in Units /\ Len(p) >= at
        /\ p[1] = at - 2 /\ (at = 3 => p[2] = envelope.execute_at) /\ p[at] = envelope.tag
        /\ envelope.tag = TAG_HEARTBEAT => Len(p) = at
        /\ envelope.tag # TAG_HEARTBEAT => HasNamed(p, at, envelope)
    BY PayloadUnits
  <1>2. /\ envelope = whole
        /\ envelope.tag \in DOMAIN NumbersOf \cup {TAG_HEARTBEAT}
        /\ envelope.name \in Units /\ envelope.numbers \in Units
        /\ \A i \in DOMAIN envelope.name : envelope.name[i] \notin NotUtf8
    BY DEF Envelope, Units
  <1>3. /\ envelope.tag = TAG_HEARTBEAT => envelope.name = <<>> /\ envelope.numbers = <<>>
        /\ envelope.tag # TAG_HEARTBEAT => m = NumbersOf[envelope.tag]
    BY DEF Envelope
  <1>4. n \in Nat /\ m \in Nat /\ DOMAIN envelope.name = 1 .. n
    BY <1>2, Items DEF Units
  <1>5. n <= MAX_STRING_LEN /\ Len(p) <= MAX_PAYLOAD_LEN
    BY DEF Encodable
  <1>6. at \in {2, 3} /\ (at = 3 <=> envelope.execute_at # None)
    OBVIOUS
  <1>. HIDE DEF p, at, n, m, decoded, whole
  <1>7. Len(p) \in Nat /\ TagAt(p) = at /\ p[1] \in {0, 1} /\ Len(p) >= 1
    <2>1. Len(p) \in Nat
      BY <1>1, Items DEF Units
    <2>2. TagAt(p) = at /\ p[1] \in {0, 1}
      BY <1>1, <1>6 DEF TagAt
    <2>. QED  BY <1>1, <1>6, <2>1, <2>2
  <1>8. (IF at = 3 THEN p[2] ELSE None) = envelope.execute_at
    BY <1>1, <1>6
  <1>9. ASSUME envelope.tag = TAG_HEARTBEAT
        PROVE  IsCommandPayload(p) /\ decoded = envelope
    <2>1. IsCommandPayload(p)
      BY <1>1, <1>7, <1>9 DEF IsCommandPayload
    <2>2. SubSeq(p, at + 1, Len(p)) = <<>>
      <3>1. Len(p) = at /\ at + 1 \in Int /\ at \in Int /\ at < at + 1
        BY <1>1, <1>6, <1>9
      <3>2. SubSeq(p, at + 1, at) = <<>>
        BY <3>1, SubSeqEmpty
      <3>. QED  BY <3>1, <3>2
    <2>3. decoded = [execute_at |-> IF at = 3 THEN p[2] ELSE None, tag |-> p[at],
                     name |-> <<>>, numbers |-> SubSeq(p, at + 1, Len(p))]
      BY <1>1, <1>7, <1>9 DEF decode_payload, decoded
    <2>4. p[at] = envelope.tag /\ envelope.name = <<>> /\ envelope.numbers = <<>>
      BY <1>1, <1>3, <1>9
    <2>5. decoded = whole
      BY <1>8, <2>2, <2>3, <2>4 DEF whole
    <2>6. decoded = envelope
      BY <1>2, <2>5
    <2>. QED  BY <2>1, <2>6
  <1>10. ASSUME envelope.tag # TAG_HEARTBEAT
         PROVE  IsCommandPayload(p) /\ decoded = envelope
    <2>1. /\ Len(p) = at + 1 + n + m /\ p[at] = envelope.tag /\ p[at + 1] = n
          /\ SubSeq(p, at + 2, at + 1 + n) = envelope.name
          /\ SubSeq(p, at + 2 + n, Len(p)) = envelope.numbers
          /\ \A i \in 1 .. n : p[at + 1 + i] = envelope.name[i]
      BY <1>1, <1>10 DEF HasNamed, n, m
    <2>2. m = NumbersOf[p[at]] /\ p[at] \in DOMAIN NumbersOf
      BY <1>2, <1>3, <1>10, <2>1
    <2>3. IsString(p, at + 1)
      <3>1. ASSUME NEW i \in (at + 1) + 1 .. (at + 1) + n  PROVE p[i] \notin NotUtf8
        <4>1. i - (at + 1) \in 1 .. n /\ at + 1 + (i - (at + 1)) = i
          BY <1>4, <1>6
        <4>2. p[i] = envelope.name[i - (at + 1)]
          BY <2>1, <4>1
        <4>. QED  BY <1>2, <1>4, <4>1, <4>2
      <3>. QED  BY <1>5, <2>1, <3>1 DEF IsString
    <2>4. IsCommandPayload(p)
      <3>1. Len(p) >= at /\ Len(p) > at
        BY <1>4, <1>6, <2>1
      <3>2. Len(p) = at + 1 + p[at + 1] + NumbersOf[p[at]]
        BY <2>1, <2>2
      <3>. QED  BY <1>7, <2>2, <2>3, <3>1, <3>2 DEF IsCommandPayload
    <2>5. decoded = [execute_at |-> IF at = 3 THEN p[2] ELSE None, tag |-> p[at],
                     name |-> SubSeq(p, at + 2, at + 1 + n),
                     numbers |-> SubSeq(p, (at + 1 + n) + 1, Len(p))]
      BY <1>7, <1>10, <2>1 DEF decode_payload, decoded
    <2>6. (at + 1 + n) + 1 = at + 2 + n
      BY <1>4, <1>6
    <2>7. decoded = whole
      BY <1>8, <2>1, <2>5, <2>6 DEF whole
    <2>8. decoded = envelope
      BY <1>2, <2>7
    <2>. QED  BY <2>4, <2>8
  <1>11. Speaks(Framed(COMMAND_MESSAGE_TYPE, sequence, p), Message(COMMAND_MESSAGE_TYPE, sequence, envelope))
    <2>1. COMMAND_MESSAGE_TYPE \in MessageTypes
      BY DEF COMMAND_MESSAGE_TYPE, MessageTypes
    <2>2. IsCommandPayload(p) /\ decode_payload(p) = envelope
      BY <1>9, <1>10 DEF decoded
    <2>3. p \in Units /\ Len(p) <= MAX_PAYLOAD_LEN
      BY <1>1, <1>5
    <2>. QED  BY <2>1, <2>2, <2>3, FramedSpeaks
  <1>. QED  BY <1>11 DEF encode_command, p

\* Whatever is encoded decodes to what it was: every command a CommandClient
\* would send, every queue status, and both clock frames.
THEOREM RoundTrip ==
    ASSUME NEW sequence \in Nat
    PROVE  /\ \A envelope \in Envelope : Encodable(envelope) =>
                 /\ Decodable(encode_command(sequence, envelope))
                 /\ Decoded(encode_command(sequence, envelope))
                        = Message(COMMAND_MESSAGE_TYPE, sequence, envelope)
           /\ \A status \in Status :
                 /\ Decodable(encode_queue_status(sequence, status))
                 /\ Decoded(encode_queue_status(sequence, status))
                        = Message(QUEUE_STATUS_MESSAGE_TYPE, sequence, status)
           /\ Decodable(encode_clock_request(sequence))
           /\ Decoded(encode_clock_request(sequence))
                  = Message(CLOCK_REQUEST_MESSAGE_TYPE, sequence, None)
           /\ \A response \in Response :
                 /\ Decodable(encode_clock_response(sequence, response))
                 /\ Decoded(encode_clock_response(sequence, response))
                        = Message(CLOCK_RESPONSE_MESSAGE_TYPE, sequence, response)
  <1>1. MAX_PAYLOAD_LEN \in Nat /\ MAX_PAYLOAD_LEN >= 6 /\ None \notin Nat
    BY ProtocolAssumption, ReaderAssumption DEF ProtocolAssumption, ReaderAssumption
  <1>2. \A f, message : Speaks(f, message) => Decodable(f) /\ Decoded(f) = message
    BY DEF Speaks, Entries
  <1>3. \A envelope \in Envelope : Encodable(envelope) =>
            Speaks(encode_command(sequence, envelope),
                   Message(COMMAND_MESSAGE_TYPE, sequence, envelope))
    BY <1>1, CommandSpeaks
  <1>4. \A status \in Status :
            Speaks(encode_queue_status(sequence, status),
                   Message(QUEUE_STATUS_MESSAGE_TYPE, sequence, status))
    BY <1>1, StatusSpeaks
  <1>5. /\ Speaks(encode_clock_request(sequence), Message(CLOCK_REQUEST_MESSAGE_TYPE, sequence, None))
        /\ \A response \in Response :
              Speaks(encode_clock_response(sequence, response),
                     Message(CLOCK_RESPONSE_MESSAGE_TYPE, sequence, response))
    BY <1>1, ClockSpeaks
  <1>6. \A envelope \in Envelope : Encodable(envelope) =>
            /\ Decodable(encode_command(sequence, envelope))
            /\ Decoded(encode_command(sequence, envelope))
                   = Message(COMMAND_MESSAGE_TYPE, sequence, envelope)
    BY <1>2, <1>3
  <1>7. \A status \in Status :
            /\ Decodable(encode_queue_status(sequence, status))
            /\ Decoded(encode_queue_status(sequence, status))
                   = Message(QUEUE_STATUS_MESSAGE_TYPE, sequence, status)
    BY <1>2, <1>4
  <1>8. /\ Decodable(encode_clock_request(sequence))
        /\ Decoded(encode_clock_request(sequence))
               = Message(CLOCK_REQUEST_MESSAGE_TYPE, sequence, None)
    BY <1>2, <1>5
  <1>9. \A response \in Response :
            /\ Decodable(encode_clock_response(sequence, response))
            /\ Decoded(encode_clock_response(sequence, response))
                   = Message(CLOCK_RESPONSE_MESSAGE_TYPE, sequence, response)
    BY <1>2, <1>5
  <1>. QED  BY <1>6, <1>7, <1>8, <1>9

-----------------------------------------------------------------------------
(* Steps of the stream.                                                    *)

\* Damage makes units of the units of a frame.
Damages == \A frame \in Seq(Nat) : Len(frame) >= 7 => Damaged(frame) \subseteq Seq(Nat)

\* The units are numbers.
StreamTyped ==
    /\ buffer \in Units /\ incoming \in Units
    /\ writes \in Nat /\ next_sequence \in Nat /\ reading \in BOOLEAN

\* What all writes have in common.
Wrote ==
    /\ writes' = writes + 1
    /\ \E x \in Units :
          /\ IsJoin(incoming', incoming, x)
          /\ \/ \E message :
                   /\ Speaks(x, message)
                   /\ unread' = Append(unread, [frame |-> x, message |-> message])
                   /\ sent' = IF message.type = QUEUE_STATUS_MESSAGE_TYPE THEN message.content ELSE sent
             \/ UNCHANGED <<unread, sent>>
    /\ UNCHANGED <<host_us, readerVars, trouble, renewed, daemonVars>>

\* A frame that is not damaged says something.
LEMMA WriteWrites ==
    ASSUME Damages, NEW frame, NEW message, Speaks(frame, message), Write(frame, message)
    PROVE  Wrote
  <1>1. frame \in Units /\ Len(frame) >= 7
    <2>1. frame \in Units /\ 1 \in FramesIn(frame) /\ EndOf(frame, 1) = Len(frame)
      BY DEF Speaks
    <2>2. /\ Len(FrameOf(frame, 1)) = EndOf(frame, 1) - 1 + 1 /\ Len(FrameOf(frame, 1)) >= 7
          /\ EndOf(frame, 1) \in Nat
      BY <2>1, FrameOfUnits
    <2>. QED  BY <2>1, <2>2
  <1>2. Damaged(frame) \subseteq Units
    BY <1>1 DEF Damages, Units
  <1>3. CASE /\ incoming' = incoming \o frame
             /\ unread' = Append(unread, [frame |-> frame, message |-> message])
             /\ sent' = IF message.type = QUEUE_STATUS_MESSAGE_TYPE THEN message.content ELSE sent
    BY <1>1, <1>3 DEF Write, Wrote, IsJoin
  <1>4. CASE (\E damaged \in Damaged(frame) : incoming' = incoming \o damaged) /\ UNCHANGED <<unread, sent>>
    BY <1>2, <1>4 DEF Write, Wrote, IsJoin
  <1>. QED  BY <1>3, <1>4 DEF Write

\* All writes are of this kind.
LEMMA WritesAre ==
    ASSUME Damages, StreamTyped, WriteStatus \/ WriteClockFrame \/ SendCommand \/ WriteAlien \/ Disturb
    PROVE  Wrote /\ next_sequence' \in Nat
  <1>1. /\ MAX_PAYLOAD_LEN \in Nat /\ MAX_PAYLOAD_LEN >= 6 /\ None \notin Nat
        /\ Envelopes \subseteq Envelope /\ Statuses \subseteq Status /\ Responses \subseteq Response
        /\ Aliens \subseteq Nat \X Seq(Nat) /\ Noise \subseteq Units
    BY ReaderAssumption, ProtocolAssumption DEF ReaderAssumption, ProtocolAssumption, Units
  <1>2. writes \in Nat /\ next_sequence \in Nat
    BY DEF StreamTyped
  <1>3. CASE WriteStatus
    <2>1. PICK status \in Statuses :
              Write(encode_queue_status(writes, status),
                    Message(QUEUE_STATUS_MESSAGE_TYPE, writes, status))
      BY <1>3 DEF WriteStatus
    <2>2. Speaks(encode_queue_status(writes, status), Message(QUEUE_STATUS_MESSAGE_TYPE, writes, status))
      BY <1>1, <1>2, StatusSpeaks
    <2>3. Wrote
      BY <2>1, <2>2, WriteWrites
    <2>. QED  BY <1>2, <1>3, <2>3 DEF WriteStatus
  <1>4. CASE WriteClockFrame
    <2>1. CASE Write(encode_clock_request(writes), Message(CLOCK_REQUEST_MESSAGE_TYPE, writes, None))
      <3>1. Speaks(encode_clock_request(writes), Message(CLOCK_REQUEST_MESSAGE_TYPE, writes, None))
        BY <1>1, <1>2, ClockSpeaks
      <3>2. Wrote
        BY <2>1, <3>1, WriteWrites
      <3>. QED  BY <1>2, <1>4, <3>2 DEF WriteClockFrame
    <2>2. CASE \E response \in Responses :
                  Write(encode_clock_response(writes, response),
                        Message(CLOCK_RESPONSE_MESSAGE_TYPE, writes, response))
      <3>1. PICK response \in Responses :
                Write(encode_clock_response(writes, response),
                      Message(CLOCK_RESPONSE_MESSAGE_TYPE, writes, response))
        BY <2>2
      <3>2. Speaks(encode_clock_response(writes, response),
                   Message(CLOCK_RESPONSE_MESSAGE_TYPE, writes, response))
        BY <1>1, <1>2, ClockSpeaks
      <3>3. Wrote
        BY <3>1, <3>2, WriteWrites
      <3>. QED  BY <1>2, <1>4, <3>3 DEF WriteClockFrame
    <2>. QED  BY <1>4, <2>1, <2>2 DEF WriteClockFrame
  <1>5. CASE SendCommand
    <2>1. PICK envelope \in Envelopes :
              /\ Encodable(envelope)
              /\ Write(encode_command(next_sequence, envelope),
                       Message(COMMAND_MESSAGE_TYPE, next_sequence, envelope))
              /\ next_sequence' = next_sequence + 1
      BY <1>5 DEF SendCommand
    <2>2. Speaks(encode_command(next_sequence, envelope),
                 Message(COMMAND_MESSAGE_TYPE, next_sequence, envelope))
      BY <1>1, <1>2, <2>1, CommandSpeaks
    <2>3. Wrote
      BY <2>1, <2>2, WriteWrites
    <2>. QED  BY <1>2, <2>1, <2>3
  <1>6. CASE WriteAlien
    <2>1. PICK alien \in Aliens : incoming' = incoming \o Framed(alien[1], writes, alien[2])
      BY <1>6 DEF WriteAlien
    <2>2. alien[1] \in Nat /\ alien[2] \in Units
      BY <1>1 DEF Units
    <2>3. Framed(alien[1], writes, alien[2]) \in Units
      <3>1. HasFields(Framed(alien[1], writes, alien[2]), alien[1], writes, alien[2])
        BY <1>2, <2>2, FramedUnits
      <3>. QED  BY <3>1 DEF HasFields
    <2>. QED  BY <1>2, <1>6, <2>1, <2>3 DEF WriteAlien, Wrote, IsJoin, history
  <1>7. CASE Disturb
    <2>1. PICK units \in Noise : incoming' = incoming \o units
      BY <1>7 DEF Disturb
    <2>. QED  BY <1>1, <1>2, <1>7, <2>1 DEF Disturb, Wrote, IsJoin, history
  <1>. QED  BY <1>3, <1>4, <1>5, <1>6, <1>7

\* The host's other calls touch neither the units nor what is known of them.
LEMMA OthersAre ==
    ASSUME Advance \/ Register \/ Heartbeat \/ Audit
    PROVE  UNCHANGED <<clientVars, incoming, readerVars, history>>
  BY DEF Advance, Register, Heartbeat, Audit, clientVars, readerVars, history

\* A read: a chunk is taken from what arrived, and is lost when there is no
\* room for it.
LEMMA ReadIs ==
    ASSUME StreamTyped, Read
    PROVE  \E chunk \in Units, rest \in Units :
              /\ IsJoin(incoming, chunk, rest) /\ incoming' = rest
              /\ Len(chunk) <= ReadSize /\ Len(chunk) \in Nat
              /\ Len(chunk) # 0 => Len(incoming') < Len(incoming)
              /\ \/ /\ Fits(buffer, chunk) /\ IsJoin(buffer', buffer, chunk)
                    /\ reading' = TRUE /\ trouble' = trouble
                 \/ /\ ~Fits(buffer, chunk) /\ UNCHANGED <<buffer, reading>>
                    /\ trouble' = trouble \cup {"lost"}
  <1>1. /\ incoming \in Seq(Nat) /\ incoming \in Units /\ Len(incoming) \in Nat
        /\ ReadSize \in Nat /\ ReadSize # 0 /\ Pieces \subseteq Nat
    BY Items, ReaderAssumption DEF StreamTyped, ReaderAssumption, Units
  <1>. DEFINE S == { k \in Pieces : k <= Len(incoming) } \cup { Min({ReadSize, Len(incoming)}) }
  <1>2. PICK n \in S :
            /\ n <= ReadSize
            /\ incoming' = From(incoming, n + 1)
            /\ LET chunk == SubSeq(incoming, 1, n)
               IN  IF Fits(buffer, chunk)
                   THEN buffer' = buffer \o chunk /\ reading' = TRUE /\ UNCHANGED trouble
                   ELSE UNCHANGED <<buffer, reading>> /\ trouble' = trouble \cup {"lost"}
    BY DEF Read
  <1>3. n \in Nat /\ n <= Len(incoming)
    <2>1. CASE n \in { k \in Pieces : k <= Len(incoming) }
      BY <1>1, <2>1
    <2>2. CASE n = Min({ReadSize, Len(incoming)})
      <3>1. n \in {ReadSize, Len(incoming)} /\ \A y \in {ReadSize, Len(incoming)} : n <= y
        BY <1>1, <2>2, Least
      <3>. QED  BY <1>1, <3>1
    <2>. QED  BY <2>1, <2>2
  <1>. DEFINE chunk == SubSeq(incoming, 1, n)
              rest == From(incoming, n + 1)
  <1>4. chunk \in Units /\ Len(chunk) = n
    <2>. DEFINE a == 1
    <2>1. a \in Nat \ {0} /\ a <= n + 1 /\ n - a + 1 = n
      BY <1>3
    <2>. HIDE DEF a
    <2>2. SubSeq(incoming, a, n) \in Seq(Nat) /\ Len(SubSeq(incoming, a, n)) = n - a + 1
      BY <1>1, <1>3, <2>1, Part
    <2>. QED  BY <2>1, <2>2 DEF Units, a
  <1>5. rest \in Units /\ Len(rest) = Len(incoming) - n
    <2>. DEFINE i == n + 1
                l == Len(incoming)
    <2>1. i \in 1 .. l + 1 /\ l - i + 1 = l - n
      <3>. HIDE DEF l
      <3>. QED  BY <1>1, <1>3 DEF l
    <2>. HIDE DEF i
    <2>2. From(incoming, i) \in Seq(Nat) /\ Len(From(incoming, i)) = l - i + 1
      BY <1>1, <2>1, Cut
    <2>. QED  BY <2>1, <2>2 DEF Units, i
  <1>6. IsJoin(incoming, chunk, rest)
    <2>. DEFINE l == Len(incoming)
                m == 1
    <2>1. /\ m \in 1 .. l + 1 /\ n \in m - 1 .. l /\ l \in n .. l
      BY <1>1, <1>3
    <2>2. SubSeq(incoming, m, n) \o SubSeq(incoming, n + 1, l) = SubSeq(incoming, m, l)
      <3>. HIDE DEF m
      <3>. QED  BY <1>1, <2>1, ConcatAdjacentSubSeq
    <2>3. SubSeq(incoming, 1, l) = incoming
      BY <1>1, SubSeqFull
    <2>. QED  BY <2>2, <2>3 DEF IsJoin, From
  <1>7. n # 0 => Len(rest) < Len(incoming)
    <2>. HIDE DEF rest
    <2>. QED  BY <1>1, <1>3, <1>5
  <1>8. incoming' = rest
    BY <1>2
  <1>9. \/ /\ Fits(buffer, chunk) /\ IsJoin(buffer', buffer, chunk)
           /\ reading' = TRUE /\ trouble' = trouble
        \/ /\ ~Fits(buffer, chunk) /\ UNCHANGED <<buffer, reading>>
           /\ trouble' = trouble \cup {"lost"}
    BY <1>2 DEF IsJoin
  <1>. HIDE DEF chunk, rest
  <1>. QED  BY <1>2, <1>3, <1>4, <1>5, <1>6, <1>7, <1>8, <1>9

\* A scan of the buffer, and what it does to what is left.
LEMMA DispatchScans ==
    ASSUME StreamTyped, DispatchNext
    PROVE  \E c, m :
              /\ Scanned(buffer, Left, NextFrame(buffer), c, m)
              /\ buffer' = From(buffer, c + 1) /\ buffer' \in Units
  <1>1. buffer \in Units /\ incoming \in Units /\ buffer \in Seq(Nat)
    BY DEF StreamTyped, Units
  <1>2. IsJoin(Left, buffer, incoming)
    BY DEF IsJoin, Left
  <1>3. Left \in Units
    BY <1>1, <1>2, Joined
  <1>4. PICK c, m : Scanned(buffer, Left, NextFrame(buffer), c, m)
    BY <1>1, <1>2, <1>3, ProtocolAssumption, NextIsScanned
  <1>5. c \in 0 .. Len(buffer) /\ NextFrame(buffer).rest = From(buffer, c + 1)
    BY <1>4 DEF Scanned
  <1>6. buffer' = NextFrame(buffer).rest
    BY DEF DispatchNext
  <1>7. From(buffer, c + 1) \in Units
    <2>. DEFINE i == c + 1
                l == Len(buffer)
    <2>1. l \in Nat
      BY <1>1, Items
    <2>2. i \in 1 .. l + 1
      <3>. HIDE DEF l
      <3>. QED  BY <1>5, <2>1 DEF l
    <2>. HIDE DEF i
    <2>. QED  BY <1>1, <2>2, Cut DEF Units, i
  <1>. QED  BY <1>4, <1>5, <1>6, <1>7

\* The units stay numbers.
LEMMA TypedStep ==
    ASSUME Damages, StreamTyped, [Next]_streamVars
    PROVE  StreamTyped'
  <1>1. buffer \in Units /\ incoming \in Units /\ writes \in Nat /\ next_sequence \in Nat /\ reading \in BOOLEAN
    BY DEF StreamTyped
  <1>2. CASE WriteStatus \/ WriteClockFrame \/ SendCommand \/ WriteAlien \/ Disturb
    <2>1. Wrote /\ next_sequence' \in Nat
      BY <1>2, WritesAre
    <2>2. PICK x \in Units : IsJoin(incoming', incoming, x)
      BY <2>1 DEF Wrote
    <2>3. incoming' \in Units
      BY <1>1, <2>2, Joined
    <2>4. buffer' = buffer /\ reading' = reading /\ writes' = writes + 1
      BY <2>1 DEF Wrote, readerVars
    <2>. QED  BY <1>1, <2>1, <2>3, <2>4 DEF StreamTyped
  <1>3. CASE Read
    <2>1. PICK chunk \in Units, rest \in Units :
              /\ incoming' = rest
              /\ \/ IsJoin(buffer', buffer, chunk) /\ reading' = TRUE
                 \/ UNCHANGED <<buffer, reading>>
      BY <1>3, ReadIs
    <2>2. buffer' \in Units /\ reading' \in BOOLEAN
      BY <1>1, <2>1, Joined
    <2>. QED  BY <1>1, <1>3, <2>1, <2>2 DEF StreamTyped, Read, clientVars
  <1>4. CASE DispatchNext
    <2>1. buffer' \in Units
      BY <1>4, DispatchScans
    <2>2. reading' \in BOOLEAN /\ incoming' = incoming /\ writes' = writes /\ next_sequence' = next_sequence
      BY <1>4 DEF DispatchNext, clientVars
    <2>. QED  BY <1>1, <2>1, <2>2 DEF StreamTyped
  <1>5. CASE Advance \/ Register \/ Heartbeat \/ Audit
    <2>1. UNCHANGED <<clientVars, incoming, readerVars>>
      BY <1>5, OthersAre
    <2>. QED  BY <1>1, <2>1 DEF StreamTyped, clientVars, readerVars
  <1>6. CASE UNCHANGED streamVars
    BY <1>1, <1>6 DEF StreamTyped, streamVars, clientVars, readerVars
  <1>. QED  BY <1>2, <1>3, <1>4, <1>5, <1>6 DEF Next

\* And they are so at first.
LEMMA TypedInit ==
    ASSUME Init
    PROVE  StreamTyped
  <1>1. <<>> \in Units
    BY DEF Units
  <1>2. buffer = <<>> /\ incoming = <<>> /\ writes = 0 /\ next_sequence = 0 /\ reading = FALSE
    BY DEF Init
  <1>. QED  BY <1>1, <1>2 DEF StreamTyped

-----------------------------------------------------------------------------
(* When a chunk is lost.                                                   *)

\* The codec holds a read_buf full besides all but one unit of a frame, as
\* the code's does: its capacity is 4096, a frame of the code has at most
\* 142 bytes, and a read_buf four times as many.
Roomy == MAX_FRAME_LEN - 1 + ReadSize <= max_capacity

\* Between two calls, and until a frame is rejected, the buffer holds no more
\* than the beginning of one frame.
LostInv ==
    /\ LostOnlyAfterRejection
    /\ "rejected" \notin trouble /\ ~reading => Len(buffer) < MAX_FRAME_LEN

\* A call begins with room for what it reads, and goes on until nothing more
\* is delimited or a frame is rejected.
LEMMA LostStep ==
    ASSUME Damages, Roomy, StreamTyped, LostInv, [Next]_streamVars
    PROVE  LostInv'
  <1>1. buffer \in Units /\ Len(buffer) \in Nat
    BY Items DEF StreamTyped, Units
  <1>2. /\ "lost" \in trouble => "rejected" \in trouble
        /\ "rejected" \notin trouble /\ ~reading => Len(buffer) < MAX_FRAME_LEN
    BY DEF LostInv, LostOnlyAfterRejection
  <1>3. MAX_FRAME_LEN \in Nat /\ ReadSize \in Nat /\ max_capacity \in Nat
    BY ProtocolAssumption, CodecAssumption, ReaderAssumption
       DEF ProtocolAssumption, CodecAssumption, ReaderAssumption, MAX_FRAME_LEN, HEADER_LEN, CHECKSUM_LEN
  <1>4. CASE WriteStatus \/ WriteClockFrame \/ SendCommand \/ WriteAlien \/ Disturb
    <2>1. Wrote
      BY <1>4, WritesAre
    <2>. QED  BY <1>2, <2>1 DEF Wrote, LostInv, LostOnlyAfterRejection, readerVars
  <1>5. CASE Read
    <2>1. PICK chunk \in Units, rest \in Units :
              /\ Len(chunk) <= ReadSize /\ Len(chunk) \in Nat
              /\ \/ reading' = TRUE /\ trouble' = trouble
                 \/ /\ ~Fits(buffer, chunk) /\ UNCHANGED <<buffer, reading>>
                    /\ trouble' = trouble \cup {"lost"}
      BY <1>5, ReadIs
    <2>2. ~reading
      BY <1>5 DEF Read
    <2>3. CASE reading' = TRUE /\ trouble' = trouble
      BY <1>2, <2>3 DEF LostInv, LostOnlyAfterRejection
    <2>4. CASE /\ ~Fits(buffer, chunk) /\ UNCHANGED <<buffer, reading>>
               /\ trouble' = trouble \cup {"lost"}
      <3>1. Len(buffer) + Len(chunk) > max_capacity
        BY <1>1, <1>3, <2>1, <2>4 DEF Fits
      <3>2. ~(Len(buffer) < MAX_FRAME_LEN)
        BY <1>1, <1>3, <2>1, <3>1 DEF Roomy
      <3>3. "rejected" \in trouble
        BY <1>2, <2>2, <3>2
      <3>. QED  BY <2>4, <3>3 DEF LostInv, LostOnlyAfterRejection
    <2>. QED  BY <2>1, <2>3, <2>4
  <1>6. CASE DispatchNext
    <2>. DEFINE next == NextFrame(buffer)
    <2>1. PICK c, m : Scanned(buffer, Left, next, c, m)
      BY <1>6, DispatchScans
    <2>2. next.frame = <<>> => Len(next.rest) < MAX_FRAME_LEN
      <3>1. m \in FramesIn(buffer) => FrameOf(buffer, m) # <<>>
        BY <1>1, FrameOfUnits
      <3>. HIDE DEF next
      <3>. QED  BY <2>1, <3>1 DEF Scanned
    <2>3. /\ buffer' = next.rest
          /\ reading' = (next.frame # <<>> /\ Decodable(next.frame))
          /\ trouble' = IF next.frame # <<>> /\ ~reading' THEN trouble \cup {"rejected"} ELSE trouble
      BY <1>6 DEF DispatchNext
    <2>. HIDE DEF next
    <2>4. "rejected" \notin trouble' /\ ~reading' => Len(buffer') < MAX_FRAME_LEN
      BY <2>2, <2>3
    <2>5. "lost" \in trouble' => "rejected" \in trouble'
      BY <1>2, <2>3
    <2>. QED  BY <2>4, <2>5 DEF LostInv, LostOnlyAfterRejection
  <1>7. CASE Advance \/ Register \/ Heartbeat \/ Audit
    <2>1. UNCHANGED <<readerVars, history>>
      BY <1>7, OthersAre
    <2>. QED  BY <1>2, <2>1 DEF LostInv, LostOnlyAfterRejection, readerVars, history
  <1>8. CASE UNCHANGED streamVars
    BY <1>2, <1>8 DEF LostInv, LostOnlyAfterRejection, streamVars, readerVars, history
  <1>. QED  BY <1>4, <1>5, <1>6, <1>7, <1>8 DEF Next

\* However noise, damage and false headers follow each other, the codec has
\* room for the next read unless a frame that it delimited was rejected.
THEOREM LostTheorem ==
    ASSUME Damages, Roomy
    PROVE  Spec => []LostOnlyAfterRejection
  <1>1. Init => StreamTyped /\ LostInv
    <2>1. ASSUME Init  PROVE LostInv
      <3>1. MAX_FRAME_LEN \in Nat /\ MAX_FRAME_LEN >= 7
        BY ProtocolAssumption DEF ProtocolAssumption, MAX_FRAME_LEN, HEADER_LEN, CHECKSUM_LEN
      <3>. QED  BY <2>1, <3>1 DEF Init, LostInv, LostOnlyAfterRejection
    <2>. QED  BY <2>1, TypedInit
  <1>2. (StreamTyped /\ LostInv) /\ [Next]_streamVars => (StreamTyped /\ LostInv)'
    BY TypedStep, LostStep
  <1>3. LostInv => LostOnlyAfterRejection
    BY DEF LostInv
  <1>. QED  BY <1>1, <1>2, <1>3, PTL DEF Spec

-----------------------------------------------------------------------------
(* The frames written undamaged are where they should be.                  *)

\* What is dispatched is what an entry says.
Messages == [type : MessageTypes, sequence : Nat, content : Envelope \cup Status \cup Response \cup {None}]

\* Every frame of what is left to scan that decodes is one written undamaged,
\* in their order, and until a chunk is lost each of them is there, apart
\* from all other frames.
KeptInv ==
    /\ unread \in Seq(Entries) /\ dispatched \in Seq(Messages)
    /\ \E at : Layout(Left, unread, at, "lost" \in trouble)

\* An entry of what was written.
LEMMA EntryIs ==
    ASSUME NEW u \in Seq(Entries)
    PROVE  /\ Len(u) \in Nat /\ DOMAIN u = 1 .. Len(u)
           /\ \A k \in 1 .. Len(u) :
                /\ u[k].frame \in Units /\ u[k].frame # <<>> /\ u[k].message \in Messages
                /\ Decodable(u[k].frame) /\ Decoded(u[k].frame) = u[k].message
  <1>1. Len(u) \in Nat /\ DOMAIN u = 1 .. Len(u) /\ \A k \in 1 .. Len(u) : u[k] \in Entries
    BY Items
  <1>2. \A e \in Entries : /\ e.frame \in Units /\ e.frame # <<>> /\ e.message \in Messages
                           /\ Decodable(e.frame) /\ Decoded(e.frame) = e.message
    BY DEF Entries, Messages
  <1>. QED  BY <1>1, <1>2

\* What is left after a write is what was left and what is written.
LEMMA LeftJoined ==
    ASSUME NEW b \in Units, NEW s \in Units, NEW x \in Units, NEW t, IsJoin(t, s, x)
    PROVE  /\ b \o s \in Units /\ b \o t \in Units /\ IsJoin(b \o t, b \o s, x)
  <1>1. t = s \o x /\ b \in Seq(Nat) /\ s \in Seq(Nat) /\ x \in Seq(Nat)
    BY DEF IsJoin, Units
  <1>2. b \o (s \o x) = (b \o s) \o x
    <2>1. b \in Seq(Nat) /\ s \in Seq(Nat) /\ x \in Seq(Nat)
      BY <1>1
    <2>. QED  BY <2>1, ConcatAssociative
  <1>3. IsJoin(b \o s, b, s) /\ IsJoin(b \o t, b \o s, x)
    BY <1>1, <1>2 DEF IsJoin
  <1>4. b \o s \in Units
    BY <1>3, Joined
  <1>5. b \o t \in Units
    BY <1>3, <1>4, Joined
  <1>. QED  BY <1>3, <1>4, <1>5

\* Writes keep the frames where they are, and add what they write.
LEMMA WroteKeeps ==
    ASSUME StreamTyped, KeptInv, Wrote, ChecksumTells
    PROVE  KeptInv'
  <1>. DEFINE lost == "lost" \in trouble
              s == Left
              t == Left'
  <1>1. PICK x \in Units :
            /\ IsJoin(incoming', incoming, x)
            /\ \/ \E message :
                     /\ Speaks(x, message)
                     /\ unread' = Append(unread, [frame |-> x, message |-> message])
               \/ UNCHANGED unread
    BY DEF Wrote
  <1>2. buffer' = buffer /\ dispatched' = dispatched /\ trouble' = trouble /\ writes' = writes + 1
    BY DEF Wrote, readerVars
  <1>3. s \in Units /\ t \in Units /\ IsJoin(t, s, x)
    <2>1. buffer \in Units /\ incoming \in Units
      BY DEF StreamTyped
    <2>2. /\ buffer \o incoming \in Units /\ buffer \o incoming' \in Units
          /\ IsJoin(buffer \o incoming', buffer \o incoming, x)
      BY <1>1, <2>1, LeftJoined
    <2>. QED  BY <1>2, <2>2 DEF Left
  <1>4. writes' # writes
    BY <1>2 DEF StreamTyped
  <1>5. \A i \in FramesIn(t) : EndOf(t, i) > Len(s) =>
            /\ i > Len(s)
            /\ IF unread' # unread THEN i = Len(s) + 1 ELSE ~Decodable(FrameOf(t, i))
    BY <1>4 DEF ChecksumTells, FrameOf
  <1>. HIDE DEF s, t
  <1>6. lost \in BOOLEAN /\ unread \in Seq(Entries) /\ Len(unread) \in Nat /\ dispatched \in Seq(Messages)
    BY EntryIs DEF KeptInv
  <1>7. PICK at : Layout(s, unread, at, lost)
    BY DEF KeptInv, s
  <1>. HIDE DEF lost
  <1>8. CASE unread' = unread
    <2>1. \A i \in FramesIn(t) : EndOf(t, i) > Len(s) => i > Len(s) /\ ~Decodable(FrameOf(t, i))
      BY <1>5, <1>8
    <2>2. \E now : Layout(t, unread, now, lost)
      BY <1>3, <1>6, <1>7, <2>1, Littered
    <2>. QED  BY <1>2, <1>6, <1>8, <2>2 DEF KeptInv, lost, t
  <1>9. ASSUME NEW message, Speaks(x, message),
               unread' = Append(unread, [frame |-> x, message |-> message])
        PROVE  KeptInv'
    <2>. DEFINE e == [frame |-> x, message |-> message]
                v == Append(unread, e)
    <2>1. e \in Entries /\ 1 \in FramesIn(x) /\ EndOf(x, 1) = Len(x) /\ e.frame = x
      BY <1>9 DEF Speaks
    <2>. HIDE DEF e
    <2>2. /\ v \in Seq(Entries) /\ Len(v) = Len(unread) + 1
          /\ \A k \in 1 .. Len(unread) : v[k] = unread[k]
          /\ v[Len(unread) + 1] = e
      BY <1>6, <2>1, AppendProperties
    <2>3. unread' = v
      BY <1>9 DEF e
    <2>. HIDE DEF v
    <2>4. unread' # unread
      <3>1. Len(v) # Len(unread)
        BY <1>6, <2>2
      <3>. QED  BY <2>3, <3>1
    <2>5. \A i \in FramesIn(t) : EndOf(t, i) > Len(s) => i = Len(s) + 1
      BY <1>5, <2>4
    <2>6. v[Len(unread) + 1].frame = x
      BY <2>1, <2>2
    <2>7. \E now : Layout(t, v, now, lost)
      BY <1>3, <1>6, <1>7, <2>1, <2>2, <2>5, <2>6, Appended
    <2>. QED  BY <1>2, <1>6, <2>2, <2>3, <2>7 DEF KeptInv, lost, t
  <1>. QED  BY <1>1, <1>8, <1>9

\* A read moves units within what is left, or loses some of them.
LEMMA ReadKeeps ==
    ASSUME StreamTyped, KeptInv, Read, ChecksumTells
    PROVE  KeptInv'
  <1>. DEFINE lost == "lost" \in trouble
              s == Left
              t == Left'
  <1>1. buffer \in Units /\ incoming \in Units /\ IsJoin(s, buffer, incoming)
    BY DEF StreamTyped, IsJoin, Left
  <1>2. PICK chunk \in Units, rest \in Units :
            /\ IsJoin(incoming, chunk, rest) /\ incoming' = rest
            /\ Len(chunk) \in Nat /\ (Len(chunk) # 0 => Len(incoming') < Len(incoming))
            /\ \/ IsJoin(buffer', buffer, chunk) /\ trouble' = trouble
               \/ UNCHANGED buffer /\ trouble' = trouble \cup {"lost"}
    BY ReadIs
  <1>3. unread' = unread /\ dispatched' = <<>> /\ writes' = writes
    BY DEF Read, clientVars
  <1>4. dispatched' \in Seq(Messages)
    BY <1>3
  <1>5. lost \in BOOLEAN /\ unread \in Seq(Entries) /\ Len(unread) \in Nat
    BY EntryIs DEF KeptInv
  <1>6. PICK at : Layout(s, unread, at, lost)
    BY DEF KeptInv
  <1>. DEFINE front == buffer \o chunk
  <1>7. /\ front \in Units /\ IsJoin(front, buffer, chunk) /\ s \in Units /\ IsJoin(s, front, rest)
    <2>1. IsJoin(front, buffer, chunk)
      BY DEF IsJoin
    <2>2. buffer \o chunk \in Units /\ buffer \o incoming \in Units
          /\ IsJoin(buffer \o incoming, buffer \o chunk, rest)
      BY <1>1, <1>2, LeftJoined
    <2>. QED  BY <2>1, <2>2 DEF Left
  <1>8. CASE IsJoin(buffer', buffer, chunk) /\ trouble' = trouble
    <2>1. t = s
      BY <1>2, <1>7, <1>8 DEF IsJoin, Left
    <2>. QED  BY <1>3, <1>4, <1>5, <1>6, <1>8, <2>1 DEF KeptInv
  <1>9. CASE UNCHANGED buffer /\ trouble' = trouble \cup {"lost"}
    <2>1. t = buffer \o rest
      BY <1>2, <1>9 DEF Left
    <2>2. t \in Units /\ IsJoin(t, buffer, rest)
      <3>1. IsJoin(t, buffer, rest)
        BY <2>1 DEF IsJoin
      <3>. HIDE DEF t
      <3>. QED  BY <1>1, <3>1, Joined
    <2>3. \A i \in FramesIn(t) : i <= Len(buffer) /\ EndOf(t, i) > Len(buffer) => ~Decodable(FrameOf(t, i))
          \/ Len(chunk) = 0
      BY <1>2, <1>9 DEF ChecksumTells, FrameOf
    <2>. DEFINE gone == "lost" \in trouble'
    <2>4. gone \in BOOLEAN /\ gone
      BY <1>9
    <2>5. CASE Len(chunk) # 0
      <3>1. \A i \in FramesIn(t) : i <= Len(buffer) /\ EndOf(t, i) > Len(buffer) =>
                ~Decodable(FrameOf(t, i))
        BY <2>3, <2>5
      <3>. HIDE DEF s, t, front, lost, gone
      <3>2. \E now : Placed(t, unread, now) /\ Ordered(t, unread, now) /\ Covered(t, unread, now)
        <4>1. /\ buffer \in Units /\ front \in Units /\ IsJoin(front, buffer, chunk)
              /\ s \in Units /\ IsJoin(s, front, rest) /\ t \in Units /\ IsJoin(t, buffer, rest)
              /\ incoming \in Units /\ IsJoin(s, buffer, incoming)
          BY <1>1, <1>7, <2>2
        <4>2. Loses(s, buffer, chunk, rest, t)
          BY <3>1, <4>1 DEF Loses
        <4>3. Len(unread) \in Nat /\ lost \in BOOLEAN /\ Layout(s, unread, at, lost)
          BY <1>5, <1>6
        <4>. QED  BY <4>2, <4>3, Lost
      <3>3. \E now : Layout(t, unread, now, gone)
        BY <2>4, <3>2 DEF Layout
      <3>. QED  BY <1>3, <1>4, <1>5, <3>3 DEF KeptInv, t, gone
    <2>6. CASE Len(chunk) = 0
      <3>1. t = s
        <4>1. chunk = <<>>
          BY <1>2, <2>6, EmptySeq DEF Units
        <4>2. incoming = rest
          <5>1. rest \in Seq(Nat) /\ incoming = <<>> \o rest
            BY <1>2, <4>1 DEF IsJoin, Units
          <5>. QED  BY <5>1, ConcatEmptySeq
        <4>. QED  BY <2>1, <4>2 DEF Left
      <3>. HIDE DEF s, t, gone
      <3>2. Layout(t, unread, at, gone)
        BY <1>6, <2>4, <3>1 DEF Layout
      <3>. QED  BY <1>3, <1>4, <1>5, <3>2 DEF KeptInv, t, gone
    <2>. QED  BY <2>5, <2>6
  <1>. QED  BY <1>2, <1>8, <1>9

\* A scan goes past the first c units of what is left.
LEMMA ScanPasses ==
    ASSUME NEW b \in Units, NEW x \in Units, NEW c \in 0 .. Len(b)
    PROVE  \E p \in Units :
              /\ Len(p) = c /\ From(b, c + 1) \o x \in Units
              /\ IsJoin(b \o x, p, From(b, c + 1) \o x)
  <1>. DEFINE l == Len(b)
              i == c + 1
              p == SubSeq(b, 1, c)
              rest == From(b, i)
  <1>1. l \in Nat /\ b \in Seq(Nat) /\ x \in Seq(Nat)
    BY Items DEF Units
  <1>2. c \in Nat /\ c <= l /\ i \in 1 .. l + 1
    <2>. HIDE DEF l
    <2>. QED  BY <1>1 DEF l
  <1>3. p \in Units /\ Len(p) = c
    <2>. DEFINE a == 1
    <2>1. a \in Nat \ {0} /\ a <= c + 1 /\ c - a + 1 = c
      BY <1>2
    <2>. HIDE DEF a
    <2>2. SubSeq(b, a, c) \in Seq(Nat) /\ Len(SubSeq(b, a, c)) = c - a + 1
      BY <1>1, <1>2, <2>1, Part, SMTT(30)
    <2>. QED  BY <2>1, <2>2 DEF Units, a
  <1>4. rest \in Units
    <2>. HIDE DEF i
    <2>. QED  BY <1>1, <1>2, Cut DEF Units
  <1>5. p \o rest = b
    <2>. DEFINE a == 1
    <2>1. /\ a \in 1 .. l + 1 /\ c \in a - 1 .. l /\ l \in c .. l
      BY <1>1, <1>2
    <2>2. SubSeq(b, a, c) \o SubSeq(b, c + 1, l) = SubSeq(b, a, l)
      <3>. HIDE DEF a
      <3>. QED  BY <1>1, <2>1, ConcatAdjacentSubSeq
    <2>3. SubSeq(b, 1, l) = b
      BY <1>1, SubSeqFull
    <2>. QED  BY <2>2, <2>3 DEF From
  <1>. HIDE DEF p, rest
  <1>6. (p \o rest) \o x = p \o (rest \o x)
    <2>1. p \in Seq(Nat) /\ rest \in Seq(Nat) /\ x \in Seq(Nat)
      BY <1>1, <1>3, <1>4 DEF Units
    <2>. QED  BY <2>1, ConcatAssociative, SMTT(30)
  <1>7. IsJoin(b \o x, p, rest \o x) /\ IsJoin(rest \o x, rest, x)
    BY <1>5, <1>6 DEF IsJoin
  <1>8. rest \o x \in Units
    BY <1>4, <1>7, Joined
  <1>. QED  BY <1>3, <1>7, <1>8 DEF rest

\* What happens when a frame is delimited, or none is.
LEMMA DispatchKeeps ==
    ASSUME StreamTyped, KeptInv, DispatchNext
    PROVE  /\ KeptInv'
           /\ Feeds => \E k \in DOMAIN unread :
                          /\ Last(dispatched') = unread[k].message
                          /\ unread' = From(unread, k + 1)
                          /\ "lost" \notin trouble => k = 1
           /\ ~Feeds => unread' = unread
           /\ Feeds => reading' /\ dispatched' = Append(dispatched, Decoded(NextFrame(buffer).frame))
           /\ ~(reading' /\ Decoded(NextFrame(buffer).frame).type = QUEUE_STATUS_MESSAGE_TYPE /\ ~Feeds)
  <1>. DEFINE lost == "lost" \in trouble
              s == Left
              t == Left'
              u == unread
              next == NextFrame(buffer)
              read == {k \in DOMAIN unread : unread[k].frame = next.frame}
  <1>1. buffer \in Units /\ incoming \in Units
    BY DEF StreamTyped
  <1>2. PICK c, m : Scanned(buffer, s, next, c, m) /\ buffer' = From(buffer, c + 1)
    BY DispatchScans
  <1>3. incoming' = incoming /\ trouble' \in {trouble, trouble \cup {"rejected"}}
    BY DEF DispatchNext
  <1>4. c \in 0 .. Len(buffer) /\ c \in Nat
    BY <1>2 DEF Scanned
  <1>5. PICK p \in Units : Len(p) = c /\ t \in Units /\ IsJoin(s, p, t)
    <2>1. t = From(buffer, c + 1) \o incoming /\ s = buffer \o incoming
      BY <1>2, <1>3 DEF Left
    <2>. HIDE DEF s, t
    <2>. QED  BY <1>1, <1>4, <2>1, ScanPasses
  <1>6. s \in Units /\ IsJoin(s, buffer, incoming)
    <2>1. IsJoin(s, buffer, incoming)
      BY DEF IsJoin, Left
    <2>. HIDE DEF s
    <2>. QED  BY <1>1, <2>1, Joined
  <1>7. lost \in BOOLEAN /\ (("lost" \in trouble') = lost)
    BY <1>3
  <1>8. u \in Seq(Entries) /\ Len(u) \in Nat /\ dispatched \in Seq(Messages) /\ DOMAIN u = 1 .. Len(u)
    BY EntryIs DEF KeptInv
  <1>9. \A k \in 1 .. Len(u) : /\ u[k].frame # <<>> /\ u[k].message \in Messages
                               /\ Decodable(u[k].frame) /\ Decoded(u[k].frame) = u[k].message
    BY <1>8, EntryIs
  <1>10. PICK at : Layout(s, u, at, lost)
    BY DEF KeptInv
  <1>11. Placed(s, u, at) /\ Ordered(s, u, at) /\ Covered(s, u, at) /\ (lost \/ Whole(s, u, at))
    BY <1>10 DEF Layout
  <1>12. /\ reading' = (next.frame # <<>> /\ Decodable(next.frame))
         /\ dispatched' = IF next.frame = <<>> THEN dispatched
                          ELSE IF reading' THEN Append(dispatched, Decoded(next.frame)) ELSE <<>>
         /\ unread' = IF read = {} THEN u ELSE From(u, Min(read) + 1)
    BY DEF DispatchNext
  <1>13. Len(dispatched) \in Nat /\ <<>> \in Seq(Messages)
    BY <1>8, Items
  <1>14. reading
    BY DEF DispatchNext
  <1>. HIDE DEF lost, s, t, u, next
  <1>15. ASSUME read = {}, next.frame = <<>> \/ ~Decodable(next.frame),
                lost \/ \A k \in 1 .. Len(u) : at[k] > c
         PROVE  /\ KeptInv' /\ ~Feeds /\ unread' = unread
                /\ ~reading'
    <2>1. unread' = u
      BY <1>12, <1>15
    <2>2. ~reading' /\ dispatched' \in {dispatched, <<>>}
      BY <1>12, <1>15
    <2>3. ~Feeds
      <3>1. ~(Len(dispatched') > Len(dispatched))
        BY <1>13, <2>2
      <3>. QED  BY <3>1 DEF Feeds
    <2>. DEFINE r == 0
    <2>4. /\ r \in 0 .. Len(u) /\ Len(u) = Len(u) - r /\ \A k \in 1 .. Len(u) : u[k] = u[k + r]
          /\ \A k \in 1 .. r : at[k] <= Len(p)
      BY <1>8
    <2>5. lost \/ \A k \in r + 1 .. Len(u) : at[k] > Len(p)
      BY <1>5, <1>15
    <2>. HIDE DEF r
    <2>6. \E now : Layout(t, u, now, lost)
      BY <1>5, <1>6, <1>7, <1>8, <1>10, <2>4, <2>5, Passed
    <2>7. dispatched' \in Seq(Messages)
      BY <1>8, <1>13, <2>2
    <2>8. KeptInv'
      BY <1>7, <1>8, <2>1, <2>6, <2>7 DEF KeptInv, t, u
    <2>. QED  BY <2>1, <2>2, <2>3, <2>8 DEF u
  <1>16. CASE next.frame = <<>> /\ \A i \in FramesIn(s) : i > c
    <2>1. read = {}
      BY <1>8, <1>9, <1>16 DEF u
    <2>2. lost \/ \A k \in 1 .. Len(u) : at[k] > c
      BY <1>11, <1>16 DEF Whole, Placed
    <2>. QED  BY <1>15, <1>16, <2>1, <2>2 DEF next
  <1>17. CASE /\ m \in FramesIn(buffer) /\ next.frame = FrameOf(buffer, m) /\ c = EndOf(buffer, m)
              /\ \A i \in FramesIn(s) : m <= i
    <2>1. m \in FramesIn(s) /\ next.frame = FrameOf(s, m) /\ c = EndOf(s, m)
      BY <1>1, <1>6, <1>17, InFront
    <2>2. m \in Nat \ {0} /\ m < c /\ next.frame # <<>>
      BY <1>6, <2>1, FrameOfUnits
    <2>3. ASSUME NEW k \in 1 .. Len(u), at[k] # 0
          PROVE  /\ at[k] \in FramesIn(s) /\ FrameOf(s, at[k]) = u[k].frame
                 /\ at[k] \in Nat /\ m <= at[k]
                 /\ EndOf(s, at[k]) \in Nat /\ at[k] < EndOf(s, at[k])
      <3>1. at[k] \in FramesIn(s) /\ FrameOf(s, at[k]) = u[k].frame
        BY <1>11, <2>3 DEF Placed
      <3>. QED  BY <1>6, <1>17, <3>1, FrameOfUnits
    <2>4. CASE ~Decodable(next.frame)
      <3>1. read = {}
        BY <1>8, <1>9, <2>4 DEF u
      <3>2. ASSUME ~lost, NEW k \in 1 .. Len(u)  PROVE at[k] > c
        <4>1. /\ at[k] # 0
              /\ \A i \in FramesIn(s) : i # at[k] => EndOf(s, i) < at[k] \/ EndOf(s, at[k]) < i
          BY <1>11, <3>2 DEF Whole
        <4>2. at[k] # m
          BY <1>9, <2>1, <2>3, <2>4, <4>1
        <4>3. c < at[k] \/ EndOf(s, at[k]) < m
          BY <2>1, <4>1, <4>2
        <4>. QED  BY <1>4, <2>2, <2>3, <4>1, <4>3
      <3>. QED  BY <1>15, <2>4, <3>1, <3>2 DEF next
    <2>5. CASE Decodable(next.frame)
      <3>1. PICK q \in 1 .. Len(u) : at[q] = m
        BY <1>11, <2>1, <2>5 DEF Covered
      <3>. DEFINE r == Min(read)
      <3>2. q \in read /\ read \subseteq Nat
        BY <1>8, <2>1, <2>2, <2>3, <3>1 DEF u
      <3>3. r \in read /\ r <= q
        BY <3>2, Least
      <3>4. r \in 1 .. Len(u) /\ u[r].frame = next.frame /\ read # {}
        BY <1>8, <3>3 DEF u
      <3>. HIDE DEF r, read
      <3>5. ASSUME NEW j \in 1 .. Len(u), at[j] # 0, j <= q  PROVE j = q
        <4>1. SUFFICES ASSUME j < q  PROVE FALSE
          BY <3>5
        <4>2. EndOf(s, at[j]) < at[q]
          BY <1>11, <2>2, <3>1, <3>5, <4>1 DEF Ordered
        <4>. QED  BY <2>2, <2>3, <3>1, <3>5, <4>2
      <3>6. ASSUME ~lost  PROVE r = q /\ q = 1
        <4>1. at[r] # 0 /\ 1 \in 1 .. Len(u) /\ at[1] # 0 /\ 1 <= q
          BY <1>8, <1>11, <3>4, <3>6 DEF Whole
        <4>. QED  BY <3>3, <3>4, <3>5, <4>1
      <3>. DEFINE v == From(u, r + 1)
      <3>7. v \in Seq(Entries) /\ Len(v) = Len(u) - r /\ \A k \in 1 .. Len(v) : v[k] = u[k + r]
        <4>. DEFINE i == r + 1
        <4>1. i \in 1 .. Len(u) + 1 /\ Len(u) - i + 1 = Len(u) - r
          BY <1>8, <3>4
        <4>. HIDE DEF i
        <4>2. /\ From(u, i) \in Seq(Entries) /\ Len(From(u, i)) = Len(u) - i + 1
              /\ \A j \in 1 .. Len(u) - i + 1 : From(u, i)[j] = u[i + j - 1]
          BY <1>8, <4>1, Cut
        <4>3. v = From(u, i)
          BY DEF i
        <4>. HIDE DEF v
        <4>4. \A k \in 1 .. Len(u) - i + 1 : i + k - 1 = k + r
          BY <3>4 DEF i
        <4>. QED  BY <4>1, <4>2, <4>3, <4>4
      <3>. HIDE DEF v
      <3>8. \A k \in 1 .. r : at[k] <= Len(p)
        <4>1. ASSUME NEW k \in 1 .. r  PROVE at[k] <= Len(p)
          <5>1. k \in 1 .. Len(u) /\ k <= q
            BY <1>8, <3>3, <3>4
          <5>2. CASE at[k] = 0
            BY <1>4, <1>5, <5>2
          <5>3. CASE at[k] # 0
            <6>1. at[k] = m
              BY <3>1, <3>5, <5>1, <5>3
            <6>. QED  BY <1>4, <1>5, <2>2, <6>1
          <5>. QED  BY <5>2, <5>3
        <4>. QED  BY <4>1
      <3>9. lost \/ \A k \in r + 1 .. Len(u) : at[k] > Len(p)
        <4>1. ASSUME ~lost, NEW k \in r + 1 .. Len(u)  PROVE at[k] > Len(p)
          <5>1. r = q /\ k \in 1 .. Len(u) /\ q < k
            BY <1>8, <3>4, <3>6, <4>1
          <5>2. at[k] # 0
            BY <1>11, <4>1, <5>1 DEF Whole
          <5>3. c < at[k]
            BY <1>11, <2>1, <2>2, <3>1, <5>1, <5>2 DEF Ordered
          <5>. QED  BY <1>4, <1>5, <2>3, <5>1, <5>2, <5>3
        <4>. QED  BY <4>1
      <3>10. \E now : Layout(t, v, now, lost)
        <4>1. r \in 0 .. Len(u)
          BY <1>8, <3>4
        <4>2. Len(u) \in Nat /\ Len(v) = Len(u) - r /\ \A k \in 1 .. Len(v) : v[k] = u[k + r]
          BY <1>8, <3>7
        <4>3. p \in Units /\ t \in Units /\ s \in Units /\ IsJoin(s, p, t) /\ lost \in BOOLEAN
          BY <1>5, <1>6, <1>7
        <4>. HIDE DEF v
        <4>. QED  BY <1>10, <3>8, <3>9, <4>1, <4>2, <4>3, Passed
      <3>. DEFINE said == Decoded(next.frame)
      <3>11. said = u[r].message /\ said \in Messages
        BY <1>9, <3>4
      <3>. HIDE DEF said
      <3>12. reading' /\ dispatched' = Append(dispatched, said) /\ unread' = v
        BY <1>12, <2>2, <2>5, <3>4 DEF said, v, r
      <3>13. /\ dispatched' \in Seq(Messages) /\ Len(dispatched') = Len(dispatched) + 1
             /\ dispatched'[Len(dispatched) + 1] = said
        <4>1. /\ Append(dispatched, said) \in Seq(Messages)
              /\ Len(Append(dispatched, said)) = Len(dispatched) + 1
              /\ Append(dispatched, said)[Len(dispatched) + 1] = said
          BY <1>8, <3>11, AppendProperties
        <4>. QED  BY <3>12, <4>1
      <3>14. Feeds /\ Last(dispatched') = said
        BY <1>13, <1>14, <3>13 DEF Feeds, Last
      <3>15. KeptInv'
        BY <1>7, <3>7, <3>10, <3>12, <3>13 DEF KeptInv, t
      <3>16. \E k \in DOMAIN unread :
                /\ Last(dispatched') = unread[k].message
                /\ unread' = From(unread, k + 1)
                /\ "lost" \notin trouble => k = 1
        <4>1. r \in DOMAIN u /\ Last(dispatched') = u[r].message /\ unread' = From(u, r + 1)
          BY <1>8, <3>4, <3>11, <3>12, <3>14 DEF v
        <4>2. ~lost => r = 1
          BY <3>6
        <4>. QED  BY <4>1, <4>2 DEF u, lost
      <3>. QED  BY <3>12, <3>14, <3>15, <3>16 DEF said, next
    <2>. QED  BY <2>4, <2>5
  <1>. QED  BY <1>2, <1>16, <1>17 DEF Scanned

\* No other step dispatches anything.
LEMMA OnlyDispatchFeeds ==
    ASSUME StreamTyped, KeptInv, [Next]_streamVars, ~DispatchNext
    PROVE  ~Feeds
  <1>1. Len(dispatched) \in Nat
    BY Items DEF KeptInv
  <1>2. CASE WriteStatus \/ WriteClockFrame \/ SendCommand \/ WriteAlien \/ Disturb
    <2>1. dispatched' = dispatched
      BY <1>2 DEF WriteStatus, WriteClockFrame, SendCommand, WriteAlien, Disturb, Write, readerVars
    <2>. QED  BY <1>1, <2>1 DEF Feeds
  <1>3. CASE Read
    BY <1>3 DEF Read, Feeds
  <1>4. CASE Advance \/ Register \/ Heartbeat \/ Audit
    <2>1. dispatched' = dispatched
      BY <1>4, OthersAre DEF readerVars
    <2>. QED  BY <1>1, <2>1 DEF Feeds
  <1>5. CASE UNCHANGED streamVars
    <2>1. dispatched' = dispatched
      BY <1>5 DEF streamVars, readerVars
    <2>. QED  BY <1>1, <2>1 DEF Feeds
  <1>. QED  BY <1>2, <1>3, <1>4, <1>5 DEF Next

\* Every step keeps what is known of the frames.
LEMMA KeptStep ==
    ASSUME Damages, StreamTyped, KeptInv, [Next]_streamVars, [ChecksumTells]_streamVars
    PROVE  KeptInv'
  <1>1. CASE UNCHANGED <<clientVars, incoming, readerVars, history>>
    <2>1. UNCHANGED <<unread, dispatched, trouble, buffer, incoming>>
      BY <1>1 DEF readerVars, history
    <2>. QED  BY <2>1 DEF KeptInv, Left
  <1>2. CASE UNCHANGED streamVars
    BY <1>1, <1>2 DEF streamVars
  <1>3. CASE Advance \/ Register \/ Heartbeat \/ Audit
    BY <1>1, <1>3, OthersAre
  <1>4. CASE ChecksumTells /\ (WriteStatus \/ WriteClockFrame \/ SendCommand \/ WriteAlien \/ Disturb)
    BY <1>4, WritesAre, WroteKeeps
  <1>5. CASE ChecksumTells /\ Read
    BY <1>5, ReadKeeps
  <1>6. CASE DispatchNext
    BY <1>6, DispatchKeeps
  <1>. QED  BY <1>2, <1>3, <1>4, <1>5, <1>6 DEF Next

\* At first there is nothing.
LEMMA KeptInit ==
    ASSUME Init
    PROVE  KeptInv
  <1>1. unread = <<>> /\ dispatched = <<>> /\ Left = <<>> \o <<>>
    BY DEF Init, Left
  <1>2. unread \in Seq(Entries) /\ dispatched \in Seq(Messages) /\ Len(unread) = 0
    BY <1>1
  <1>3. Left \in Units /\ Len(Left) = 0
    <2>. DEFINE e == <<>>
    <2>1. e \in Units /\ Len(e) = 0
      BY DEF Units
    <2>2. IsJoin(Left, e, e)
      BY <1>1 DEF IsJoin
    <2>. HIDE DEF e
    <2>3. Left \in Units /\ Len(Left) = Len(e) + Len(e)
      BY <2>1, <2>2, Joined
    <2>. QED  BY <2>1, <2>3
  <1>4. FramesIn(Left) = {}
    BY <1>3, FramesAreAt
  <1>. DEFINE at == [k \in 1 .. Len(unread) |-> 0]
  <1>5. at \in [1 .. Len(unread) -> Nat]
    OBVIOUS
  <1>6. Layout(Left, unread, at, "lost" \in trouble)
    <2>. HIDE DEF at
    <2>. QED  BY <1>2, <1>4, <1>5 DEF Layout, Placed, Ordered, Covered, Whole
  <1>. QED  BY <1>2, <1>6 DEF KeptInv

\* The invariant says that intact frames are there.
LEMMA KeptIsKept ==
    ASSUME StreamTyped, KeptInv
    PROVE  IntactFramesKept
  <1>1. SUFFICES ASSUME "lost" \notin trouble, NEW k \in DOMAIN unread
                 PROVE  \E i \in 1 .. Len(Left) - Len(unread[k].frame) + 1 :
                            SubSeq(Left, i, i + Len(unread[k].frame) - 1) = unread[k].frame
    BY DEF IntactFramesKept
  <1>. DEFINE s == Left
              f == unread[k].frame
  <1>2. s \in Units
    <2>1. buffer \in Units /\ incoming \in Units /\ IsJoin(s, buffer, incoming)
      BY DEF StreamTyped, IsJoin, Left
    <2>. HIDE DEF s
    <2>. QED  BY <2>1, Joined
  <1>3. k \in 1 .. Len(unread)
    BY EntryIs DEF KeptInv
  <1>4. PICK at : Layout(s, unread, at, "lost" \in trouble)
    BY DEF KeptInv
  <1>. DEFINE i == at[k]
              e == EndOf(s, i)
  <1>5. i \in FramesIn(s) /\ FrameOf(s, i) = f
    BY <1>1, <1>3, <1>4 DEF Layout, Placed, Whole
  <1>. HIDE DEF s, i
  <1>6. i \in Nat \ {0} /\ e \in Nat /\ Len(FrameOf(s, i)) = e - i + 1 /\ e <= Len(s) /\ Len(s) \in Nat
    <2>1. Len(s) \in Nat
      BY <1>2, Items DEF Units
    <2>. QED  BY <1>2, <1>5, <2>1, FrameOfUnits
  <1>7. SubSeq(s, i, e) = f
    BY <1>5 DEF FrameOf
  <1>8. Len(f) = e - i + 1
    BY <1>5, <1>6
  <1>. HIDE DEF f, e
  <1>9. i \in 1 .. Len(s) - Len(f) + 1 /\ i + Len(f) - 1 = e
    BY <1>6, <1>8
  <1>10. SubSeq(s, i, i + Len(f) - 1) = f
    BY <1>7, <1>9
  <1>. QED  BY <1>9, <1>10 DEF s, f

\* An undamaged frame is not swallowed, whatever noise and damage surround
\* it: what the scan goes past belongs to no frame, or to one of its own.
THEOREM KeptTheorem ==
    ASSUME Damages
    PROVE  Spec /\ ChecksumHolds => []IntactFramesKept
  <1>1. Init => StreamTyped /\ KeptInv
    BY TypedInit, KeptInit
  <1>2. (StreamTyped /\ KeptInv) /\ [Next]_streamVars /\ [ChecksumTells]_streamVars
            => (StreamTyped /\ KeptInv)'
    BY TypedStep, KeptStep
  <1>3. StreamTyped /\ KeptInv => IntactFramesKept
    BY KeptIsKept
  <1>. QED  BY <1>1, <1>2, <1>3, PTL DEF Spec, ChecksumHolds

\* The reader dispatches what was written undamaged, in its order, once, as
\* it was meant, and nothing else.
THEOREM ForgedTheorem ==
    ASSUME Damages
    PROVE  Spec /\ ChecksumHolds => NothingForged
  <1>. DEFINE A == Feeds => \E k \in DOMAIN unread :
                               /\ Last(dispatched') = unread[k].message
                               /\ unread' = From(unread, k + 1)
                               /\ "lost" \notin trouble => k = 1
  <1>1. Init => StreamTyped /\ KeptInv
    BY TypedInit, KeptInit
  <1>2. (StreamTyped /\ KeptInv) /\ [Next]_streamVars /\ [ChecksumTells]_streamVars
            => (StreamTyped /\ KeptInv)'
    BY TypedStep, KeptStep
  <1>3. (StreamTyped /\ KeptInv) /\ [Next]_streamVars => [A]_streamVars
    <2>1. ASSUME StreamTyped, KeptInv, DispatchNext  PROVE A
      BY <2>1, DispatchKeeps
    <2>2. ASSUME StreamTyped, KeptInv, [Next]_streamVars, ~DispatchNext  PROVE A
      BY <2>2, OnlyDispatchFeeds
    <2>. QED  BY <2>1, <2>2
  <1>. QED  BY <1>1, <1>2, <1>3, PTL DEF Spec, ChecksumHolds, NothingForged

-----------------------------------------------------------------------------
(* What the daemon knows.                                                  *)

IsStatusMessage(message) == message.type = QUEUE_STATUS_MESSAGE_TYPE

Session == [heartbeat_timeout_us : Timeouts, last_seen_host_us : Nat,
            last_status : Status \cup {None}]

\* The last status of the entries is the last one sent.
LastIsSent(u, last) ==
    \A k \in 1 .. Len(u) :
        IsStatusMessage(u[k].message) /\ (\A j \in k + 1 .. Len(u) : ~IsStatusMessage(u[j].message))
            => u[k].message.content = last

NoStatus(u) == \A k \in 1 .. Len(u) : ~IsStatusMessage(u[k].message)

\* Since a registration the session holds nothing, and since a status it
\* holds one.
Held(known, new) ==
    known # None => IF new THEN known.last_status = None ELSE known.last_status \in Status

\* Until a chunk is lost, the last status on its way is the last one sent,
\* and when none is on its way the session holds that one, unless it was
\* registered since.
KnowsInv ==
    /\ host_us \in Nat /\ sessions \in [Controllers -> Session \cup {None}]
    /\ renewed \in BOOLEAN /\ Held(sessions[Id], renewed)
    /\ "lost" \notin trouble =>
          /\ LastIsSent(unread, sent)
          /\ NoStatus(unread) /\ sessions[Id] # None /\ ~renewed => sessions[Id].last_status = sent

\* What is decoded from a status frame is a status.
LEMMA StatusSaid ==
    ASSUME NEW f \in Units, Decodable(f), IsStatusMessage(Decoded(f))
    PROVE  Decoded(f).content \in Status
  <1>1. f[4] = QUEUE_STATUS_MESSAGE_TYPE
    BY DEF IsStatusMessage, Decoded, Message
  <1>. DEFINE p == PayloadOf(f)
  <1>2. /\ IsFrame(f, QUEUE_STATUS_MESSAGE_TYPE) /\ IsQueueStatusPayload(p)
        /\ Decoded(f).content = StatusOf(p)
    BY <1>1 DEF Decodable, IsFrame, Decoded, Message, COMMAND_MESSAGE_TYPE,
                QUEUE_STATUS_MESSAGE_TYPE, CLOCK_REQUEST_MESSAGE_TYPE, CLOCK_RESPONSE_MESSAGE_TYPE
  <1>3. p \in Seq(Nat)
    <2>1. f \in Seq(Nat) /\ Len(f) \in Nat /\ Len(f) >= 6 /\ Len(f) = 6 + f[6] + 1
      BY <1>2, Items DEF IsFrame, Units, HEADER_LEN, CHECKSUM_LEN
    <2>2. f[6] \in Nat
      BY <2>1, Items
    <2>. DEFINE a == 7
                n == 6 + f[6]
    <2>3. a \in Nat \ {0} /\ n \in Nat /\ a <= n + 1 /\ n <= Len(f)
      BY <2>1, <2>2
    <2>4. p = SubSeq(f, a, n)
      BY DEF PayloadOf, HEADER_LEN
    <2>. HIDE DEF a, n, p
    <2>. QED  BY <2>1, <2>3, <2>4, Part
  <1>. HIDE DEF p
  <1>4. Len(p) = 6 /\ \A i \in 1 .. 6 : p[i] \in Nat
    BY <1>2, <1>3, Items DEF IsQueueStatusPayload
  <1>5. p[2] \in Nat /\ p[3] \in Nat /\ p[4] \in Nat /\ p[5] \in Nat /\ (p[6] = 1) \in BOOLEAN
    BY <1>4
  <1>6. StatusOf(p) \in Status
    BY <1>5 DEF StatusOf, Status
  <1>. QED  BY <1>2, <1>6

\* A write leaves the daemon alone, and the last status written undamaged is
\* the last of those on their way.
LEMMA WroteKnows ==
    ASSUME KeptInv, KnowsInv, Wrote
    PROVE  KnowsInv'
  <1>1. UNCHANGED <<host_us, sessions, renewed, trouble>>
    BY DEF Wrote, daemonVars
  <1>2. CASE UNCHANGED <<unread, sent>>
    BY <1>1, <1>2 DEF KnowsInv
  <1>3. ASSUME NEW e, unread' = Append(unread, e),
               sent' = IF IsStatusMessage(e.message) THEN e.message.content ELSE sent
        PROVE  KnowsInv'
    <2>. DEFINE u == unread
                v == Append(u, e)
    <2>1. u \in Seq(Entries) /\ Len(u) \in Nat
      BY EntryIs DEF KeptInv
    <2>2. Len(v) = Len(u) + 1 /\ v[Len(u) + 1] = e /\ \A k \in 1 .. Len(u) : v[k] = u[k]
      <3>. DEFINE S == Entries \cup {e}
      <3>1. u \in Seq(S) /\ e \in S
        BY <2>1
      <3>. HIDE DEF S
      <3>. QED  BY <3>1, AppendProperties
    <2>. HIDE DEF v, u
    <2>3. LastIsSent(u, sent) => LastIsSent(v, sent')
      <3>1. SUFFICES ASSUME LastIsSent(u, sent), NEW k \in 1 .. Len(v), IsStatusMessage(v[k].message),
                            \A j \in k + 1 .. Len(v) : ~IsStatusMessage(v[j].message)
                     PROVE  v[k].message.content = sent'
        BY DEF LastIsSent
      <3>2. CASE k = Len(u) + 1
        BY <1>3, <2>2, <3>1, <3>2
      <3>3. CASE k \in 1 .. Len(u)
        <4>1. Len(u) + 1 \in k + 1 .. Len(v)
          BY <2>1, <2>2, <3>3
        <4>2. sent' = sent
          BY <1>3, <2>2, <3>1, <4>1
        <4>3. \A j \in k + 1 .. Len(u) : j \in k + 1 .. Len(v) /\ v[j] = u[j]
          BY <2>1, <2>2, <3>3
        <4>4. v[k] = u[k] /\ \A j \in k + 1 .. Len(u) : ~IsStatusMessage(u[j].message)
          BY <2>2, <3>1, <3>3, <4>3
        <4>. QED  BY <3>1, <3>3, <4>2, <4>4 DEF LastIsSent
      <3>. QED  BY <2>1, <2>2, <3>2, <3>3
    <2>4. NoStatus(v) => NoStatus(u) /\ sent' = sent
      <3>1. SUFFICES ASSUME NoStatus(v)  PROVE NoStatus(u) /\ sent' = sent
        OBVIOUS
      <3>2. \A k \in 1 .. Len(v) : ~IsStatusMessage(v[k].message)
        BY <3>1 DEF NoStatus
      <3>3. Len(u) + 1 \in 1 .. Len(v) /\ \A k \in 1 .. Len(u) : k \in 1 .. Len(v)
        BY <2>1, <2>2
      <3>4. \A k \in 1 .. Len(u) : ~IsStatusMessage(u[k].message)
        BY <2>2, <3>2, <3>3
      <3>5. ~IsStatusMessage(e.message)
        BY <2>2, <3>2, <3>3
      <3>. QED  BY <1>3, <3>4, <3>5 DEF NoStatus
    <2>5. unread' = v
      BY <1>3 DEF u, v
    <2>. QED  BY <1>1, <2>3, <2>4, <2>5 DEF KnowsInv, u
  <1>4. PICK x \in Units :
            \/ \E message :
                  /\ unread' = Append(unread, [frame |-> x, message |-> message])
                  /\ sent' = IF message.type = QUEUE_STATUS_MESSAGE_TYPE THEN message.content ELSE sent
            \/ UNCHANGED <<unread, sent>>
    BY DEF Wrote
  <1>5. ASSUME NEW message,
               unread' = Append(unread, [frame |-> x, message |-> message]),
               sent' = IF message.type = QUEUE_STATUS_MESSAGE_TYPE THEN message.content ELSE sent
        PROVE  KnowsInv'
    <2>. DEFINE e == [frame |-> x, message |-> message]
    <2>1. e.message = message
      OBVIOUS
    <2>2. unread' = Append(unread, e)
      BY <1>5
    <2>. HIDE DEF e
    <2>3. sent' = IF IsStatusMessage(e.message) THEN e.message.content ELSE sent
      BY <1>5, <2>1 DEF IsStatusMessage
    <2>. QED  BY <1>3, <2>2, <2>3
  <1>. QED  BY <1>2, <1>4, <1>5

\* A status that is dispatched is the first on its way; the daemon has the
\* last one when none follows.
LEMMA DispatchKnows ==
    ASSUME StreamTyped, KeptInv, KnowsInv, DispatchNext
    PROVE  KnowsInv'
  <1>. DEFINE u == unread
              said == Decoded(NextFrame(buffer).frame)
              lost == "lost" \in trouble
  <1>1. /\ KeptInv'
        /\ Feeds => \E k \in DOMAIN unread :
                       /\ Last(dispatched') = unread[k].message
                       /\ unread' = From(unread, k + 1)
                       /\ "lost" \notin trouble => k = 1
        /\ ~Feeds => unread' = unread
        /\ Feeds => reading' /\ dispatched' = Append(dispatched, said)
        /\ ~(reading' /\ said.type = QUEUE_STATUS_MESSAGE_TYPE /\ ~Feeds)
    BY DispatchKeeps
  <1>2. /\ IF reading' /\ IsStatusMessage(said)
           THEN UpdateQueueStatus(Id, said.content, host_us)
           ELSE UNCHANGED daemonVars
        /\ renewed' = (renewed /\ ~(reading' /\ IsStatusMessage(said)))
        /\ host_us' = host_us /\ sent' = sent
        /\ trouble' \in {trouble, trouble \cup {"rejected"}}
    BY DEF DispatchNext, IsStatusMessage
  <1>3. ("lost" \in trouble') = lost
    BY <1>2
  <1>4. /\ host_us \in Nat /\ sessions \in [Controllers -> Session \cup {None}]
        /\ renewed \in BOOLEAN /\ Held(sessions[Id], renewed)
        /\ ~lost => /\ LastIsSent(u, sent)
                    /\ NoStatus(u) /\ sessions[Id] # None /\ ~renewed => sessions[Id].last_status = sent
    BY DEF KnowsInv
  <1>5. /\ u \in Seq(Entries) /\ Len(u) \in Nat /\ DOMAIN u = 1 .. Len(u)
        /\ dispatched \in Seq(Messages) /\ Len(dispatched) \in Nat
    BY EntryIs, Items DEF KeptInv
  <1>6. Id \in Controllers
    BY ReaderAssumption DEF ReaderAssumption
  <1>. HIDE DEF u, said, lost
  <1>7. CASE ~Feeds
    <2>1. unread' = u /\ sessions' = sessions /\ renewed' = renewed
      BY <1>1, <1>2, <1>4, <1>7 DEF u, IsStatusMessage, daemonVars
    <2>. QED  BY <1>2, <1>3, <1>4, <2>1 DEF KnowsInv, lost
  <1>8. CASE Feeds
    <2>1. PICK k \in 1 .. Len(u) :
              Last(dispatched') = u[k].message /\ unread' = From(u, k + 1) /\ (~lost => k = 1)
      BY <1>1, <1>5, <1>8 DEF u, lost
    <2>2. said = u[k].message
      <3>1. dispatched' = Append(dispatched, said)
        BY <1>1, <1>8
      <3>2. /\ Len(dispatched') = Len(dispatched) + 1 /\ dispatched'[Len(dispatched) + 1] = said
        <4>. DEFINE S == Messages \cup {said}
        <4>1. dispatched \in Seq(S) /\ said \in S
          BY <1>5
        <4>. HIDE DEF S
        <4>2. /\ Len(Append(dispatched, said)) = Len(dispatched) + 1
              /\ Append(dispatched, said)[Len(dispatched) + 1] = said
          BY <4>1, AppendProperties
        <4>. QED  BY <3>1, <4>2
      <3>3. Last(dispatched') = said
        BY <1>5, <3>2 DEF Last
      <3>. QED  BY <2>1, <3>3
    <2>3. reading'
      BY <1>1, <1>8
    <2>4. IsStatusMessage(said) => said.content \in Status
      <3>1. u[k].frame \in Units /\ Decodable(u[k].frame) /\ Decoded(u[k].frame) = said
        BY <1>5, <2>2, EntryIs
      <3>. QED  BY <3>1, StatusSaid
    <2>5. /\ sessions' \in [Controllers -> Session \cup {None}]
          /\ ~IsStatusMessage(said) => sessions' = sessions /\ renewed' = renewed
          /\ IsStatusMessage(said) =>
                /\ renewed' = FALSE
                /\ sessions'[Id] # None => sessions'[Id].last_status = said.content
      <3>1. CASE ~IsStatusMessage(said)
        BY <1>2, <1>4, <3>1 DEF daemonVars
      <3>2. CASE IsStatusMessage(said)
        <4>. DEFINE old == sessions[Id]
                    new == IF old = None THEN None ELSE SessionUpdated(old, said.content, host_us)
        <4>1. sessions' = [sessions EXCEPT ![Id] = new]
          BY <1>2, <2>3, <3>2 DEF UpdateQueueStatus
        <4>2. old \in Session \cup {None}
          BY <1>4, <1>6
        <4>. HIDE DEF old
        <4>3. /\ new \in Session \cup {None}
              /\ new # None => new.last_status = said.content
          BY <1>4, <2>4, <3>2, <4>2 DEF SessionUpdated, Session
        <4>. HIDE DEF new
        <4>4. sessions'[Id] = new /\ sessions' \in [Controllers -> Session \cup {None}]
          BY <1>4, <1>6, <4>1, <4>3
        <4>. QED  BY <1>2, <2>3, <3>2, <4>3, <4>4
      <3>. QED  BY <3>1, <3>2
    <2>6. renewed' \in BOOLEAN /\ Held(sessions'[Id], renewed')
      <3>1. CASE IsStatusMessage(said)
        <4>1. renewed' = FALSE /\ (sessions'[Id] # None => sessions'[Id].last_status \in Status)
          BY <2>4, <2>5, <3>1
        <4>. QED  BY <4>1 DEF Held
      <3>2. CASE ~IsStatusMessage(said)
        <4>1. sessions'[Id] = sessions[Id] /\ renewed' = renewed
          BY <2>5, <3>2
        <4>. QED  BY <1>4, <4>1
      <3>. QED  BY <3>1, <3>2
    <2>7. ASSUME ~lost
          PROVE  /\ LastIsSent(unread', sent)
                 /\ NoStatus(unread') /\ sessions'[Id] # None /\ ~renewed' => sessions'[Id].last_status = sent
      <3>. DEFINE v == From(u, 2)
      <3>1. k = 1 /\ unread' = v
        BY <2>1, <2>7
      <3>2. Len(v) = Len(u) - 1 /\ Len(v) \in Nat /\ \A j \in 1 .. Len(v) : v[j] = u[j + 1]
        <4>. DEFINE i == 2
        <4>1. i \in 1 .. Len(u) + 1 /\ Len(u) - i + 1 = Len(u) - 1 /\ Len(u) - 1 \in Nat
          BY <1>5, <2>1
        <4>2. \A j \in 1 .. Len(u) - 1 : i + j - 1 = j + 1
          BY <1>5
        <4>. HIDE DEF i
        <4>3. /\ Len(From(u, i)) = Len(u) - i + 1
              /\ \A j \in 1 .. Len(u) - i + 1 : From(u, i)[j] = u[i + j - 1]
          BY <1>5, <4>1, Cut
        <4>4. v = From(u, i)
          BY DEF i
        <4>. HIDE DEF v
        <4>. QED  BY <4>1, <4>2, <4>3, <4>4
      <3>. HIDE DEF v
      <3>3. LastIsSent(v, sent)
        <4>1. SUFFICES ASSUME NEW j \in 1 .. Len(v), IsStatusMessage(v[j].message),
                              \A i \in j + 1 .. Len(v) : ~IsStatusMessage(v[i].message)
                       PROVE  v[j].message.content = sent
          BY DEF LastIsSent
        <4>2. j + 1 \in 1 .. Len(u) /\ v[j] = u[j + 1]
          BY <1>5, <3>2
        <4>3. ASSUME NEW i \in (j + 1) + 1 .. Len(u)  PROVE ~IsStatusMessage(u[i].message)
          <5>1. i - 1 \in j + 1 .. Len(v) /\ i - 1 \in 1 .. Len(v) /\ (i - 1) + 1 = i
            BY <1>5, <3>2, <4>3
          <5>2. v[i - 1] = u[i]
            BY <3>2, <5>1
          <5>. QED  BY <4>1, <5>1, <5>2
        <4>. QED  BY <1>4, <2>7, <4>1, <4>2, <4>3 DEF LastIsSent
      <3>4. ASSUME NoStatus(v), sessions'[Id] # None, ~renewed'
            PROVE  sessions'[Id].last_status = sent
        <4>1. ASSUME NEW i \in 1 + 1 .. Len(u)  PROVE ~IsStatusMessage(u[i].message)
          <5>1. i - 1 \in 1 .. Len(v) /\ (i - 1) + 1 = i
            BY <1>5, <3>2, <4>1
          <5>2. v[i - 1] = u[i]
            BY <3>2, <5>1
          <5>. QED  BY <3>4, <5>1, <5>2 DEF NoStatus
        <4>2. CASE IsStatusMessage(said)
          <5>1. said.content = sent
            BY <1>4, <2>1, <2>2, <2>7, <3>1, <4>1, <4>2 DEF LastIsSent
          <5>. QED  BY <2>5, <3>4, <4>2, <5>1
        <4>3. CASE ~IsStatusMessage(said)
          <5>1. NoStatus(u)
            <6>1. \A i \in 1 .. Len(u) : i = 1 \/ i \in 1 + 1 .. Len(u)
              BY <1>5
            <6>. QED  BY <2>2, <3>1, <4>1, <4>3, <6>1 DEF NoStatus
          <5>. QED  BY <1>4, <2>5, <2>7, <3>4, <4>3, <5>1
        <4>. QED  BY <4>2, <4>3
      <3>. QED  BY <3>1, <3>3, <3>4
    <2>. QED  BY <1>2, <1>3, <1>4, <2>6, <2>5, <2>7 DEF KnowsInv, lost
  <1>. QED  BY <1>7, <1>8

\* A registration forgets the status, a heartbeat keeps it.
LEMMA OthersKnow ==
    ASSUME KnowsInv, Advance \/ Register \/ Heartbeat \/ Audit
    PROVE  KnowsInv'
  <1>1. UNCHANGED <<unread, sent, trouble>>
    BY OthersAre DEF history
  <1>2. /\ host_us \in Nat /\ sessions \in [Controllers -> Session \cup {None}]
        /\ renewed \in BOOLEAN /\ Held(sessions[Id], renewed)
        /\ "lost" \notin trouble =>
              /\ LastIsSent(unread, sent)
              /\ NoStatus(unread) /\ sessions[Id] # None /\ ~renewed => sessions[Id].last_status = sent
    BY DEF KnowsInv
  <1>3. Id \in Controllers
    BY ReaderAssumption DEF ReaderAssumption
  <1>4. CASE host_us' \in Nat /\ sessions' = sessions /\ renewed' = renewed
    BY <1>1, <1>2, <1>4 DEF KnowsInv
  <1>5. CASE Advance
    BY <1>2, <1>4, <1>5 DEF Advance, daemonVars
  <1>6. CASE Audit
    BY <1>2, <1>4, <1>6 DEF Audit, AuditHeartbeats
  <1>7. CASE Register
    <2>1. PICK c \in Controllers, timeout \in Timeouts :
              /\ sessions' = [sessions EXCEPT ![c] = NewSession(timeout)]
              /\ renewed' = (renewed \/ c = Id)
      BY <1>7 DEF Register, RegisterController
    <2>2. NewSession(timeout) \in Session /\ NewSession(timeout).last_status = None
      BY <2>1 DEF NewSession, Session
    <2>3. host_us' \in Nat
      BY <1>2, <1>7 DEF Register
    <2>. HIDE DEF NewSession
    <2>4. sessions' \in [Controllers -> Session \cup {None}] /\ renewed' \in BOOLEAN
      BY <1>2, <2>1, <2>2
    <2>5. CASE c = Id
      BY <1>1, <1>2, <1>3, <2>1, <2>2, <2>3, <2>4, <2>5 DEF KnowsInv, Held
    <2>6. CASE c # Id
      <3>1. sessions'[Id] = sessions[Id] /\ renewed' = renewed
        BY <1>2, <1>3, <2>1, <2>6
      <3>. QED  BY <1>1, <1>2, <2>3, <2>4, <3>1 DEF KnowsInv
    <2>. QED  BY <2>5, <2>6
  <1>8. CASE Heartbeat
    <2>1. PICK c \in Controllers :
              sessions[c] # None /\ sessions' = [sessions EXCEPT ![c].last_seen_host_us = host_us]
      BY <1>8 DEF Heartbeat, RecordHeartbeat
    <2>. DEFINE old == sessions[c]
                new == [old EXCEPT !.last_seen_host_us = host_us]
    <2>2. sessions' = [sessions EXCEPT ![c] = new]
      BY <2>1
    <2>3. old \in Session
      BY <1>2, <2>1
    <2>. HIDE DEF old
    <2>4. new \in Session /\ new.last_status = old.last_status
      BY <1>2, <2>3 DEF Session
    <2>. HIDE DEF new
    <2>5. host_us' \in Nat /\ renewed' = renewed
      BY <1>2, <1>8 DEF Heartbeat
    <2>6. /\ sessions' \in [Controllers -> Session \cup {None}]
          /\ sessions'[Id] = IF c = Id THEN new ELSE sessions[Id]
      BY <1>2, <1>3, <2>1, <2>2, <2>4
    <2>7. /\ sessions'[Id] # None => sessions[Id] # None
          /\ sessions'[Id] # None => sessions'[Id].last_status = sessions[Id].last_status
      BY <2>1, <2>4, <2>6 DEF old
    <2>. QED  BY <1>1, <1>2, <2>5, <2>6, <2>7 DEF KnowsInv, Held
  <1>. QED  BY <1>5, <1>6, <1>7, <1>8

\* Every step keeps what the daemon knows up to date.
LEMMA KnowsStep ==
    ASSUME Damages, StreamTyped, KeptInv, KnowsInv, [Next]_streamVars
    PROVE  KnowsInv'
  <1>1. CASE WriteStatus \/ WriteClockFrame \/ SendCommand \/ WriteAlien \/ Disturb
    BY <1>1, WritesAre, WroteKnows
  <1>2. CASE Read
    <2>1. UNCHANGED <<host_us, sessions, unread, sent, renewed>>
      BY <1>2 DEF Read, daemonVars
    <2>2. trouble' \in {trouble, trouble \cup {"lost"}}
      BY <1>2, ReadIs
    <2>. QED  BY <2>1, <2>2 DEF KnowsInv
  <1>3. CASE DispatchNext
    BY <1>3, DispatchKnows
  <1>4. CASE Advance \/ Register \/ Heartbeat \/ Audit
    BY <1>4, OthersKnow
  <1>5. CASE UNCHANGED streamVars
    <2>1. UNCHANGED <<host_us, sessions, unread, sent, trouble, renewed>>
      BY <1>5 DEF streamVars, history, daemonVars
    <2>. QED  BY <2>1 DEF KnowsInv
  <1>. QED  BY <1>1, <1>2, <1>3, <1>4, <1>5 DEF Next

\* At first no controller is registered and nothing is on its way.
LEMMA KnowsInit ==
    ASSUME Init
    PROVE  KnowsInv
  <1>1. /\ host_us = 0 /\ unread = <<>> /\ sessions = [c \in Controllers |-> None]
        /\ renewed = TRUE
    BY DEF Init, DaemonInit
  <1>2. Id \in Controllers
    BY ReaderAssumption DEF ReaderAssumption
  <1>3. Len(unread) = 0
    BY <1>1
  <1>4. LastIsSent(unread, sent)
    BY <1>3 DEF LastIsSent
  <1>. QED  BY <1>1, <1>2, <1>4 DEF KnowsInv, Held

\* What is reported of a session is the status it holds, the blank when it
\* holds none.
LEMMA KnowsIsKnown ==
    ASSUME KeptInv, KnowsInv
    PROVE  DaemonKnowsStatus
  <1>. DEFINE report == SessionStatus(Id, host_us)
              reported == [capacity |-> report.queue_capacity, fill |-> report.queue_fill,
                           earliest_accepted |-> report.earliest_accepted_tick,
                           latest_accepted |-> report.latest_accepted_tick,
                           underrun |-> report.underrun]
  <1>1. SUFFICES ASSUME sessions[Id] # None, "lost" \notin trouble,
                        \A k \in DOMAIN unread : unread[k].message.type # QUEUE_STATUS_MESSAGE_TYPE
                 PROVE  reported = IF renewed THEN BlankStatus ELSE sent
    BY DEF DaemonKnowsStatus
  <1>2. NoStatus(unread)
    BY <1>1, EntryIs DEF KeptInv, NoStatus, IsStatusMessage
  <1>3. /\ Held(sessions[Id], renewed) /\ None \notin Status
        /\ ~renewed => sessions[Id].last_status = sent
    BY <1>1, <1>2, ReaderAssumption DEF KnowsInv, ReaderAssumption
  <1>4. CASE renewed
    <2>1. sessions[Id].last_status = None
      BY <1>1, <1>3, <1>4 DEF Held
    <2>. QED  BY <1>4, <2>1 DEF SessionStatus, BlankStatus
  <1>5. CASE ~renewed
    <2>1. sent \in Status /\ sent # None /\ sessions[Id].last_status = sent
      BY <1>1, <1>3, <1>5 DEF Held
    <2>2. reported = [capacity |-> sent.capacity, fill |-> sent.fill,
                      earliest_accepted |-> sent.earliest_accepted,
                      latest_accepted |-> sent.latest_accepted, underrun |-> sent.underrun]
      BY <2>1 DEF SessionStatus
    <2>. HIDE DEF reported
    <2>3. reported = sent
      BY <2>1, <2>2 DEF Status
    <2>. QED  BY <1>5, <2>3
  <1>. QED  BY <1>4, <1>5

\* Once no status is on its way, the daemon reports what the controller said
\* last of itself, and the blank only when a registration came after it.
THEOREM KnowsTheorem ==
    ASSUME Damages
    PROVE  Spec /\ ChecksumHolds => []DaemonKnowsStatus
  <1>. DEFINE I == StreamTyped /\ KeptInv /\ KnowsInv
  <1>1. Init => I
    BY TypedInit, KeptInit, KnowsInit
  <1>2. I /\ [Next]_streamVars /\ [ChecksumTells]_streamVars => I'
    BY TypedStep, KeptStep, KnowsStep
  <1>3. I => DaemonKnowsStatus
    BY KnowsIsKnown
  <1>. QED  BY <1>1, <1>2, <1>3, PTL DEF Spec, ChecksumHolds

=============================================================================
