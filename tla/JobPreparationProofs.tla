------------------------ MODULE JobPreparationProofs ------------------------
(***************************************************************************)
(* Proofs of the three properties of JobPreparation, for lines, programs   *)
(* and jobs of any length.  What the lowerer and the auditor make of a     *)
(* sequence is a recursive function; what is proved of it is proved for    *)
(* one position after the other.                                           *)
(***************************************************************************)
EXTENDS JobPreparation, SequenceTheorems, WellFoundedInduction, TLAPS

-----------------------------------------------------------------------------
(* Induction over positions.                                               *)

\* A set that holds the first position and with each one the next holds all.
LEMMA Positions ==
    ASSUME NEW n \in Nat, NEW P, 0 \in P, \A i \in 1 .. n : i - 1 \in P => i \in P
    PROVE  n \in P /\ 0 .. n \subseteq P
  <1>. DEFINE D == (0 .. n) \ P
  <1>1. SUFFICES ASSUME D # {}  PROVE FALSE
    OBVIOUS
  <1>2. IsWellFoundedOn(OpToRel(<, Nat), Nat)
    BY NatLessThanWellFounded
  <1>3. PICK x \in D : \A y \in D : ~(<<y, x>> \in OpToRel(<, Nat))
    <2>1. D \subseteq Nat
      OBVIOUS
    <2> HIDE DEF D
    <2> QED  BY <1>1, <1>2, <2>1, WFMin
  <1>4. x \in 1 .. n /\ x \in Nat /\ x - 1 \in Nat /\ x - 1 \in 0 .. n /\ x - 1 < x
    OBVIOUS
  <1>5. x - 1 \in P
    <2>1. SUFFICES ASSUME x - 1 \in D  PROVE FALSE
      BY <1>4
    <2>2. <<x - 1, x>> \in OpToRel(<, Nat)
      BY <1>4 DEF OpToRel
    <2>. QED  BY <1>3, <2>1, <2>2
  <1>6. x \in P
    BY <1>4, <1>5
  <1>. QED  BY <1>3, <1>6

\* A function that proceeds by F from a.
Proceeds(f, n, a, F) == \A i \in 0 .. n : f[i] = IF i = 0 THEN a ELSE F[i][f[i - 1]]

HasRecursion(T, n, a, F) == \E f \in [0 .. n -> T] : Proceeds(f, n, a, F)

\* A function over 0 .. n may be defined by recursion on its argument.
LEMMA RecursionExists ==
    ASSUME NEW T, NEW n \in Nat, NEW a \in T, NEW F \in [1 .. n -> [T -> T]]
    PROVE  HasRecursion(T, n, a, F)
  <1>. DEFINE P == { m \in 0 .. n : \E f \in [0 .. m -> T] : Proceeds(f, m, a, F) }
  <1>1. 0 \in P
    <2>. DEFINE f == [i \in 0 .. 0 |-> a]
    <2>1. f \in [0 .. 0 -> T] /\ Proceeds(f, 0, a, F)
      BY DEF Proceeds
    <2>. QED  BY <2>1
  <1>2. ASSUME NEW m \in 1 .. n, m - 1 \in P  PROVE m \in P
    <2>1. PICK f \in [0 .. m - 1 -> T] : Proceeds(f, m - 1, a, F)
      BY <1>2
    <2>. DEFINE g == [i \in 0 .. m |-> IF i = m THEN F[m][f[m - 1]] ELSE f[i]]
    <2>2. f[m - 1] \in T /\ F[m] \in [T -> T]
      OBVIOUS
    <2>3. F[m][f[m - 1]] \in T
      BY <2>2
    <2>4. g \in [0 .. m -> T]
      BY <2>3
    <2>5. ASSUME NEW i \in 0 .. m
          PROVE  g[i] = IF i = 0 THEN a ELSE F[i][g[i - 1]]
      <3>1. CASE i = m
        <4>1. i # 0 /\ m - 1 \in 0 .. m /\ m - 1 # m
          BY <3>1
        <4>2. g[m - 1] = f[m - 1]
          BY <4>1
        <4>. QED  BY <3>1, <4>1, <4>2
      <3>2. CASE i # m /\ i # 0
        <4>1. i \in 0 .. m - 1 /\ i - 1 \in 0 .. m /\ i - 1 # m
          BY <3>2
        <4>2. g[i] = f[i] /\ g[i - 1] = f[i - 1]
          BY <3>2, <4>1
        <4>. QED  BY <2>1, <3>2, <4>1, <4>2 DEF Proceeds
      <3>3. CASE i # m /\ i = 0
        <4>1. i \in 0 .. m - 1
          BY <3>3
        <4>2. g[i] = f[i] /\ f[i] = a
          BY <2>1, <3>3, <4>1 DEF Proceeds
        <4>. QED  BY <3>3, <4>2
      <3>. QED  BY <3>1, <3>2, <3>3
    <2>6. Proceeds(g, m, a, F)
      BY <2>5 DEF Proceeds
    <2>. QED  BY <2>4, <2>6
  <1>3. n \in P
    <2>. HIDE DEF P
    <2>. QED  BY <1>1, <1>2, Positions
  <1>. QED  BY <1>3 DEF HasRecursion

-----------------------------------------------------------------------------
(* The items of a sequence that belong to a set.                           *)

\* The items of a sequence are where and what they should be.
LEMMA Items ==
    ASSUME NEW S, NEW s \in Seq(S)
    PROVE  Len(s) \in Nat /\ DOMAIN s = 1 .. Len(s) /\ \A i \in 1 .. Len(s) : s[i] \in S
  OBVIOUS

KeptStep(k, items, wanted) ==
    [i \in 0 .. Len(items) |->
        IF i = 0 THEN <<>>
        ELSE IF items[i] \in wanted THEN Append(k[i - 1], items[i]) ELSE k[i - 1]]

\* What a step of the recursion makes of what it was given.
LEMMA KeptSteps ==
    ASSUME NEW items, Len(items) \in Nat, NEW wanted, NEW k, NEW l, l = KeptStep(k, items, wanted)
    PROVE  /\ l[0] = <<>>
           /\ \A i \in 1 .. Len(items) : l[i] =
                 IF items[i] \in wanted THEN Append(k[i - 1], items[i]) ELSE k[i - 1]
  BY DEF KeptStep

\* What is kept of a sequence is a sequence over the wanted items.
LEMMA KeptType ==
    ASSUME NEW items, Len(items) \in Nat, NEW wanted
    PROVE  Kept(items, wanted) \in Seq(wanted)
  <1>. DEFINE n == Len(items)
              T == Seq(wanted)
              F == [i \in 1 .. n |-> [t \in T |->
                       IF items[i] \in wanted THEN Append(t, items[i]) ELSE t]]
              kept == CHOOSE k : k = KeptStep(k, items, wanted)
  <1>1. n \in Nat
    OBVIOUS
  <1>2. F \in [1 .. n -> [T -> T]] /\ <<>> \in T
    BY <1>1
  <1>3. PICK f \in [0 .. n -> T] : Proceeds(f, n, <<>>, F)
    <2>. HIDE DEF T, F, n
    <2>. QED  BY <1>1, <1>2, RecursionExists DEF HasRecursion
  <1>4. f = KeptStep(f, items, wanted)
    <2>1. ASSUME NEW i \in 0 .. n
          PROVE  f[i] = IF i = 0 THEN <<>>
                        ELSE IF items[i] \in wanted THEN Append(f[i - 1], items[i]) ELSE f[i - 1]
      <3>1. i # 0 => i \in 1 .. n /\ i - 1 \in 0 .. n
        BY <1>1
      <3>2. i # 0 => f[i - 1] \in T
        BY <3>1
      <3>. HIDE DEF T
      <3>. QED  BY <1>3, <3>1, <3>2 DEF Proceeds
    <2>. HIDE DEF T
    <2>. QED  BY <2>1 DEF KeptStep
  <1>5. kept = KeptStep(kept, items, wanted)
    BY <1>4
  <1>6. kept[0] = <<>> /\ \A i \in 1 .. n : kept[i] =
            IF items[i] \in wanted THEN Append(kept[i - 1], items[i]) ELSE kept[i - 1]
    <2>. HIDE DEF kept
    <2>. QED  BY <1>1, <1>5, KeptSteps
  <1>. DEFINE P == { m \in 0 .. n : kept[m] \in T }
  <1>7. 0 \in P /\ \A i \in 1 .. n : i - 1 \in P => i \in P
    <2>. HIDE DEF kept
    <2>1. n \in Nat /\ <<>> \in T
      BY <1>1, <1>2
    <2>2. ASSUME NEW i \in 1 .. n, kept[i - 1] \in T  PROVE kept[i] \in T
      <3>1. items[i] \in wanted => Append(kept[i - 1], items[i]) \in T
        BY <1>1, <2>2
      <3>. QED  BY <1>6, <2>2, <3>1
    <2>3. 0 \in P
      <3>. HIDE DEF n, T
      <3>. QED  BY <1>6, <2>1
    <2>4. ASSUME NEW i \in 1 .. n, i - 1 \in P  PROVE i \in P
      <3>. HIDE DEF n, T
      <3>. QED  BY <2>1, <2>2, <2>4
    <2>. QED  BY <2>3, <2>4
  <1>8. n \in P
    <2>. HIDE DEF P
    <2>. QED  BY <1>1, <1>7, Positions
  <1>9. Kept(items, wanted) = kept[n]
    BY DEF Kept, KeptStep
  <1>. QED  BY <1>8, <1>9
-----------------------------------------------------------------------------
(* Lines and their words.                                                  *)

\* A set of naturals has a least one.
LEMMA LeastIsThere ==
    ASSUME NEW S, S \subseteq Nat, S # {}
    PROVE  Min(S) \in S
  <1>1. IsWellFoundedOn(OpToRel(<, Nat), Nat)
    BY NatLessThanWellFounded
  <1>2. PICK x \in S : \A y \in S : ~(<<y, x>> \in OpToRel(<, Nat))
    BY <1>1, WFMin
  <1>3. ASSUME NEW y \in S  PROVE x <= y
    <2>1. SUFFICES ASSUME y < x  PROVE FALSE
      OBVIOUS
    <2>2. <<y, x>> \in OpToRel(<, Nat)
      BY <2>1 DEF OpToRel
    <2>. QED  BY <1>2, <2>2
  <1>. QED  BY <1>3 DEF Min

\* What is left of a line without its comment is a line.
LEMMA CleanLineType ==
    ASSUME NEW line \in Seq(Word)
    PROVE  CleanLine(line) \in Seq(Word)
  <1>. DEFINE opened(letter) == { i \in DOMAIN line : line[i].letter = letter }
  <1>1. ASSUME NEW letter, opened(letter) # {}
        PROVE  SubSeq(line, 1, Min(opened(letter)) - 1) \in Seq(Word)
    <2>1. DOMAIN line = 1 .. Len(line) /\ Len(line) \in Nat
      OBVIOUS
    <2>2. opened(letter) \subseteq 1 .. Len(line)
      BY <2>1
    <2>3. Min(opened(letter)) \in 1 .. Len(line)
      <3>1. opened(letter) \subseteq Nat
        BY <2>1, <2>2
      <3>. HIDE DEF opened
      <3>. QED  BY <1>1, <2>2, <3>1, LeastIsThere
    <2>. DEFINE m == Min(opened(letter)) - 1
    <2>4. m \in 0 .. Len(line)
      BY <2>1, <2>3
    <2>. HIDE DEF m
    <2>5. SubSeq(line, 1, m) \in Seq(Word)
      <3>1. \A i \in 1 .. m : line[i] \in Word
        BY <2>1, <2>4
      <3>. QED  BY <2>1, <2>4, <3>1, SubSeqProperties
    <2>. QED  BY <2>5 DEF m
  <1>. HIDE DEF opened
  <1>. QED  BY <1>1 DEF CleanLine, opened

\* The tokens of a line are numbers behind letters.
LEMMA TokensType ==
    ASSUME NEW line \in Seq(Word)
    PROVE  ParseTokens(line) \in Seq(Token)
  <1>1. Len(CleanLine(line)) \in Nat
    BY CleanLineType
  <1>. QED  BY <1>1, KeptType DEF ParseTokens

\* Parameters chosen by their letters.
LEMMA LetteredType ==
    ASSUME NEW params \in Seq(Token), NEW letters
    PROVE  Lettered(params, letters) \in Seq([letter : letters, value : Int])
  <1>1. Len(params) \in Nat
    OBVIOUS
  <1>. QED  BY <1>1, KeptType DEF Lettered

-----------------------------------------------------------------------------
(* Commands, and where they lead.                                          *)

Heatings == [kind : {"SetHeaterTarget"}, heater : STRING, target_milli_c : Int]
Homings == [kind : {"Home"}, axis : Moved, rate_um_s : Nat]
Motions == [kind : {"Move"}, axis : Moved, distance_um : Int, rate_um_s : Nat]
Command == [kind : {"Heartbeat"}] \cup Heatings \cup Homings \cup Motions

\* What one command does to the position of an axis.
Led(at, command, axis) ==
    CASE command.kind = "Home" /\ command.axis = axis -> 0
      [] command.kind = "Move" /\ command.axis = axis -> at + command.distance_um
      [] OTHER -> at

TrackStep(at, start, commands, axis) ==
    [i \in 0 .. Len(commands) |-> IF i = 0 THEN start ELSE Led(at[i - 1], commands[i], axis)]

\* A command leads from a position to a position.
LEMMA LedType ==
    ASSUME NEW at \in Int, NEW command \in Command, NEW axis
    PROVE  Led(at, command, axis) \in Int
  BY DEF Led, Command, Heatings, Homings, Motions

\* The track begins at the start, and each command leads on from where the
\* one before led.
LEMMA TrackSteps ==
    ASSUME NEW commands \in Seq(Command), NEW start \in Int, NEW axis
    PROVE  LET at == Track(start, commands, axis)
           IN  /\ at \in [0 .. Len(commands) -> Int]
               /\ at[0] = start
               /\ \A i \in 1 .. Len(commands) : at[i] = Led(at[i - 1], commands[i], axis)
  <1>. DEFINE n == Len(commands)
              F == [i \in 1 .. n |-> [t \in Int |-> Led(t, commands[i], axis)]]
              at == CHOOSE f : f = TrackStep(f, start, commands, axis)
  <1>1. n \in Nat /\ \A i \in 1 .. n : commands[i] \in Command
    OBVIOUS
  <1>2. F \in [1 .. n -> [Int -> Int]]
    <2>1. \A i \in 1 .. n : \A t \in Int : Led(t, commands[i], axis) \in Int
      BY <1>1, LedType
    <2>. HIDE DEF n
    <2>. QED  BY <2>1
  <1>3. PICK f \in [0 .. n -> Int] : Proceeds(f, n, start, F)
    <2>. HIDE DEF F, n
    <2>. QED  BY <1>1, <1>2, RecursionExists DEF HasRecursion
  <1>4. f = TrackStep(f, start, commands, axis)
    <2>1. ASSUME NEW i \in 0 .. n
          PROVE  f[i] = IF i = 0 THEN start ELSE Led(f[i - 1], commands[i], axis)
      <3>1. i # 0 => i \in 1 .. n /\ i - 1 \in 0 .. n /\ f[i - 1] \in Int
        BY <1>1
      <3>. HIDE DEF n
      <3>. QED  BY <1>3, <3>1 DEF Proceeds
    <2>. QED  BY <2>1 DEF TrackStep
  <1>5. at = TrackStep(at, start, commands, axis)
    BY <1>4
  <1>6. /\ at[0] = start /\ at = [i \in 0 .. n |-> at[i]]
        /\ \A i \in 1 .. n : at[i] = Led(at[i - 1], commands[i], axis)
    <2>1. ASSUME NEW g, NEW h, h = TrackStep(g, start, commands, axis)
          PROVE  /\ h[0] = start /\ h = [i \in 0 .. n |-> h[i]]
                 /\ \A i \in 1 .. n : h[i] = Led(g[i - 1], commands[i], axis)
      BY <1>1, <2>1 DEF TrackStep
    <2>. HIDE DEF at, n
    <2>. QED  BY <1>5, <2>1
  <1>7. \A i \in 0 .. n : at[i] \in Int
    <2>. HIDE DEF at
    <2>1. ASSUME NEW i \in 1 .. n, at[i - 1] \in Int  PROVE at[i] \in Int
      BY <1>1, <1>6, <2>1, LedType
    <2>. DEFINE P == { m \in 0 .. n : at[m] \in Int }
    <2>2. 0 \in P /\ \A i \in 1 .. n : i - 1 \in P => i \in P
      <3>1. at[0] \in Int
        BY <1>6
      <3>. HIDE DEF n
      <3>. QED  BY <1>1, <2>1, <3>1
    <2>3. 0 .. n \subseteq P
      <3>. HIDE DEF P, n
      <3>. QED  BY <1>1, <2>2, Positions
    <2>. QED  BY <2>3
  <1>8. Track(start, commands, axis) = at
    BY DEF Track, TrackStep, Led
  <1>. HIDE DEF at
  <1>. QED  BY <1>6, <1>7, <1>8
\* Where the commands lead in the end.
End(start, commands, axis) == Track(start, commands, axis)[Len(commands)]

\* Commands lead to a position; none lead nowhere.
LEMMA EndType ==
    ASSUME NEW commands \in Seq(Command), NEW start \in Int, NEW axis
    PROVE  End(start, commands, axis) \in Int /\ End(start, <<>>, axis) = start
  <1>1. Len(commands) \in 0 .. Len(commands) /\ <<>> \in Seq(Command) /\ Len(<<>>) = 0
    OBVIOUS
  <1>2. End(start, commands, axis) \in Int
    BY <1>1, TrackSteps DEF End
  <1>3. Track(start, <<>>, axis)[0] = start
    <2>1. \A e \in Seq(Command) : Track(start, e, axis)[0] = start
      BY TrackSteps
    <2>. QED  BY <1>1, <2>1
  <1>. QED  BY <1>1, <1>2, <1>3 DEF End

\* What leads somewhere leads there whatever comes after it.
LEMMA TrackPrefix ==
    ASSUME NEW c \in Seq(Command), NEW d \in Seq(Command), NEW start \in Int, NEW axis,
           Len(c) <= Len(d), \A i \in 1 .. Len(c) : d[i] = c[i]
    PROVE  \A i \in 0 .. Len(c) : Track(start, d, axis)[i] = Track(start, c, axis)[i]
  <1>. DEFINE n == Len(c)
              f == Track(start, c, axis)
              g == Track(start, d, axis)
              P == { i \in 0 .. n : g[i] = f[i] }
  <1>1. n \in Nat /\ 1 .. n \subseteq 1 .. Len(d)
    OBVIOUS
  <1>2. /\ f[0] = start /\ g[0] = start
        /\ \A i \in 1 .. n : f[i] = Led(f[i - 1], c[i], axis) /\ g[i] = Led(g[i - 1], d[i], axis)
    BY <1>1, TrackSteps
  <1>3. 0 \in P /\ \A i \in 1 .. n : i - 1 \in P => i \in P
    <2>. HIDE DEF f, g
    <2>. QED  BY <1>1, <1>2
  <1>4. 0 .. n \subseteq P
    <2>. HIDE DEF P, n
    <2>. QED  BY <1>1, <1>3, Positions
  <1>. QED  BY <1>4

\* One more command leads on from the end.
LEMMA EndAppend ==
    ASSUME NEW c \in Seq(Command), NEW x \in Command, NEW start \in Int, NEW axis
    PROVE  End(start, Append(c, x), axis) = Led(End(start, c, axis), x, axis)
  <1>. DEFINE d == Append(c, x)
              n == Len(c)
  <1>1. /\ d \in Seq(Command) /\ n \in Nat /\ Len(d) = n + 1 /\ d[n + 1] = x
        /\ \A i \in 1 .. n : d[i] = c[i]
    OBVIOUS
  <1>. HIDE DEF d
  <1>2. Track(start, d, axis)[n] = Track(start, c, axis)[n]
    BY <1>1, TrackPrefix
  <1>3. n + 1 \in 1 .. Len(d) /\ (n + 1) - 1 = n
    BY <1>1
  <1>4. Track(start, d, axis)[n + 1] = Led(Track(start, d, axis)[(n + 1) - 1], d[n + 1], axis)
    BY <1>1, <1>3, TrackSteps
  <1>5. End(start, d, axis) = Led(End(start, c, axis), x, axis)
    BY <1>1, <1>2, <1>3, <1>4 DEF End
  <1>. QED  BY <1>5 DEF d

\* More commands lead on from the end.
LEMMA EndConcat ==
    ASSUME NEW c \in Seq(Command), NEW d \in Seq(Command), NEW start \in Int, NEW axis
    PROVE  End(start, c \o d, axis) = End(End(start, c, axis), d, axis)
  <1>. DEFINE e == c \o d
              m == Len(c)
              n == Len(d)
              middle == End(start, c, axis)
              f == Track(start, e, axis)
              g == Track(middle, d, axis)
              P == { i \in 0 .. n : f[m + i] = g[i] }
  <1>1. /\ e \in Seq(Command) /\ m \in Nat /\ n \in Nat /\ Len(e) = m + n
        /\ \A i \in 1 .. m : e[i] = c[i]
        /\ \A i \in 1 .. n : e[m + i] = d[i]
    OBVIOUS
  <1>. HIDE DEF e
  <1>2. middle \in Int
    BY EndType
  <1>3. f[m] = middle
    <2>1. m \in 0 .. m /\ m <= Len(e)
      BY <1>1
    <2>. QED  BY <1>1, <2>1, TrackPrefix DEF End
  <1>4. /\ g[0] = middle
        /\ \A i \in 1 .. n : g[i] = Led(g[i - 1], d[i], axis)
        /\ \A i \in 1 .. m + n : f[i] = Led(f[i - 1], e[i], axis)
    <2>. HIDE DEF middle
    <2>1. g[0] = middle /\ \A i \in 1 .. n : g[i] = Led(g[i - 1], d[i], axis)
      BY <1>2, TrackSteps
    <2>2. \A i \in 1 .. m + n : f[i] = Led(f[i - 1], e[i], axis)
      BY <1>1, TrackSteps
    <2>. QED  BY <2>1, <2>2
  <1>. HIDE DEF f, g, middle, m, n
  <1>5. ASSUME NEW i \in 1 .. n, f[m + (i - 1)] = g[i - 1]  PROVE f[m + i] = g[i]
    <2>1. m + i \in 1 .. m + n /\ (m + i) - 1 = m + (i - 1)
      BY <1>1
    <2>2. f[m + i] = Led(f[(m + i) - 1], e[m + i], axis)
      BY <1>4, <2>1
    <2>. QED  BY <1>1, <1>4, <1>5, <2>1, <2>2
  <1>6. 0 \in P /\ \A i \in 1 .. n : i - 1 \in P => i \in P
    BY <1>1, <1>3, <1>4, <1>5
  <1>7. n \in P
    <2>. HIDE DEF P
    <2>. QED  BY <1>1, <1>6, Positions
  <1>8. f[m + n] = g[n]
    BY <1>7
  <1>. QED  BY <1>1, <1>8 DEF End, f, g, e, m, n, middle
-----------------------------------------------------------------------------
(* The lowerer.                                                            *)

Lowerer == [current_feed_rate_um_s : Nat, absolute_positioning : BOOLEAN,
            positions : [Moved -> Int]]

Steps == [lowerer : Lowerer, commands : Seq(Command)]

\* A step of the lowerer that leaves its positions where its commands lead.
Follows(before, step) ==
    /\ step \in Steps
    /\ \A axis \in Moved :
          step.lowerer.positions[axis] = End(before.positions[axis], step.commands, axis)

\* A new lowerer has its feed, its mode and its positions.
LEMMA NewLowererType == NewLowerer \in Lowerer
  BY PreparationAssumption DEF NewLowerer, Lowerer

\* Commands that move nothing lead nowhere.
LEMMA NothingFollows ==
    ASSUME NEW before \in Lowerer, NEW after \in Lowerer, after.positions = before.positions,
           NEW commands \in Seq(Command), \A i \in 1 .. Len(commands) :
                                             commands[i].kind \notin {"Home", "Move"}
    PROVE  Follows(before, [lowerer |-> after, commands |-> commands])
  <1>1. \A axis \in Moved : before.positions[axis] \in Int
    BY DEF Lowerer
  <1>2. ASSUME NEW axis \in Moved, NEW start \in Int  PROVE End(start, commands, axis) = start
    <2>. DEFINE n == Len(commands)
                f == Track(start, commands, axis)
                P == { i \in 0 .. n : f[i] = start }
    <2>1. /\ n \in Nat /\ f[0] = start
          /\ \A i \in 1 .. n : f[i] = Led(f[i - 1], commands[i], axis)
      BY TrackSteps
    <2>2. \A i \in 1 .. n : f[i] = f[i - 1]
      BY <2>1 DEF Led
    <2>3. 0 \in P /\ \A i \in 1 .. n : i - 1 \in P => i \in P
      <3>. HIDE DEF n, f
      <3>. QED  BY <2>1, <2>2
    <2>4. n \in P
      <3>. HIDE DEF P, n
      <3>. QED  BY <2>1, <2>3, Positions
    <2>. QED  BY <2>4 DEF End
  <1>. QED  BY <1>1, <1>2 DEF Follows, Steps

\* The feed is a rate, and positions do not depend on it.
LEMMA FedType ==
    ASSUME NEW before \in Lowerer, NEW params \in Seq(Token)
    PROVE  Fed(before, params) \in Lowerer /\ Fed(before, params).positions = before.positions
  <1>. DEFINE feeds == Lettered(params, {"F"})
  <1>1. feeds \in Seq([letter : {"F"}, value : Int])
    BY LetteredType
  <1>2. feeds # <<>> => Last(feeds).value \in Int
    <2>. DEFINE fed == [letter : {"F"}, value : Int]
    <2>1. ASSUME NEW s \in Seq(fed), s # <<>>  PROVE Last(s) \in fed
      <3>1. Len(s) \in 1 .. Len(s)
        BY <2>1
      <3>. HIDE DEF fed
      <3>. QED  BY <3>1 DEF Last
    <2>. HIDE DEF feeds
    <2>. QED  BY <1>1, <2>1
  <1>3. \A v \in Int : FeedRate(v) \in Nat
    BY DEF FeedRate
  <1>. HIDE DEF feeds
  <1>. QED  BY <1>2, <1>3 DEF Fed, feeds, Lowerer

\* One axis of a move: its command leads from where the axis was to where the
\* lowerer takes it to be now, in either positioning mode.
LEMMA LowerAxisFollows ==
    ASSUME NEW before \in Lowerer, NEW step, Follows(before, step),
           NEW param \in [letter : Moved, value : Int]
    PROVE  Follows(before, LowerAxis(step, param))
  <1>. DEFINE here == step.lowerer
              to == MovedTo(here, param.letter, param.value)
              delta == IF here.absolute_positioning
                       THEN param.value - here.positions[param.letter] ELSE param.value
              command == [kind |-> "Move", axis |-> param.letter, distance_um |-> delta,
                          rate_um_s |-> here.current_feed_rate_um_s]
              after == [here EXCEPT !.positions[param.letter] = to]
              commands == Append(step.commands, command)
  <1>1. here \in Lowerer /\ step.commands \in Seq(Command)
    BY DEF Follows, Steps
  <1>2. /\ here.positions \in [Moved -> Int] /\ here.current_feed_rate_um_s \in Nat
        /\ param.letter \in Moved /\ param.value \in Int
    BY <1>1 DEF Lowerer
  <1>3. delta \in Int /\ to = here.positions[param.letter] + delta /\ to \in Int
    BY <1>2 DEF MovedTo
  <1>4. command \in Command
    BY <1>2, <1>3 DEF Command, Motions
  <1>5. commands \in Seq(Command)
    BY <1>1, <1>4
  <1>6. /\ after \in Lowerer
        /\ \A axis \in Moved :
              after.positions[axis] = IF axis = param.letter THEN to ELSE here.positions[axis]
    BY <1>1, <1>2, <1>3 DEF Lowerer
  <1>7. ASSUME NEW axis \in Moved
        PROVE  after.positions[axis] = End(before.positions[axis], commands, axis)
    <2>1. before.positions[axis] \in Int
      BY DEF Lowerer
    <2>2. End(before.positions[axis], commands, axis)
            = Led(End(before.positions[axis], step.commands, axis), command, axis)
      <3>. HIDE DEF command
      <3>. QED  BY <1>1, <1>4, <2>1, EndAppend
    <2>3. End(before.positions[axis], step.commands, axis) = here.positions[axis]
      BY DEF Follows
    <2>4. Led(here.positions[axis], command, axis)
            = IF axis = param.letter THEN here.positions[axis] + delta ELSE here.positions[axis]
      BY DEF Led
    <2>. HIDE DEF after, commands, command, to, delta, here
    <2>. QED  BY <1>3, <1>6, <2>2, <2>3, <2>4
  <1>8. LowerAxis(step, param) = [lowerer |-> after, commands |-> commands]
    BY DEF LowerAxis
  <1>. HIDE DEF after, commands
  <1>. QED  BY <1>5, <1>6, <1>7, <1>8 DEF Follows, Steps

\* The axes of a move, one after the other.
LEMMA LowerMoveFollows ==
    ASSUME NEW before \in Lowerer, NEW params \in Seq(Token)
    PROVE  Follows(before, LowerMove(before, params))
  <1>. DEFINE moves == Lettered(params, Moved)
              n == Len(moves)
              first == [lowerer |-> Fed(before, params), commands |-> <<>>]
              Good == { step \in Steps : Follows(before, step) }
              Next1(f) == [i \in 0 .. n |-> IF i = 0 THEN first ELSE LowerAxis(f[i - 1], moves[i])]
              F == [i \in 1 .. n |-> [step \in Good |-> LowerAxis(step, moves[i])]]
              taken == CHOOSE f : f = Next1(f)
  <1>1. moves \in Seq([letter : Moved, value : Int])
    BY LetteredType
  <1>. HIDE DEF moves
  <1>2. n \in Nat /\ \A i \in 1 .. n : moves[i] \in [letter : Moved, value : Int]
    BY <1>1, Items
  <1>3. \A i \in 1 .. n : \A step \in Good : LowerAxis(step, moves[i]) \in Good
    BY <1>2, LowerAxisFollows DEF Follows
  <1>4. first \in Good
    <2>1. <<>> \in Seq(Command) /\ \A i \in 1 .. Len(<<>>) : FALSE
      OBVIOUS
    <2>2. Follows(before, first)
      BY <2>1, FedType, NothingFollows
    <2>. HIDE DEF first
    <2>. QED  BY <2>2 DEF Follows
  <1>. HIDE DEF first, Good, n
  <1>5. PICK f \in [0 .. n -> Good] : Proceeds(f, n, first, F)
    <2>1. F \in [1 .. n -> [Good -> Good]]
      BY <1>3
    <2>. HIDE DEF F
    <2>. QED  BY <1>2, <1>4, <2>1, RecursionExists DEF HasRecursion
  <1>6. f = Next1(f)
    <2>1. ASSUME NEW i \in 0 .. n
          PROVE  f[i] = IF i = 0 THEN first ELSE LowerAxis(f[i - 1], moves[i])
      <3>1. i # 0 => i \in 1 .. n /\ i - 1 \in 0 .. n /\ f[i - 1] \in Good
        BY <1>2
      <3>. QED  BY <1>5, <3>1 DEF Proceeds
    <2>. QED  BY <2>1
  <1>7. taken = Next1(taken)
    BY <1>6
  <1>8. taken[0] = first /\ \A i \in 1 .. n : taken[i] = LowerAxis(taken[i - 1], moves[i])
    <2>1. ASSUME NEW g, NEW h, h = Next1(g)
          PROVE  h[0] = first /\ \A i \in 1 .. n : h[i] = LowerAxis(g[i - 1], moves[i])
      BY <1>2, <2>1
    <2>. HIDE DEF taken, Next1
    <2>. QED  BY <1>7, <2>1
  <1>9. taken[n] \in Good
    <2>. HIDE DEF taken
    <2>. DEFINE P == { m \in 0 .. n : taken[m] \in Good }
    <2>1. 0 \in P /\ \A i \in 1 .. n : i - 1 \in P => i \in P
      BY <1>2, <1>3, <1>4, <1>8
    <2>2. n \in P
      <3>. HIDE DEF P
      <3>. QED  BY <1>2, <2>1, Positions
    <2>. QED  BY <2>2
  <1>10. LowerMove(before, params) = taken[n]
    BY DEF LowerMove, moves, first, n
  <1>. HIDE DEF taken
  <1>. QED  BY <1>9, <1>10 DEF Good

\* Homing: every axis named, or all of them.
LEMMA LowerHomeFollows ==
    ASSUME NEW before \in Lowerer, NEW params \in Seq(Token)
    PROVE  Follows(before, LowerHome(before, params))
  <1>. DEFINE named == Lettered(params, Homed)
              homed == IF named = <<>> THEN <<"X", "Y", "Z">>
                       ELSE [i \in DOMAIN named |-> named[i].letter]
              n == Len(homed)
              positions == [axis \in Moved |->
                               IF axis \in ToSet(homed) THEN 0 ELSE before.positions[axis]]
              after == [before EXCEPT !.positions =
                           [axis \in Moved |-> IF axis \in ToSet(homed) THEN 0 ELSE @[axis]]]
              commands == [i \in DOMAIN homed |-> HomeCommand(before, homed[i])]
  <1>1. named \in Seq([letter : Homed, value : Int])
    BY LetteredType
  <1>2. homed \in Seq(Homed)
    <2>. HIDE DEF named
    <2>1. <<"X", "Y", "Z">> \in Seq(Homed)
      BY DEF Homed
    <2>2. [i \in DOMAIN named |-> named[i].letter] \in Seq(Homed)
      <3>1. /\ DOMAIN named = 1 .. Len(named) /\ Len(named) \in Nat
            /\ \A i \in 1 .. Len(named) : named[i] \in [letter : Homed, value : Int]
        BY <1>1, Items
      <3>. QED  BY <3>1
    <2>. QED  BY <2>1, <2>2
  <1>. HIDE DEF homed
  <1>3. n \in Nat /\ DOMAIN homed = 1 .. n /\ \A i \in 1 .. n : homed[i] \in Moved
    <2>1. Homed \subseteq Moved
      BY DEF Homed, Moved
    <2>. QED  BY <1>2, <2>1
  <1>4. /\ before.positions \in [Moved -> Int] /\ before.current_feed_rate_um_s \in Nat
        /\ before = [current_feed_rate_um_s |-> before.current_feed_rate_um_s,
                     absolute_positioning |-> before.absolute_positioning,
                     positions |-> before.positions]
    BY DEF Lowerer
  <1>5. after \in Lowerer /\ after.positions = positions
    BY <1>4 DEF Lowerer
  <1>6. commands \in Seq(Command) /\ Len(commands) = n
    <2>1. \A i \in 1 .. n : HomeCommand(before, homed[i]) \in Command
      BY <1>3, <1>4 DEF HomeCommand, Command, Homings
    <2>. HIDE DEF n
    <2>. QED  BY <1>3, <2>1
  <1>7. ASSUME NEW axis \in Moved
        PROVE  positions[axis] = End(before.positions[axis], commands, axis)
    <2>. DEFINE start == before.positions[axis]
                f == Track(start, commands, axis)
                P == { m \in 0 .. n : f[m] = IF \E i \in 1 .. m : homed[i] = axis THEN 0 ELSE start }
    <2>1. start \in Int
      BY <1>4
    <2>2. f[0] = start /\ \A i \in 1 .. n : f[i] = Led(f[i - 1], commands[i], axis)
      <3>. HIDE DEF start, commands
      <3>. QED  BY <1>6, <2>1, TrackSteps
    <2>3. \A i \in 1 .. n : f[i] = IF homed[i] = axis THEN 0 ELSE f[i - 1]
      <3>1. \A i \in 1 .. n : commands[i].kind = "Home" /\ commands[i].axis = homed[i]
        BY <1>3 DEF HomeCommand
      <3>. HIDE DEF commands, f, n
      <3>. QED  BY <2>2, <3>1 DEF Led
    <2>4. 0 \in P /\ \A i \in 1 .. n : i - 1 \in P => i \in P
      <3>. HIDE DEF f, n, start
      <3>1. 0 \in P
        BY <1>3, <2>2
      <3>2. ASSUME NEW i \in 1 .. n, i - 1 \in P  PROVE i \in P
        <4>1. (\E j \in 1 .. i : homed[j] = axis)
                <=> homed[i] = axis \/ \E j \in 1 .. i - 1 : homed[j] = axis
          BY <1>3
        <4>. QED  BY <1>3, <2>3, <3>2, <4>1
      <3>. QED  BY <3>1, <3>2
    <2>5. n \in P
      <3>. HIDE DEF P, n
      <3>. QED  BY <1>3, <2>4, Positions
    <2>6. axis \in ToSet(homed) <=> \E i \in 1 .. n : homed[i] = axis
      BY <1>3 DEF ToSet
    <2>. HIDE DEF f, commands, n
    <2>. QED  BY <1>6, <2>5, <2>6 DEF End, f
  <1>8. LowerHome(before, params) = [lowerer |-> after, commands |-> commands]
    BY DEF LowerHome, homed
  <1>. HIDE DEF after, commands, positions
  <1>. QED  BY <1>5, <1>6, <1>7, <1>8 DEF Follows, Steps

\* A heater target is no motion.
LEMMA LowerTargetFollows ==
    ASSUME NEW before \in Lowerer, NEW params \in Seq(Token), NEW heater \in STRING
    PROVE  Follows(before, LowerTarget(before, heater, params))
  <1>. DEFINE targets == Lettered(params, {"S"})
              command == [kind |-> "SetHeaterTarget", heater |-> heater,
                          target_milli_c |-> Head(targets).value]
              commands == IF targets = <<>> THEN <<>> ELSE <<command>>
  <1>1. targets # <<>> => command \in Command
    <2>1. targets \in Seq([letter : {"S"}, value : Int])
      BY LetteredType
    <2>. HIDE DEF targets
    <2>2. targets # <<>> => Head(targets) \in [letter : {"S"}, value : Int]
      <3>1. ASSUME NEW S, NEW s \in Seq(S), s # <<>>  PROVE Head(s) \in S
        BY <3>1
      <3>. QED  BY <2>1, <3>1
    <2>3. targets # <<>> => Head(targets).value \in Int
      BY <2>2
    <2>. QED  BY <2>3 DEF Command, Heatings
  <1>2. /\ commands \in Seq(Command)
        /\ \A i \in 1 .. Len(commands) : commands[i].kind \notin {"Home", "Move"}
    <2>1. CASE targets = <<>>
      BY <2>1
    <2>2. CASE targets # <<>>
      <3>1. command.kind = "SetHeaterTarget" /\ commands = <<command>>
        BY <2>2
      <3>. HIDE DEF command, commands
      <3>. QED  BY <1>1, <2>2, <3>1
    <2>. QED  BY <2>1, <2>2
  <1>3. LowerTarget(before, heater, params) = [lowerer |-> before, commands |-> commands]
    BY DEF LowerTarget
  <1>. HIDE DEF commands
  <1>. QED  BY <1>2, <1>3, NothingFollows

\* Any line.
LEMMA LowerFollows ==
    ASSUME NEW before \in Lowerer, NEW line \in Seq(Word)
    PROVE  Follows(before, Lower(before, line))
  <1>. DEFINE tokens == ParseTokens(line)
              params == Tail(tokens)
              command == <<Head(tokens).letter, CommandNumber(Head(tokens))>>
              nothing == [lowerer |-> before, commands |-> <<>>]
  <1>1. tokens \in Seq(Token) /\ (tokens # <<>> => params \in Seq(Token))
    <2>1. tokens \in Seq(Token)
      BY TokensType
    <2>. HIDE DEF tokens
    <2>. QED  BY <2>1
  <1>2. Follows(before, nothing)
    <2>1. <<>> \in Seq(Command) /\ \A i \in 1 .. Len(<<>>) : FALSE
      OBVIOUS
    <2>. QED  BY <2>1, NothingFollows
  <1>3. \A mode \in BOOLEAN : Follows(before, [nothing EXCEPT !.lowerer.absolute_positioning = mode])
    <2>1. <<>> \in Seq(Command) /\ \A i \in 1 .. Len(<<>>) : FALSE
      OBVIOUS
    <2>. SUFFICES ASSUME NEW mode \in BOOLEAN
                  PROVE  Follows(before, [nothing EXCEPT !.lowerer.absolute_positioning = mode])
      OBVIOUS
    <2>. DEFINE after == [before EXCEPT !.absolute_positioning = mode]
    <2>2. after \in Lowerer /\ after.positions = before.positions
      BY DEF Lowerer
    <2>3. [nothing EXCEPT !.lowerer.absolute_positioning = mode]
             = [lowerer |-> after, commands |-> <<>>]
      OBVIOUS
    <2>4. Follows(before, [lowerer |-> after, commands |-> <<>>])
      <3>. HIDE DEF after
      <3>. QED  BY <2>1, <2>2, NothingFollows
    <2>. HIDE DEF nothing, after
    <2>. QED  BY <2>3, <2>4
  <1>4. Follows(before, [nothing EXCEPT !.commands = << [kind |-> "Heartbeat"] >>])
    <2>. DEFINE heartbeat == << [kind |-> "Heartbeat"] >>
    <2>1. /\ heartbeat \in Seq(Command)
          /\ \A i \in 1 .. Len(heartbeat) : heartbeat[i].kind \notin {"Home", "Move"}
      BY DEF Command
    <2>2. [nothing EXCEPT !.commands = heartbeat] = [lowerer |-> before, commands |-> heartbeat]
      OBVIOUS
    <2>. HIDE DEF heartbeat, nothing
    <2>3. Follows(before, [nothing EXCEPT !.commands = heartbeat])
      BY <2>1, <2>2, NothingFollows
    <2>. QED  BY <2>3 DEF heartbeat
  <1>5. hotend_name \in STRING /\ bed_name \in STRING
    BY PreparationAssumption
  <1>6. Lower(before, line) =
          IF tokens = <<>> THEN nothing
          ELSE CASE command \in {<<"G", 90>>, <<"G", 91>>} ->
                      [nothing EXCEPT !.lowerer.absolute_positioning = command[2] = 90]
                 [] command = <<"G", 28>> -> LowerHome(before, params)
                 [] command \in {<<"G", 0>>, <<"G", 1>>} -> LowerMove(before, params)
                 [] command \in {<<"M", 104>>, <<"M", 109>>} ->
                      LowerTarget(before, hotend_name, params)
                 [] command \in {<<"M", 140>>, <<"M", 190>>} ->
                      LowerTarget(before, bed_name, params)
                 [] command = <<"M", 105>> ->
                      [nothing EXCEPT !.commands = << [kind |-> "Heartbeat"] >>]
                 [] OTHER -> nothing
    BY DEF Lower
  <1>7. (command[2] = 90) \in BOOLEAN
    OBVIOUS
  <1>. HIDE DEF tokens, params, command, nothing
  <1>8. tokens # <<>> => /\ Follows(before, LowerHome(before, params))
                         /\ Follows(before, LowerMove(before, params))
                         /\ Follows(before, LowerTarget(before, hotend_name, params))
                         /\ Follows(before, LowerTarget(before, bed_name, params))
    BY <1>1, <1>5, LowerHomeFollows, LowerMoveFollows, LowerTargetFollows
  <1>. QED  BY <1>2, <1>3, <1>4, <1>6, <1>7, <1>8

-----------------------------------------------------------------------------
(* The auditor.                                                            *)

Positioned == UNION { [known -> Int] : known \in SUBSET Moved }
Codes == {"A001", "A002", "A003", "A004"}
Diagnostic(n) == [code : Codes, command_index : 0 .. n - 1]
Audits(n) == [positions : Positioned, diagnostics : Seq(Diagnostic(n))]

\* An axis that was mentioned is where it was put, every other one where it was.
LEMMA PlacedType ==
    ASSUME NEW positions \in Positioned, NEW axis \in Moved, NEW position \in Int
    PROVE  /\ Placed(positions, axis, position) \in Positioned
           /\ \A a \in Moved : /\ PositionOf(positions, a) \in Int
                               /\ PositionOf(Placed(positions, axis, position), a)
                                     = IF a = axis THEN position ELSE PositionOf(positions, a)
  <1>1. PICK known \in SUBSET Moved : positions \in [known -> Int]
    BY DEF Positioned
  <1>2. Placed(positions, axis, position) \in [known \cup {axis} -> Int]
    BY <1>1 DEF Placed
  <1>3. known \cup {axis} \in SUBSET Moved
    BY <1>1
  <1>4. \A a \in Moved : PositionOf(positions, a) \in Int
    BY <1>1 DEF PositionOf
  <1>5. \A a \in Moved : PositionOf(Placed(positions, axis, position), a)
                            = IF a = axis THEN position ELSE PositionOf(positions, a)
    BY <1>1 DEF PositionOf, Placed
  <1>6. Placed(positions, axis, position) \in Positioned
    <2>. HIDE DEF Placed
    <2>. QED  BY <1>2, <1>3 DEF Positioned
  <1>. QED  BY <1>4, <1>5, <1>6

\* Diagnosing moves nothing and says something when there is something to say.
LEMMA DiagnosedType ==
    ASSUME NEW n \in Nat, NEW audit \in Audits(n), NEW found \in BOOLEAN, NEW code \in Codes,
           NEW index \in 1 .. n
    PROVE  LET diagnosed == Diagnosed(audit, found, code, index)
           IN  /\ diagnosed \in Audits(n)
               /\ diagnosed.positions = audit.positions
               /\ diagnosed.diagnostics = <<>> <=> audit.diagnostics = <<>> /\ ~found
  <1>. DEFINE entry == [code |-> code, command_index |-> index - 1]
              more == Append(audit.diagnostics, entry)
              longer == [audit EXCEPT !.diagnostics = Append(@, entry)]
  <1>1. audit.diagnostics \in Seq(Diagnostic(n)) /\ audit.positions \in Positioned
    BY DEF Audits
  <1>2. entry \in Diagnostic(n)
    BY DEF Diagnostic
  <1>3. more \in Seq(Diagnostic(n)) /\ more # <<>>
    <2>. HIDE DEF entry
    <2>. QED  BY <1>1, <1>2
  <1>4. longer \in Audits(n) /\ longer.positions = audit.positions /\ longer.diagnostics = more
    <2>. HIDE DEF entry
    <2>. QED  BY <1>1, <1>3 DEF Audits
  <1>5. Diagnosed(audit, found, code, index) = IF found THEN longer ELSE audit
    BY DEF Diagnosed
  <1>. HIDE DEF longer, more
  <1>. QED  BY <1>3, <1>4, <1>5

\* Moving an axis diagnoses nothing.
LEMMA MovedType ==
    ASSUME NEW n \in Nat, NEW audit \in Audits(n), NEW positions \in Positioned
    PROVE  LET moved == [audit EXCEPT !.positions = positions]
           IN  /\ moved \in Audits(n)
               /\ moved.positions = positions
               /\ moved.diagnostics = audit.diagnostics
  BY DEF Audits

\* A command keeps the bounds when it does not move its axis out of them.
Within(command, at) ==
    command.kind = "Move" /\ command.axis \in DOMAIN axes =>
        axes[command.axis].min_um <= at /\ at <= axes[command.axis].max_um

\* What auditing a command does: positions follow it, and something is said
\* exactly when it is not admissible or leaves the bounds.
Judges(n, audit, command, after) ==
    /\ after \in Audits(n)
    /\ \A axis \in Moved :
          PositionOf(after.positions, axis) = Led(PositionOf(audit.positions, axis), command, axis)
    /\ after.diagnostics = <<>> <=>
          /\ audit.diagnostics = <<>>
          /\ Admissible(command)
          /\ Within(command, PositionOf(after.positions, command.axis))

\* A heater command.
LEMMA AuditHeaterJudges ==
    ASSUME NEW n \in Nat, NEW audit \in Audits(n), NEW index \in 1 .. n, NEW command \in Heatings
    PROVE  Judges(n, audit, command, AuditHeater(audit, command, index))
  <1>. DEFINE after == AuditHeater(audit, command, index)
              known == command.heater \in DOMAIN heater_ceilings_milli_c
              over == command.target_milli_c > heater_ceilings_milli_c[command.heater]
  <1>1. command.kind = "SetHeaterTarget" /\ command.target_milli_c \in Int
    BY DEF Heatings
  <1>2. Admissible(command) <=> known /\ ~over
    BY <1>1, LimitsAssumption DEF Admissible
  <1>3. /\ Within(command, PositionOf(after.positions, command.axis))
        /\ \A at, axis : Led(at, command, axis) = at
    BY <1>1 DEF Within, Led
  <1>4. CASE known
    <2>1. after = Diagnosed(audit, over, "A003", index)
      BY <1>4 DEF AuditHeater
    <2>. HIDE DEF after
    <2>2. over \in BOOLEAN
      OBVIOUS
    <2>3. "A003" \in Codes
      BY DEF Codes
    <2>. HIDE DEF over
    <2>4. /\ after \in Audits(n) /\ after.positions = audit.positions
          /\ after.diagnostics = <<>> <=> audit.diagnostics = <<>> /\ ~over
      BY <2>1, <2>2, <2>3, DiagnosedType, Zenon
    <2>5. after.diagnostics = <<>> <=> audit.diagnostics = <<>> /\ Admissible(command)
      BY <1>2, <1>4, <2>4, Zenon
    <2>. HIDE DEF known
    <2>. QED  BY <1>3, <2>4, <2>5 DEF Judges, after
  <1>5. CASE ~known
    <2>1. after = Diagnosed(audit, TRUE, "A004", index)
      BY <1>5 DEF AuditHeater
    <2>. HIDE DEF after
    <2>2. TRUE \in BOOLEAN
      OBVIOUS
    <2>3. "A004" \in Codes
      BY DEF Codes
    <2>4. /\ after \in Audits(n) /\ after.positions = audit.positions
          /\ after.diagnostics # <<>>
      BY <2>1, <2>2, <2>3, DiagnosedType, Zenon
    <2>5. ~Admissible(command)
      BY <1>2, <1>5, Zenon
    <2>. HIDE DEF known, over
    <2>. QED  BY <1>3, <2>4, <2>5 DEF Judges, after
  <1>. QED  BY <1>4, <1>5

\* Whether a rate is too fast.
LEMMA TooFastAdmissible ==
    ASSUME NEW command \in Homings \cup Motions
    PROVE  Admissible(command) <=> ~TooFast(command.rate_um_s)
  <1>1. command.kind \in {"Home", "Move"} /\ command.rate_um_s \in Nat
    BY DEF Homings, Motions
  <1>. QED  BY <1>1, LimitsAssumption DEF Admissible, TooFast

\* A homing.
LEMMA AuditHomeJudges ==
    ASSUME NEW n \in Nat, NEW audit \in Audits(n), NEW index \in 1 .. n, NEW command \in Homings
    PROVE  Judges(n, audit, command, AuditHome(audit, command, index))
  <1>. DEFINE fast == Diagnosed(audit, TooFast(command.rate_um_s), "A002", index)
              positions == Placed(fast.positions, command.axis, 0)
              after == [fast EXCEPT !.positions = positions]
  <1>1. command.kind = "Home" /\ command.axis \in Moved
    BY DEF Homings
  <1>2. /\ fast \in Audits(n) /\ fast.positions = audit.positions
        /\ fast.diagnostics = <<>> <=> audit.diagnostics = <<>> /\ Admissible(command)
    <2>1. TooFast(command.rate_um_s) \in BOOLEAN
      BY DEF TooFast
    <2>2. "A002" \in Codes
      BY DEF Codes
    <2>3. Admissible(command) <=> ~TooFast(command.rate_um_s)
      BY TooFastAdmissible
    <2>. QED  BY <2>1, <2>2, <2>3, DiagnosedType, Zenon
  <1>3. audit.positions \in Positioned
    BY DEF Audits
  <1>4. AuditHome(audit, command, index) = after
    BY DEF AuditHome
  <1>. HIDE DEF fast
  <1>5. /\ positions \in Positioned
        /\ \A a \in Moved : PositionOf(positions, a)
                               = IF a = command.axis THEN 0 ELSE PositionOf(audit.positions, a)
    BY <1>1, <1>2, <1>3, PlacedType
  <1>6. \A a : Led(PositionOf(audit.positions, a), command, a)
                  = IF a = command.axis THEN 0 ELSE PositionOf(audit.positions, a)
    BY <1>1 DEF Led
  <1>. HIDE DEF positions
  <1>7. /\ after \in Audits(n) /\ after.positions = positions
        /\ after.diagnostics = fast.diagnostics
    BY <1>2, <1>5, MovedType
  <1>8. Within(command, PositionOf(after.positions, command.axis))
    BY <1>1 DEF Within
  <1>. HIDE DEF after
  <1>. QED  BY <1>2, <1>4, <1>5, <1>6, <1>7, <1>8 DEF Judges

\* A move.
LEMMA AuditMoveJudges ==
    ASSUME NEW n \in Nat, NEW audit \in Audits(n), NEW index \in 1 .. n, NEW command \in Motions
    PROVE  Judges(n, audit, command, AuditMove(audit, command, index))
  <1>. DEFINE new_pos == PositionOf(audit.positions, command.axis) + command.distance_um
              outside == /\ command.axis \in DOMAIN axes
                         /\ new_pos \notin axes[command.axis].min_um .. axes[command.axis].max_um
              fast == Diagnosed(audit, TooFast(command.rate_um_s), "A002", index)
              positions == Placed(fast.positions, command.axis, new_pos)
              moved == [fast EXCEPT !.positions = positions]
              after == Diagnosed(moved, outside, "A001", index)
  <1>1. command.kind = "Move" /\ command.axis \in Moved /\ command.distance_um \in Int
    BY DEF Motions
  <1>2. /\ fast \in Audits(n) /\ fast.positions = audit.positions
        /\ fast.diagnostics = <<>> <=> audit.diagnostics = <<>> /\ Admissible(command)
    <2>1. TooFast(command.rate_um_s) \in BOOLEAN
      BY DEF TooFast
    <2>2. "A002" \in Codes
      BY DEF Codes
    <2>3. Admissible(command) <=> ~TooFast(command.rate_um_s)
      BY TooFastAdmissible
    <2>. QED  BY <2>1, <2>2, <2>3, DiagnosedType, Zenon
  <1>3. audit.positions \in Positioned
    BY DEF Audits
  <1>4. AuditMove(audit, command, index) = after
    BY DEF AuditMove
  <1>. HIDE DEF fast
  <1>5. /\ new_pos \in Int /\ positions \in Positioned
        /\ \A a \in Moved : PositionOf(positions, a)
                               = IF a = command.axis THEN new_pos ELSE PositionOf(audit.positions, a)
    <2>1. PositionOf(audit.positions, command.axis) \in Int
      BY <1>1, <1>3, PlacedType
    <2>2. new_pos \in Int
      BY <1>1, <2>1
    <2>. HIDE DEF new_pos
    <2>. QED  BY <1>1, <1>2, <1>3, <2>2, PlacedType
  <1>6. \A a \in Moved : Led(PositionOf(audit.positions, a), command, a)
                            = IF a = command.axis THEN new_pos ELSE PositionOf(audit.positions, a)
    BY <1>1 DEF Led
  <1>. HIDE DEF positions
  <1>7. /\ moved \in Audits(n) /\ moved.positions = positions
        /\ moved.diagnostics = fast.diagnostics
    BY <1>2, <1>5, MovedType
  <1>. HIDE DEF moved
  <1>8. Within(command, PositionOf(positions, command.axis)) <=> ~outside
    <2>1. PositionOf(positions, command.axis) = new_pos
      BY <1>1, <1>5
    <2>. HIDE DEF new_pos
    <2>. QED  BY <1>1, <1>5, <2>1, LimitsAssumption DEF Within
  <1>9. /\ after \in Audits(n) /\ after.positions = positions
        /\ after.diagnostics = <<>> <=> fast.diagnostics = <<>> /\ ~outside
    <2>1. outside \in BOOLEAN
      OBVIOUS
    <2>2. "A001" \in Codes
      BY DEF Codes
    <2>. HIDE DEF outside
    <2>. QED  BY <1>7, <2>1, <2>2, DiagnosedType, Zenon
  <1>10. after.diagnostics = <<>> <=>
            /\ audit.diagnostics = <<>>
            /\ Admissible(command)
            /\ Within(command, PositionOf(after.positions, command.axis))
    <2>. HIDE DEF outside, after
    <2>. QED  BY <1>2, <1>8, <1>9, Zenon
  <1>. HIDE DEF after, new_pos
  <1>. QED  BY <1>4, <1>5, <1>6, <1>9, <1>10 DEF Judges

\* Any command.
LEMMA AuditCommandJudges ==
    ASSUME NEW n \in Nat, NEW audit \in Audits(n), NEW index \in 1 .. n, NEW command \in Command
    PROVE  Judges(n, audit, command, AuditCommand(audit, command, index))
  <1>1. CASE command \in [kind : {"Heartbeat"}]
    <2>1. command.kind = "Heartbeat"
      BY <1>1
    <2>2. /\ Admissible(command) /\ Within(command, PositionOf(audit.positions, command.axis))
          /\ \A at, axis : Led(at, command, axis) = at
          /\ AuditCommand(audit, command, index) = audit
      BY <2>1 DEF Admissible, Within, Led, AuditCommand
    <2>. QED  BY <2>2 DEF Judges
  <1>2. CASE command \in Heatings
    <2>1. AuditCommand(audit, command, index) = AuditHeater(audit, command, index)
      BY <1>2 DEF AuditCommand, Heatings
    <2>. QED  BY <1>2, <2>1, AuditHeaterJudges
  <1>3. CASE command \in Homings
    <2>1. AuditCommand(audit, command, index) = AuditHome(audit, command, index)
      BY <1>3 DEF AuditCommand, Homings
    <2>. QED  BY <1>3, <2>1, AuditHomeJudges
  <1>4. CASE command \in Motions
    <2>1. AuditCommand(audit, command, index) = AuditMove(audit, command, index)
      BY <1>4 DEF AuditCommand, Motions
    <2>. QED  BY <1>4, <2>1, AuditMoveJudges
  <1>. QED  BY <1>1, <1>2, <1>3, <1>4 DEF Command

\* What the audit has found after the first m commands.
Audited(commands, m, audit) ==
    /\ audit \in Audits(Len(commands))
    /\ \A axis \in Moved : PositionOf(audit.positions, axis) = Track(0, commands, axis)[m]
    /\ audit.diagnostics = <<>> <=>
          \A i \in 1 .. m : /\ Admissible(commands[i])
                            /\ Within(commands[i], Track(0, commands, commands[i].axis)[i])

\* One more command.
LEMMA AuditedNext ==
    ASSUME NEW commands \in Seq(Command), NEW m \in 1 .. Len(commands), NEW audit,
           Audited(commands, m - 1, audit)
    PROVE  Audited(commands, m, AuditCommand(audit, commands[m], m))
  <1>. DEFINE n == Len(commands)
              command == commands[m]
              after == AuditCommand(audit, command, m)
              Fine(i) == /\ Admissible(commands[i])
                         /\ Within(commands[i], Track(0, commands, commands[i].axis)[i])
  <1>1. n \in Nat /\ m \in 1 .. n /\ command \in Command
    BY Items
  <1>2. Judges(n, audit, command, after)
    <2>1. audit \in Audits(n)
      BY DEF Audited
    <2>. HIDE DEF n, command
    <2>. QED  BY <1>1, <2>1, AuditCommandJudges
  <1>3. \A axis \in Moved : Track(0, commands, axis)[m] = Led(Track(0, commands, axis)[m - 1], command, axis)
    <2>1. 0 \in Int
      OBVIOUS
    <2>. QED  BY <1>1, <2>1, TrackSteps
  <1>. HIDE DEF n, command, after
  <1>4. \A axis \in Moved : PositionOf(after.positions, axis) = Track(0, commands, axis)[m]
    BY <1>2, <1>3 DEF Judges, Audited
  <1>5. Within(command, PositionOf(after.positions, command.axis))
            <=> Within(command, Track(0, commands, command.axis)[m])
    <2>1. command.kind = "Move" => command.axis \in Moved
      BY <1>1 DEF Command, Heatings, Homings, Motions
    <2>. QED  BY <1>4, <2>1 DEF Within
  <1>6. after.diagnostics = <<>> <=> audit.diagnostics = <<>> /\ Fine(m)
    <2>1. Fine(m) <=> /\ Admissible(command)
                      /\ Within(command, Track(0, commands, command.axis)[m])
      BY Zenon DEF command
    <2>. HIDE DEF Fine
    <2>. QED  BY <1>2, <1>5, <2>1, Zenon DEF Judges
  <1>7. audit.diagnostics = <<>> <=> \A i \in 1 .. m - 1 : Fine(i)
    BY DEF Audited
  <1>8. after.diagnostics = <<>> <=> \A i \in 1 .. m : Fine(i)
    <2>. HIDE DEF Fine
    <2>1. (\A i \in 1 .. m : Fine(i)) <=> (\A i \in 1 .. m - 1 : Fine(i)) /\ Fine(m)
      BY <1>1
    <2>. QED  BY <1>6, <1>7, <2>1, Zenon
  <1>9. after \in Audits(n)
    BY <1>2 DEF Judges
  <1>10. Audited(commands, m, after)
    BY <1>4, <1>8, <1>9 DEF Audited, n
  <1>. QED  BY <1>10 DEF after, command

\* The whole audit.
LEMMA JobAudited ==
    ASSUME NEW commands \in Seq(Command)
    PROVE  /\ Passed(commands) <=>
                 InBounds(commands) /\ \A i \in DOMAIN commands : Admissible(commands[i])
           /\ \A k \in DOMAIN Audit(commands) :
                 Audit(commands)[k].command_index \in 0 .. Len(commands) - 1
  <1>. DEFINE n == Len(commands)
              first == [positions |-> <<>>, diagnostics |-> <<>>]
              Recursion(f) == [i \in 0 .. n |->
                  IF i = 0 THEN first ELSE AuditCommand(f[i - 1], commands[i], i)]
              F == [i \in 1 .. n |-> [audit \in Audits(n) |-> AuditCommand(audit, commands[i], i)]]
              taken == CHOOSE f : f = Recursion(f)
  <1>1. n \in Nat /\ DOMAIN commands = 1 .. n /\ \A i \in 1 .. n : commands[i] \in Command
    BY Items
  <1>2. \A i \in 1 .. n : \A audit \in Audits(n) : AuditCommand(audit, commands[i], i) \in Audits(n)
    <2>. HIDE DEF n
    <2>. QED  BY <1>1, AuditCommandJudges DEF Judges
  <1>3. Audited(commands, 0, first)
    <2>1. first.positions \in Positioned
      <3>1. <<>> \in [{} -> Int] /\ {} \in SUBSET Moved
        OBVIOUS
      <3>2. <<>> \in Positioned
        BY <3>1 DEF Positioned
      <3>. QED  BY <3>2
    <2>2. first \in Audits(n)
      <3>1. <<>> \in Seq(Diagnostic(n))
        OBVIOUS
      <3>. QED  BY <2>1, <3>1 DEF Audits
    <2>3. \A axis \in Moved : Track(0, commands, axis)[0] = 0
      <3>1. 0 \in Int
        OBVIOUS
      <3>. QED  BY <3>1, TrackSteps
    <2>4. \A axis \in Moved : PositionOf(first.positions, axis) = 0
      BY DEF PositionOf
    <2>5. first.diagnostics = <<>>
      OBVIOUS
    <2>. HIDE DEF first
    <2>. QED  BY <2>2, <2>3, <2>4, <2>5 DEF Audited
  <1>4. first \in Audits(n)
    BY <1>3 DEF Audited
  <1>. HIDE DEF n, first
  <1>5. PICK f \in [0 .. n -> Audits(n)] : Proceeds(f, n, first, F)
    <2>1. F \in [1 .. n -> [Audits(n) -> Audits(n)]]
      BY <1>2
    <2>. HIDE DEF F
    <2>. QED  BY <1>1, <1>4, <2>1, RecursionExists DEF HasRecursion
  <1>6. f = Recursion(f)
    <2>1. ASSUME NEW i \in 0 .. n
          PROVE  f[i] = IF i = 0 THEN first ELSE AuditCommand(f[i - 1], commands[i], i)
      <3>1. i # 0 => i \in 1 .. n /\ i - 1 \in 0 .. n /\ f[i - 1] \in Audits(n)
        BY <1>1
      <3>. QED  BY <1>5, <3>1 DEF Proceeds
    <2>. QED  BY <2>1
  <1>7. taken = Recursion(taken)
    BY <1>6
  <1>8. taken[0] = first /\ \A i \in 1 .. n : taken[i] = AuditCommand(taken[i - 1], commands[i], i)
    <2>1. ASSUME NEW g, NEW h, h = Recursion(g)
          PROVE  h[0] = first /\ \A i \in 1 .. n : h[i] = AuditCommand(g[i - 1], commands[i], i)
      BY <1>1, <2>1
    <2>. HIDE DEF taken, Recursion
    <2>. QED  BY <1>7, <2>1
  <1>9. Audited(commands, n, taken[n])
    <2>. HIDE DEF taken
    <2>. DEFINE P == { m \in 0 .. n : Audited(commands, m, taken[m]) }
    <2>1. ASSUME NEW m \in 1 .. n, Audited(commands, m - 1, taken[m - 1])
          PROVE  Audited(commands, m, taken[m])
      <3>1. Audited(commands, m, AuditCommand(taken[m - 1], commands[m], m))
        BY <2>1, AuditedNext DEF n
      <3>. QED  BY <1>8, <3>1
    <2>2. 0 \in P /\ \A m \in 1 .. n : m - 1 \in P => m \in P
      BY <1>1, <1>3, <1>8, <2>1
    <2>3. n \in P
      <3>. HIDE DEF P
      <3>. QED  BY <1>1, <2>2, Positions
    <2>. QED  BY <2>3
  <1>10. Audit(commands) = taken[n].diagnostics
    BY DEF Audit, first, n
  <1>. HIDE DEF taken
  <1>11. Passed(commands) <=>
           \A i \in 1 .. n : /\ Admissible(commands[i])
                             /\ Within(commands[i], Track(0, commands, commands[i].axis)[i])
    BY <1>9, <1>10 DEF Audited, Passed
  <1>12. InBounds(commands) <=>
           \A i \in 1 .. n : Within(commands[i], Track(0, commands, commands[i].axis)[i])
    BY <1>1 DEF InBounds, Within
  <1>13. Audit(commands) \in Seq(Diagnostic(n))
    BY <1>9, <1>10 DEF Audited, Audits, n
  <1>14. \A k \in DOMAIN Audit(commands) : Audit(commands)[k] \in Diagnostic(n)
    BY <1>13, Items
  <1>15. \A k \in DOMAIN Audit(commands) : Audit(commands)[k].command_index \in 0 .. Len(commands) - 1
    BY <1>14 DEF Diagnostic, n
  <1>. QED  BY <1>1, <1>11, <1>12, <1>15

-----------------------------------------------------------------------------
(* The specification.                                                      *)

\* What makes the three properties inductive: whatever is lowered, handed over
\* and queued are commands, and the lowerer knows its modes and positions.
JobInv ==
    /\ lowerer \in Lowerer
    /\ lowered \in Seq(Command) /\ job \in Seq(Command) /\ job_queue \in Seq(Command)
    /\ LoweredKeepsPosition
    /\ QueueAdmissible

\* Nothing is lowered at first, and every axis is at 0.
LEMMA JobInvInit == Init => JobInv
  <1>. SUFFICES ASSUME Init  PROVE JobInv
    OBVIOUS
  <1>1. <<>> \in Seq(Command) /\ Len(<<>>) = 0 /\ 0 \in Int
    OBVIOUS
  <1>2. \A axis \in Moved : lowerer.positions[axis] = 0
    BY DEF Init, NewLowerer
  <1>3. \A axis : Track(0, <<>>, axis)[0] = 0
    <2>1. \A e \in Seq(Command) : \A axis : Track(0, e, axis)[0] = 0
      BY <1>1, TrackSteps
    <2>. QED  BY <1>1, <2>1
  <1>4. LoweredKeepsPosition
    BY <1>1, <1>2, <1>3 DEF Init, LoweredKeepsPosition
  <1>5. QueueAdmissible
    BY DEF Init, QueueAdmissible
  <1>. QED  BY <1>1, <1>4, <1>5, NewLowererType DEF Init, JobInv

\* A line extends what was lowered by what it leads to.
LEMMA LowerLineKeeps ==
    ASSUME JobInv, LowerLine
    PROVE  JobInv'
  <1>. DEFINE step(line) == Lower(lowerer, line)
  <1>1. PICK line \in Lines : /\ lowerer' = step(line).lowerer
                              /\ lowered' = lowered \o step(line).commands
                              /\ job' = job \o step(line).commands
    BY DEF LowerLine
  <1>2. Follows(lowerer, step(line))
    <2>1. line \in Seq(Word)
      BY PreparationAssumption
    <2>. QED  BY <2>1, LowerFollows DEF JobInv
  <1>. DEFINE commands == step(line).commands
  <1>. HIDE DEF step
  <1>3. lowerer' \in Lowerer /\ commands \in Seq(Command)
    BY <1>1, <1>2 DEF Follows, Steps
  <1>4. ASSUME NEW axis \in Moved
        PROVE  lowerer'.positions[axis] = Track(0, lowered', axis)[Len(lowered')]
    <2>1. lowerer.positions[axis] = End(0, lowered, axis)
      BY DEF JobInv, LoweredKeepsPosition, End
    <2>2. lowerer'.positions[axis] = End(lowerer.positions[axis], commands, axis)
      BY <1>1, <1>2 DEF Follows
    <2>3. End(0, lowered \o commands, axis) = End(End(0, lowered, axis), commands, axis)
      <3>1. 0 \in Int /\ lowered \in Seq(Command)
        BY DEF JobInv
      <3>. QED  BY <1>3, <3>1, EndConcat
    <2>4. lowered' = lowered \o commands
      BY <1>1
    <2>. HIDE DEF commands
    <2>. QED  BY <2>1, <2>2, <2>3, <2>4 DEF End
  <1>5. LoweredKeepsPosition'
    BY <1>4 DEF LoweredKeepsPosition
  <1>6. lowered' \in Seq(Command) /\ job' \in Seq(Command)
    <2>. HIDE DEF commands
    <2>. QED  BY <1>1, <1>3 DEF JobInv, commands
  <1>7. job_queue' = job_queue
    BY DEF LowerLine
  <1>. QED  BY <1>3, <1>5, <1>6, <1>7 DEF JobInv, QueueAdmissible

\* What is queued passed an audit, by itself or with the rest of the job.
LEMMA EnqueueKeeps ==
    ASSUME JobInv, Enqueue \/ EnqueueBatch
    PROVE  JobInv'
  <1>1. UNCHANGED <<lowerer, lowered>>
    BY DEF Enqueue, EnqueueBatch
  <1>2. /\ job \in Seq(Command) /\ job # <<>> /\ job_queue \in Seq(Command)
        /\ \A i \in DOMAIN job_queue : Admissible(job_queue[i])
    BY DEF JobInv, QueueAdmissible, Enqueue, EnqueueBatch
  <1>3. ASSUME NEW e \in Seq(Command), Passed(e)
        PROVE  /\ job_queue \o e \in Seq(Command)
               /\ \A i \in DOMAIN (job_queue \o e) : Admissible((job_queue \o e)[i])
    <2>1. \A i \in 1 .. Len(e) : Admissible(e[i])
      BY <1>3, JobAudited
    <2>2. /\ job_queue \o e \in Seq(Command)
          /\ Len(job_queue \o e) = Len(job_queue) + Len(e)
          /\ Len(job_queue) \in Nat /\ Len(e) \in Nat
      BY <1>2
    <2>3. ASSUME NEW i \in 1 .. Len(job_queue) + Len(e)
          PROVE  Admissible((job_queue \o e)[i])
      <3>1. CASE i <= Len(job_queue)
        <4>1. (job_queue \o e)[i] = job_queue[i] /\ i \in DOMAIN job_queue
          BY <1>2, <2>2, <3>1
        <4>. QED  BY <1>2, <4>1
      <3>2. CASE ~(i <= Len(job_queue))
        <4>1. /\ (job_queue \o e)[i] = e[i - Len(job_queue)]
              /\ i - Len(job_queue) \in 1 .. Len(e)
          BY <1>2, <2>2, <3>2
        <4>. QED  BY <2>1, <4>1
      <3>. QED  BY <3>1, <3>2
    <2>. QED  BY <2>2, <2>3
  <1>4. CASE Enqueue
    <2>1. Head(job) \in Command /\ Tail(job) \in Seq(Command) /\ <<Head(job)>> \in Seq(Command)
      BY <1>2
    <2>2. Append(job_queue, Head(job)) = job_queue \o <<Head(job)>>
      BY <1>2, <2>1
    <2>3. job_queue' = IF Passed(<<Head(job)>>) THEN Append(job_queue, Head(job)) ELSE job_queue
      BY <1>4 DEF Enqueue
    <2>4. job_queue' \in Seq(Command) /\ QueueAdmissible'
      BY <1>2, <1>3, <2>1, <2>2, <2>3 DEF QueueAdmissible
    <2>5. job' \in Seq(Command)
      BY <1>4, <2>1 DEF Enqueue
    <2>. QED  BY <1>1, <2>4, <2>5 DEF JobInv, LoweredKeepsPosition
  <1>5. CASE EnqueueBatch
    <2>1. job_queue' = IF Passed(job) THEN job_queue \o job ELSE job_queue
      BY <1>5 DEF EnqueueBatch
    <2>2. job_queue' \in Seq(Command) /\ QueueAdmissible'
      BY <1>2, <1>3, <2>1 DEF QueueAdmissible
    <2>3. job' \in Seq(Command)
      BY <1>5 DEF EnqueueBatch
    <2>. QED  BY <1>1, <2>2, <2>3 DEF JobInv, LoweredKeepsPosition
  <1>. QED  BY <1>4, <1>5

\* Every step keeps the invariant.
LEMMA JobInvStep == JobInv /\ [Next]_preparationVars => JobInv'
  <1>. SUFFICES ASSUME JobInv, [Next]_preparationVars  PROVE JobInv'
    OBVIOUS
  <1>1. CASE Next
    BY <1>1, LowerLineKeeps, EnqueueKeeps DEF Next
  <1>2. CASE UNCHANGED preparationVars
    BY <1>2 DEF preparationVars, JobInv, LoweredKeepsPosition, QueueAdmissible
  <1>. QED  BY <1>1, <1>2

\* The invariant holds of every preparation of a job.
LEMMA Prepared == Spec => []JobInv
  <1>. QED  BY JobInvInit, JobInvStep, PTL DEF Spec

\* The lowerer of any program is where its commands lead a machine that starts
\* at 0, in absolute and relative positioning, through homing of any axes
\* (GcodeLowerer::lower_line).
THEOREM PositionTheorem == Spec => []LoweredKeepsPosition
  <1>1. JobInv => LoweredKeepsPosition
    BY DEF JobInv
  <1>. QED  BY <1>1, Prepared, PTL

\* The audit of a job of any length passes exactly when no command is
\* inadmissible and no axis ever leaves its bounds, and diagnoses nothing but
\* commands of the job (ToolpathAuditor::audit).
THEOREM AuditTheorem == Spec => []AuditDecides
  <1>1. JobInv => AuditDecides
    BY JobAudited DEF JobInv, AuditDecides
  <1>. QED  BY <1>1, Prepared, PTL

\* By whichever way, nothing inadmissible gets into the queue of a runner with
\* an auditor (WorkflowRunner::enqueue, enqueue_batch).
THEOREM AdmissionTheorem == Spec => []QueueAdmissible
  <1>1. JobInv => QueueAdmissible
    BY DEF JobInv
  <1>. QED  BY <1>1, Prepared, PTL
=============================================================================
