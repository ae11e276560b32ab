---------------------------- MODULE ProtocolProofs ----------------------------
(***************************************************************************)
(* Proofs about the communication layer: Checksum, for lines of every      *)
(* length, every byte set and every width of the accumulator, and          *)
(* ProtocolFrame, for every set of lines and all sizes of the fields.      *)
(***************************************************************************)
EXTENDS Checksum, ProtocolFrame, SumTheorems, SequenceTheorems

\* The loop has added up a part of the line, up to multiples of WordSize.
LoopInvariant == \E q \in Int : SumTo(Codes(data), i) = sum + WordSize * q

Inv ==
  /\ TypeOK
  /\ LoopInvariant
  /\ Done => i = len /\ out = Digits(sum % 256)

\* Adding multiples of WordSize changes no remainder modulo 256.
LEMMA WrapIsHarmless ==
  ASSUME NEW s \in Int, NEW q \in Int
  PROVE  (s + WordSize * q) % 256 = s % 256
<1>1. PICK k \in Int : WordSize = 256 * k
  <2>1. WordSize = 256 * (WordSize \div 256)
    BY WordAssumption
  <2>2. WordSize \div 256 \in Int
    BY WordAssumption
  <2> QED
    BY <2>1, <2>2
<1>2. WordSize * q = 256 * (k * q) /\ k * q \in Int
  BY <1>1
<1>3. \A m \in Int : (s + 256 * m) % 256 = s % 256
  OBVIOUS
<1> QED
  BY <1>2, <1>3

\* Two numbers that differ by less than 256 differ modulo 256.
LEMMA SmallChangeShows ==
  ASSUME NEW a \in Int, NEW d \in -255 .. 255, d # 0
  PROVE  (a + d) % 256 # a % 256
OBVIOUS

\* The two digits say what they were made from.
LEMMA DigitsSay ==
  ASSUME NEW c \in 0 .. 255
  PROVE  /\ Digits(c) \in (0 .. 15) \X (0 .. 15)
         /\ Value(Digits(c)) = c
         /\ Digits(c) # NoDigits
<1>1. (c \div 16) % 16 = c \div 16 /\ c \div 16 \in 0 .. 15 /\ c % 16 \in 0 .. 15
  OBVIOUS
<1>2. 16 * (c \div 16) + (c % 16) = c
  OBVIOUS
<1> QED
  BY <1>1, <1>2 DEF Digits, Value, NoDigits

\* A char is a number, signed or not.
LEMMA BytesAreIntegers ==
  ASSUME NEW b \in Byte
  PROVE  b \in Int /\ (b \in -128 .. 127 \/ b \in 0 .. 255)
<1>1. CASE Byte \subseteq -128 .. 127
  <2>1. b \in -128 .. 127
    BY <1>1
  <2> QED BY <2>1
<1>2. CASE Byte \subseteq 0 .. 255
  <2>1. b \in 0 .. 255
    BY <1>2
  <2> QED BY <2>1
<1> QED BY <1>1, <1>2, ByteAssumption

\* The codes of a line are numbers of 8 bits.
LEMMA CodesAreIntegers ==
  ASSUME TypeOK
  PROVE  /\ len \in Nat /\ Codes(data) \in [1 .. len -> Int]
         /\ \A m \in 1 .. len : /\ Codes(data)[m] = Unsigned(data[m])
                                /\ Unsigned(data[m]) \in 0 .. 255
<1>1. len \in Nat /\ data \in [1 .. len -> Byte]
  BY LengthAssumption DEF TypeOK
<1>2. ASSUME NEW m \in 1 .. len PROVE Unsigned(data[m]) \in 0 .. 255
  <2>1. data[m] \in Byte
    BY <1>1
  <2>2. data[m] \in Int
    BY <2>1, BytesAreIntegers
  <2> QED BY <2>2 DEF Unsigned
<1>3. Codes(data) = [m \in 1 .. len |-> Unsigned(data[m])]
  BY <1>1 DEF Codes
<1>4. \A x \in 0 .. 255 : x \in Int
  OBVIOUS
<1> QED
  BY <1>1, <1>2, <1>3, <1>4

\* Two bytes differ only if their codes do.
LEMMA CodesDiffer ==
  ASSUME NEW b \in Byte, NEW c \in Byte, b # c
  PROVE  /\ Unsigned(b) \in 0 .. 255 /\ Unsigned(c) \in 0 .. 255
         /\ Unsigned(b) # Unsigned(c)
<1>1. /\ b \in Int /\ c \in Int /\ b - c \in -255 .. 255 /\ b - c # 0
      /\ c + (b - c) = b
  <2>1. \A u, v \in -128 .. 127 : u - v \in -255 .. 255
    OBVIOUS
  <2>2. \A u, v \in 0 .. 255 : u - v \in -255 .. 255
    OBVIOUS
  <2>3. b - c \in -255 .. 255
    <3>1. CASE Byte \subseteq -128 .. 127
      <4>1. b \in -128 .. 127 /\ c \in -128 .. 127
        BY <3>1
      <4> QED BY <2>1, <4>1
    <3>2. CASE Byte \subseteq 0 .. 255
      <4>1. b \in 0 .. 255 /\ c \in 0 .. 255
        BY <3>2
      <4> QED BY <2>2, <4>1
    <3> QED BY <3>1, <3>2, ByteAssumption
  <2>4. b \in Int /\ c \in Int
    BY BytesAreIntegers
  <2> QED BY <2>3, <2>4
<1>2. b % 256 # c % 256
  <2> DEFINE d == b - c
  <2>1. d \in -255 .. 255 /\ d # 0 /\ c + d = b
    BY <1>1
  <2> HIDE DEF d
  <2>2. \A x \in Int, y \in -255 .. 255 : y # 0 => (x + y) % 256 # x % 256
    BY SmallChangeShows
  <2>3. (c + d) % 256 # c % 256
    BY <1>1, <2>1, <2>2, Zenon
  <2> QED BY <2>1, <2>3, Zenon
<1>3. b % 256 \in 0 .. 255 /\ c % 256 \in 0 .. 255
  BY <1>1
<1> QED BY <1>2, <1>3 DEF Unsigned

\* The accumulator is the sum of the bytes read so far, modulo WordSize.
THEOREM Invariance == Spec => []Inv
<1>1. Init => Inv
  <2> SUFFICES ASSUME Init PROVE Inv
    OBVIOUS
  <2>1. TypeOK
    BY LengthAssumption, WordAssumption DEF Init, TypeOK, Done
  <2>2. SumTo(Codes(data), 0) = 0
    BY <2>1, CodesAreIntegers, SumToStep
  <2>3. SumTo(Codes(data), i) = sum + WordSize * 0
    BY <2>2, WordAssumption DEF Init
  <2> QED
    BY <2>1, <2>3 DEF Init, Inv, LoopInvariant, Done
<1>2. Inv /\ [Next]_vars => Inv'
  <2> SUFFICES ASSUME Inv, [Next]_vars PROVE Inv'
    OBVIOUS
  <2>0. len \in Nat /\ Codes(data) \in [1 .. len -> Int]
    BY CodesAreIntegers DEF Inv
  <2>1. CASE Add
    <3> DEFINE code == Unsigned(data[i + 1])
    <3>1. /\ i \in 0 .. len /\ i < len /\ i + 1 \in 1 .. len /\ sum \in Int
          /\ Codes(data)[i + 1] = code /\ code \in Int
      <4>1. i \in 0 .. len /\ i < len /\ i + 1 \in 1 .. len /\ sum \in Int
        BY <2>0, <2>1, WordAssumption DEF Add, Inv, TypeOK
      <4> QED BY <4>1, CodesAreIntegers DEF Inv
    <3> HIDE DEF code
    <3>2. PICK q \in Int : SumTo(Codes(data), i) = sum + WordSize * q
      BY DEF Inv, LoopInvariant
    <3>3. SumTo(Codes(data), i + 1) = SumTo(Codes(data), i) + code
      BY <2>0, <3>1, SumToStep
    <3> DEFINE total == sum + code
               d == total \div WordSize
    <3>4. /\ d \in Int
          /\ total % WordSize \in 0 .. WordSize - 1
          /\ total = (total % WordSize) + WordSize * d
      BY <3>1, WordAssumption
    <3>5. \A u, v \in Int : WordSize * (u + v) = WordSize * u + WordSize * v
      BY WordAssumption
    <3>6. SumTo(Codes(data'), i') = sum' + WordSize * (d + q)
      <4>1. data' = data /\ i' = i + 1 /\ sum' = total % WordSize
        BY <2>1 DEF Add, Plus, code
      <4> HIDE DEF d
      <4>2. WordSize * (d + q) = WordSize * d + WordSize * q
        BY <3>4, <3>5
      <4>3. WordSize * d \in Int /\ WordSize * q \in Int
        BY <3>4, WordAssumption
      <4>4. SumTo(Codes(data'), i') = SumTo(Codes(data), i) + code
        BY <3>3, <4>1, Zenon
      <4>5. total % WordSize \in Int
        BY <3>4, WordAssumption
      <4>7. (sum + WordSize * q) + code = (total % WordSize) + (WordSize * d + WordSize * q)
        <5>1. total = (total % WordSize) + WordSize * d
          BY <3>4
        <5>2. sum + code = (total % WordSize) + WordSize * d
          BY <5>1, Zenon
        <5> DEFINE u == WordSize * d
                   v == WordSize * q
                   r == total % WordSize
        <5>3. u \in Int /\ v \in Int /\ r \in Int /\ sum + code = r + u
          BY <4>3, <4>5, <5>2
        <5> HIDE DEF u, v, r
        <5>4. (sum + v) + code = r + (u + v)
          BY <3>1, <5>3
        <5> QED
          BY <5>4 DEF u, v, r
      <4> HIDE DEF total
      <4> QED
        BY <3>2, <4>1, <4>2, <4>4, <4>7, Zenon
    <3>7. LoopInvariant'
      BY <3>4, <3>6 DEF LoopInvariant
    <3>8. TypeOK'
      BY <2>0, <2>1, <3>1, <3>4 DEF Add, Plus, Inv, TypeOK, Done, code
    <3> QED
      BY <2>1, <3>7, <3>8 DEF Add, Inv, Done
  <2>2. CASE Format
    <3>1. sum % 256 \in 0 .. 255
      BY WordAssumption DEF Inv, TypeOK
    <3>2. out' \in (0 .. 15) \X (0 .. 15)
      BY <2>2, <3>1, DigitsSay DEF Format
    <3> QED
      BY <2>2, <3>2 DEF Format, Inv, TypeOK, LoopInvariant, Done
  <2>3. CASE UNCHANGED vars
    BY <2>3 DEF vars, Inv, TypeOK, LoopInvariant, Done
  <2> QED
    BY <2>1, <2>2, <2>3 DEF Next
<1> QED
  BY <1>1, <1>2, PTL DEF Spec

\* The digits of compute_checksum and format_checksum_hex are the true sum
\* modulo 256: the wrap of the unsigned int never shows.
LEMMA InvGivesSum == Inv => ChecksumIsSum
<1> SUFFICES ASSUME Inv, Done PROVE Value(out) = SumTo(Codes(data), len) % 256
  BY DEF ChecksumIsSum
<1>1. sum \in Int /\ sum % 256 \in 0 .. 255
  BY WordAssumption DEF Inv, TypeOK
<1>2. PICK q \in Int : SumTo(Codes(data), len) = sum + WordSize * q
  BY DEF Inv, LoopInvariant
<1>3. Value(out) = sum % 256
  BY <1>1, DigitsSay DEF Inv
<1> QED
  BY <1>1, <1>2, <1>3, WrapIsHarmless

\* For a line of any length and an accumulator of any width the digits are
\* the sum of the bytes modulo 256.
THEOREM SumIsRight == Spec => []ChecksumIsSum
BY Invariance, InvGivesSum, PTL

\* No corruption of a single byte goes unnoticed, wherever it is and whatever
\* the length of the line.
THEOREM OneByteShows == Spec => []DetectsOneByte
<1>1. Inv => DetectsOneByte
  <2> SUFFICES ASSUME Inv, Done, NEW j \in 1 .. len, NEW b \in Byte, b # data[j]
               PROVE  Value(out) # SumTo(Codes([data EXCEPT ![j] = b]), len) % 256
    BY DEF DetectsOneByte
  <2>1. len \in Nat /\ Codes(data) \in [1 .. len -> Int]
    BY CodesAreIntegers DEF Inv
  <2>2. data \in [1 .. len -> Byte] /\ data[j] \in Byte
    BY DEF Inv, TypeOK
  <2>3. /\ Unsigned(data[j]) \in 0 .. 255 /\ Unsigned(b) \in 0 .. 255
        /\ Unsigned(b) # Unsigned(data[j])
    BY <2>2, CodesDiffer
  <2> DEFINE x == Codes(data)
             y == Codes([data EXCEPT ![j] = b])
             d == Unsigned(b) - Unsigned(data[j])
  <2>4. /\ y \in [1 .. len -> Int] /\ y[j] = x[j] + d /\ d \in Int
        /\ \A m \in 1 .. len : m # j => y[m] = x[m]
    <3>1. \A m \in 1 .. len : x[m] = Unsigned(data[m]) /\ x[m] \in Int
      BY <2>1, CodesAreIntegers DEF Inv
    <3>2. y = [m \in 1 .. len |-> Unsigned([data EXCEPT ![j] = b][m])]
      BY <2>2 DEF Codes
    <3>3. y = [m \in 1 .. len |-> IF m = j THEN Unsigned(b) ELSE x[m]]
      <4> DEFINE e == [data EXCEPT ![j] = b]
      <4>1. /\ e[j] = b
            /\ \A m \in 1 .. len : m # j => e[m] = data[m]
        BY <2>2
      <4>3. y = [m \in 1 .. len |-> Unsigned(e[m])]
        BY <3>2, Zenon
      <4> HIDE DEF e
      <4>2. \A m \in 1 .. len : Unsigned(e[m]) = IF m = j THEN Unsigned(b) ELSE x[m]
        BY <3>1, <4>1
      <4> HIDE DEF x, y
      <4> QED BY <4>2, <4>3, Zenon
    <3> HIDE DEF x, y
    <3>4. d \in Int /\ Unsigned(b) = Unsigned(data[j]) + d
      <4>1. \A u, v \in 0 .. 255 : u - v \in Int /\ u = v + (u - v)
        OBVIOUS
      <4> QED BY <2>3, <4>1, Zenon
    <3> HIDE DEF d
    <3> QED BY <2>3, <3>1, <3>3, <3>4
  <2>5. SumTo(y, len) = SumTo(x, len) + d
    <3> HIDE DEF x, y, d
    <3> QED
      BY <2>1, <2>4, SumToUpdate DEF x
  <2>6. SumTo(x, len) \in Int
    BY <2>1, SumToType
  <2>7. \A a \in Int : (a + d) % 256 # a % 256
    <3>0. \A u, v \in 0 .. 255 : u # v => u - v \in -255 .. 255 /\ u - v # 0
      OBVIOUS
    <3>1. d \in -255 .. 255 /\ d # 0
      BY <2>3, <3>0
    <3> HIDE DEF d
    <3> TAKE a \in Int
    <3>2. \A u \in -255 .. 255 : u # 0 => (a + u) % 256 # a % 256
      BY SmallChangeShows
    <3> QED
      BY <3>1, <3>2, Zenon
  <2>8. Value(out) = SumTo(x, len) % 256
    BY InvGivesSum DEF ChecksumIsSum
  <2> HIDE DEF x, y, d
  <2> QED
    BY <2>5, <2>6, <2>7, <2>8 DEF y
<1> QED
  BY <1>1, Invariance, PTL

------------------------------------------------------------------------------
\* Frames.

\* The least position in a set of positions, 0 if there is none: what the
\* library's searches return.
LEMMA LeastPosition ==
  ASSUME NEW n \in Nat, NEW I, \A m \in I : m \in 1 .. n,
         NEW k, k = IF I # {} THEN Min(I) ELSE 0
  PROVE  /\ k \in 0 .. n /\ (k # 0 => k \in I)
         /\ \A m \in 1 .. n : (k = 0 \/ m < k) => m \notin I
<1>1. CASE I = {}
  BY <1>1
<1>2. CASE I # {}
  <2>1. I \in SUBSET Nat
    OBVIOUS
  <2>2. \E l \in I : \A m \in I : l <= m
    BY <1>2, <2>1, LeastNatural
  <2>3. k \in I /\ \A m \in I : k <= m
    BY <1>2, <2>2 DEF Min
  <2>4. k \in 1 .. n
    BY <2>3
  <2> QED BY <2>3, <2>4
<1> QED BY <1>1, <1>2

\* strchr finds the first comma.
LEMMA CommaIsFirst ==
  ASSUME NEW s \in Seq(Char)
  PROVE  /\ Comma(s) \in 0 .. Len(s)
         /\ Comma(s) # 0 => s[Comma(s)] = ","
         /\ \A m \in 1 .. Len(s) : (Comma(s) = 0 \/ m < Comma(s)) => s[m] # ","
<1> DEFINE I == {m \in 1 .. Len(s) : s[m] = ","}
           k == Comma(s)
<1>1. k = IF I # {} THEN Min(I) ELSE 0
  BY DEF Comma, SelectInSeq
<1>2. Len(s) \in Nat /\ \A m \in I : m \in 1 .. Len(s)
  <2>1. Len(s) \in Nat
    OBVIOUS
  <2>2. \A m \in I : m \in 1 .. Len(s)
    OBVIOUS
  <2> QED BY <2>1, <2>2
<1>3. /\ k \in 0 .. Len(s) /\ (k # 0 => k \in I)
      /\ \A m \in 1 .. Len(s) : (k = 0 \/ m < k) => m \notin I
  <2> HIDE DEF I, k
  <2> QED BY <1>1, <1>2, LeastPosition
<1> HIDE DEF k
<1> QED BY <1>3 DEF k

\* A run of characters of S is the longest beginning made of them.
LEMMA RunIsLongest ==
  ASSUME NEW s \in Seq(Char), NEW S
  PROVE  /\ Run(s, S) \in Seq(Char) /\ Len(Run(s, S)) \in 0 .. Len(s)
         /\ \A m \in 1 .. Len(Run(s, S)) : Run(s, S)[m] = s[m] /\ s[m] \in S
         /\ Len(Run(s, S)) < Len(s) => s[Len(Run(s, S)) + 1] \notin S
<1> DEFINE I == {m \in 1 .. Len(s) : s[m] \notin S}
           k == SelectInSeq(s, LAMBDA c : c \notin S)
<1>1. k = IF I # {} THEN Min(I) ELSE 0
  BY DEF SelectInSeq
<1>2. Len(s) \in Nat /\ \A m \in I : m \in 1 .. Len(s)
  <2>1. Len(s) \in Nat
    OBVIOUS
  <2>2. \A m \in I : m \in 1 .. Len(s)
    OBVIOUS
  <2> QED BY <2>1, <2>2
<1>3. /\ k \in 0 .. Len(s) /\ (k # 0 => k \in I)
      /\ \A m \in 1 .. Len(s) : (k = 0 \/ m < k) => m \notin I
  <2> HIDE DEF I, k
  <2> QED BY <1>1, <1>2, LeastPosition
<1>4. Run(s, S) = IF k = 0 THEN s ELSE SubSeq(s, 1, k - 1)
  BY DEF Run
<1> HIDE DEF k
<1>5. \A m \in 1 .. Len(s) : (k = 0 \/ m < k) => s[m] \in S
  BY <1>3
<1>6. k # 0 => s[k] \notin S
  BY <1>3
<1> HIDE DEF I
<1>7. CASE k = 0
  BY <1>2, <1>4, <1>5, <1>7
<1>8. CASE k # 0
  <2>1. k - 1 \in 0 .. Len(s) /\ k - 1 < Len(s)
    BY <1>2, <1>3, <1>8
  <2>2. /\ Run(s, S) \in Seq(Char) /\ Len(Run(s, S)) = k - 1
        /\ \A m \in 1 .. k - 1 : Run(s, S)[m] = s[m]
    BY <1>2, <1>4, <1>8, <2>1
  <2> QED BY <1>2, <1>3, <1>5, <1>6, <1>8, <2>1, <2>2
<1> QED BY <1>7, <1>8

\* A digit is a number, and neither a sign nor a blank.
LEMMA DigitIsNumber ==
  ASSUME NEW d \in DigitChar
  PROVE  Digit[d] \in 0 .. 9 /\ d \notin Blank /\ d \notin {"+", "-"} /\ d \in Char
<1>1. PICK n \in 0 .. 9 : Numerals[n + 1] = d
  BY DEF DigitChar
<1>2. Digit[d] \in 0 .. 9
  BY <1>1 DEF Digit
<1>3. d \notin Blank
  BY BlankAssumption
<1>4. d \in {"0", "1", "2", "3", "4", "5", "6", "7", "8", "9"}
  <2>1. n \in {0, 1, 2, 3, 4, 5, 6, 7, 8, 9}
    OBVIOUS
  <2>2. /\ Numerals[0 + 1] = "0" /\ Numerals[1 + 1] = "1" /\ Numerals[2 + 1] = "2"
        /\ Numerals[3 + 1] = "3" /\ Numerals[4 + 1] = "4" /\ Numerals[5 + 1] = "5"
        /\ Numerals[6 + 1] = "6" /\ Numerals[7 + 1] = "7" /\ Numerals[8 + 1] = "8"
        /\ Numerals[9 + 1] = "9"
    BY DEF Numerals
  <2> QED BY <1>1, <2>1, <2>2
<1>5. d \in Char /\ d \notin {"+", "-"}
  BY <1>4, CharAssumption
<1> QED BY <1>2, <1>3, <1>5

\* The characters of a sequence of digits.
LEMMA DigitsAreNumbers ==
  ASSUME NEW t \in Seq(DigitChar), Len(t) <= 3
  PROVE  /\ Len(t) \in 0 .. 3
         /\ \A m \in 1 .. Len(t) : Digit[t[m]] \in 0 .. 9
<1>1. Len(t) \in Nat
  OBVIOUS
<1>2. ASSUME NEW m \in 1 .. Len(t) PROVE Digit[t[m]] \in 0 .. 9
  <2>1. t[m] \in DigitChar
    OBVIOUS
  <2> QED BY <2>1, DigitIsNumber
<1>3. Len(t) \in 0 .. 3
  <2> DEFINE n == Len(t)
  <2>1. n \in Nat
    BY <1>1
  <2>2. n <= 3
    OBVIOUS
  <2> HIDE DEF n
  <2>3. n \in 0 .. 3
    BY <2>1, <2>2
  <2> QED BY <2>3 DEF n
<1> QED BY <1>2, <1>3

\* What up to three digits are read as.
LEMMA NumberOfThree ==
  ASSUME NEW t \in Seq(DigitChar), Len(t) <= 3
  PROVE  Number(t) = IF Len(t) = 0 THEN 0
                     ELSE IF Len(t) = 1 THEN Digit[t[1]]
                     ELSE IF Len(t) = 2 THEN 10 * Digit[t[1]] + Digit[t[2]]
                     ELSE 10 * (10 * Digit[t[1]] + Digit[t[2]]) + Digit[t[3]]
<1> DEFINE n == Len(t)
           E(g) == [m \in 0 .. n |-> IF m = 0 THEN 0 ELSE 10 * g[m - 1] + Digit[t[m]]]
           v == [m \in 0 .. n |->
                   IF m = 0 THEN 0
                   ELSE IF m = 1 THEN Digit[t[1]]
                   ELSE IF m = 2 THEN 10 * Digit[t[1]] + Digit[t[2]]
                   ELSE 10 * (10 * Digit[t[1]] + Digit[t[2]]) + Digit[t[3]]]
           g == CHOOSE f : f = E(f)
<1>1. /\ n \in 0 .. 3
      /\ n >= 1 => Digit[t[1]] \in 0 .. 9
      /\ n >= 2 => Digit[t[2]] \in 0 .. 9
      /\ n >= 3 => Digit[t[3]] \in 0 .. 9
  BY DigitsAreNumbers
<1>2. v = E(v)
  <2>1. ASSUME NEW m \in 0 .. n PROVE v[m] = E(v)[m]
    <3>1. m = 0 \/ m = 1 \/ m = 2 \/ m = 3
      BY <1>1
    <3>2. CASE m = 0
      BY <3>2
    <3>3. CASE m = 1
      BY <1>1, <3>3
    <3>4. CASE m = 2
      BY <1>1, <3>4
    <3>5. CASE m = 3
      <4>1. /\ v[3] = 10 * (10 * Digit[t[1]] + Digit[t[2]]) + Digit[t[3]]
            /\ v[2] = 10 * Digit[t[1]] + Digit[t[2]]
            /\ E(v)[3] = 10 * v[2] + Digit[t[3]]
        BY <3>5
      <4> HIDE DEF v, E
      <4> QED BY <3>5, <4>1
    <3> QED BY <3>1, <3>2, <3>3, <3>4, <3>5
  <2> QED BY <2>1
<1>3. g = E(g)
  BY <1>2
<1>4. Number(t) = g[n]
  BY DEF Number
<1> HIDE DEF g
<1>5. g[0] = 0
  BY <1>1, <1>3
<1>6. n >= 1 => g[1] = Digit[t[1]]
  BY <1>1, <1>3, <1>5
<1>7. n >= 2 => g[2] = 10 * Digit[t[1]] + Digit[t[2]]
  BY <1>1, <1>3, <1>6
<1>8. n >= 3 => g[3] = 10 * (10 * Digit[t[1]] + Digit[t[2]]) + Digit[t[3]]
  <2> SUFFICES ASSUME n >= 3 PROVE g[3] = 10 * (10 * Digit[t[1]] + Digit[t[2]]) + Digit[t[3]]
    OBVIOUS
  <2>1. g[3] = 10 * g[2] + Digit[t[3]]
    BY <1>1, <1>3
  <2>2. g[2] = 10 * Digit[t[1]] + Digit[t[2]]
    BY <1>1, <1>7
  <2> QED BY <2>1, <2>2
<1> QED BY <1>1, <1>4, <1>5, <1>6, <1>7, <1>8

\* At most two digits say less than a hundred, at most three less than a
\* thousand.
LEMMA NumberBounds ==
  ASSUME NEW t \in Seq(DigitChar), Len(t) <= 3
  PROVE  Number(t) \in 0 .. 999 /\ (Len(t) <= 2 => Number(t) <= 99)
<1> DEFINE n == Len(t)
<1>1. /\ n \in 0 .. 3
      /\ n >= 1 => Digit[t[1]] \in 0 .. 9
      /\ n >= 2 => Digit[t[2]] \in 0 .. 9
      /\ n >= 3 => Digit[t[3]] \in 0 .. 9
  BY DigitsAreNumbers
<1>2. Number(t) = IF n = 0 THEN 0
                  ELSE IF n = 1 THEN Digit[t[1]]
                  ELSE IF n = 2 THEN 10 * Digit[t[1]] + Digit[t[2]]
                  ELSE 10 * (10 * Digit[t[1]] + Digit[t[2]]) + Digit[t[3]]
  BY NumberOfThree
<1> HIDE DEF n
<1>3. CASE n = 0 \/ n = 1
  <2>1. Number(t) \in 0 .. 9
    BY <1>1, <1>2, <1>3
  <2> QED BY <2>1
<1>4. CASE n = 2
  <2>1. PICK a \in 0 .. 9, b \in 0 .. 9 : Digit[t[1]] = a /\ Digit[t[2]] = b
    BY <1>1, <1>4
  <2>2. Number(t) = 10 * a + b
    BY <1>2, <1>4, <2>1
  <2> QED BY <2>2
<1>5. CASE n = 3
  <2>1. PICK a \in 0 .. 9, b \in 0 .. 9, c \in 0 .. 9 :
           Digit[t[1]] = a /\ Digit[t[2]] = b /\ Digit[t[3]] = c
    <3>1. n >= 1 /\ n >= 2 /\ n >= 3
      BY <1>5
    <3> QED BY <1>1, <3>1, Zenon
  <2>2. Number(t) = 10 * (10 * Digit[t[1]] + Digit[t[2]]) + Digit[t[3]]
    <3>1. n # 0 /\ n # 1 /\ n # 2
      BY <1>5
    <3> QED BY <1>2, <3>1, Zenon
  <2>3. Number(t) = 10 * (10 * a + b) + c
    BY <2>1, <2>2
  <2> QED BY <1>5, <2>3 DEF n
<1> QED BY <1>1, <1>3, <1>4, <1>5

\* What is left of a sequence, what is kept of it, and how it begins.
LEMMA RestOfSequence ==
  ASSUME NEW s \in Seq(Char), NEW n \in 0 .. Len(s)
  PROVE  /\ From(s, n) \in Seq(Char) /\ Len(From(s, n)) = Len(s) - n
         /\ \A m \in 1 .. Len(s) - n : From(s, n)[m] = s[n + m]
<1>1. Len(s) \in Nat /\ n + 1 \in Int
  OBVIOUS
<1>2. \A m \in n + 1 .. Len(s) : s[m] \in Char
  OBVIOUS
<1>3. /\ SubSeq(s, n + 1, Len(s)) \in Seq(Char)
      /\ Len(SubSeq(s, n + 1, Len(s)))
           = IF n + 1 <= Len(s) THEN Len(s) - (n + 1) + 1 ELSE 0
      /\ \A m \in 1 .. Len(s) - (n + 1) + 1 : SubSeq(s, n + 1, Len(s))[m] = s[n + 1 + m - 1]
  BY <1>1, <1>2, SubSeqProperties
<1> QED BY <1>1, <1>3 DEF From

LEMMA BeginningOfSequence ==
  ASSUME NEW s \in Seq(Char), NEW n \in 0 .. Len(s)
  PROVE  /\ SubSeq(s, 1, n) \in Seq(Char) /\ Len(SubSeq(s, 1, n)) = n
         /\ \A m \in 1 .. n : SubSeq(s, 1, n)[m] = s[m]
<1>1. Len(s) \in Nat /\ n \in Int
  OBVIOUS
<1>2. \A m \in 1 .. n : s[m] \in Char
  OBVIOUS
<1>3. /\ SubSeq(s, 1, n) \in Seq(Char)
      /\ Len(SubSeq(s, 1, n)) = IF 1 <= n THEN n - 1 + 1 ELSE 0
      /\ \A m \in 1 .. n - 1 + 1 : SubSeq(s, 1, n)[m] = s[1 + m - 1]
  BY <1>1, <1>2, SubSeqProperties
<1> QED BY <1>1, <1>3

LEMMA PrefixByPosition ==
  ASSUME NEW p \in Seq(Char), NEW s \in Seq(Char)
  PROVE  IsPrefix(p, s) <=>
           Len(p) <= Len(s) /\ \A m \in 1 .. Len(p) : p[m] = s[m]
<1>1. Len(p) \in Nat /\ Len(s) \in Nat /\ SubSeq(p, 1, Len(p)) = p
  OBVIOUS
<1> SUFFICES ASSUME Len(p) <= Len(s)
             PROVE  p = SubSeq(s, 1, Len(p)) <=> \A m \in 1 .. Len(p) : p[m] = s[m]
  BY <1>1 DEF IsPrefix
<1> DEFINE t == SubSeq(s, 1, Len(p))
<1>2. /\ t \in Seq(Char) /\ Len(t) = Len(p)
      /\ \A m \in 1 .. Len(p) : t[m] = s[m]
  <2>1. Len(p) \in 0 .. Len(s)
    BY <1>1
  <2> QED BY <2>1, BeginningOfSequence
<1> HIDE DEF t
<1>3. ASSUME \A m \in 1 .. Len(p) : p[m] = s[m] PROVE p = t
  BY <1>2, <1>3, SeqEqual
<1>4. ASSUME p = t PROVE \A m \in 1 .. Len(p) : p[m] = s[m]
  BY <1>2, <1>4
<1> QED BY <1>3, <1>4 DEF t

\* A field leaves room for its terminator, and holds the beginning of what
\* was copied, all of it if that leaves room for one more character.
LEMMA FieldHoldsBeginning ==
  ASSUME NEW s \in Seq(Char), NEW size \in Nat \ {0}
  PROVE  /\ Field(s, size) \in Seq(Char) /\ Len(Field(s, size)) < size
         /\ Len(Field(s, size)) \in 0 .. Len(s)
         /\ \A m \in 1 .. Len(Field(s, size)) : Field(s, size)[m] = s[m]
         /\ Len(Field(s, size)) < size - 1 => Field(s, size) = s
         /\ \/ Field(s, size) = s
            \/ Len(Field(s, size)) < Len(s) /\ Len(Field(s, size)) = size - 1
<1> DEFINE n == IF Len(s) >= size THEN size - 1 ELSE Len(s)
<1>1. Len(s) \in Nat
  OBVIOUS
<1>2. /\ n \in 0 .. Len(s) /\ n < size /\ (n < size - 1 => n = Len(s))
      /\ n = Len(s) \/ (n < Len(s) /\ n = size - 1)
  BY <1>1
<1>3. Field(s, size) = SubSeq(s, 1, n)
  BY DEF Field
<1>4. SubSeq(s, 1, Len(s)) = s
  OBVIOUS
<1> HIDE DEF n
<1>5. /\ Field(s, size) \in Seq(Char) /\ Len(Field(s, size)) = n
      /\ \A m \in 1 .. n : Field(s, size)[m] = s[m]
  BY <1>2, <1>3, BeginningOfSequence
<1> QED BY <1>2, <1>3, <1>4, <1>5

\* A run of digits is a sequence of digits.
LEMMA RunOfDigits ==
  ASSUME NEW s \in Seq(Char)
  PROVE  Run(s, DigitChar) \in Seq(DigitChar)
<1> DEFINE r == Run(s, DigitChar)
<1>1. r \in Seq(Char) /\ \A m \in 1 .. Len(r) : r[m] \in DigitChar
  BY RunIsLongest
<1> HIDE DEF r
<1>2. Len(r) \in Nat /\ r = [m \in 1 .. Len(r) |-> r[m]]
  BY <1>1
<1> QED BY <1>1, <1>2 DEF r

\* sscanf's width of three bounds the number, also behind a sign.
LEMMA ScannedBounds ==
  ASSUME NEW s \in Seq(Char)
  PROVE  Scanned(s) \in -99 .. 999
<1> DEFINE text == From(s, Len(Run(s, Blank)))
           width == IF Len(text) > 3 THEN 3 ELSE Len(text)
           three == SubSeq(text, 1, width)
           signed == three # <<>> /\ three[1] \in {"-", "+"}
           rest == IF signed THEN Tail(three) ELSE three
           number == Number(Run(rest, DigitChar))
<1>1. Scanned(s) = IF signed /\ three[1] = "-" THEN -number ELSE number
  BY DEF Scanned
<1>2. text \in Seq(Char)
  <2>1. Len(Run(s, Blank)) \in 0 .. Len(s)
    BY RunIsLongest
  <2> QED BY <2>1, RestOfSequence
<1> HIDE DEF text
<1>3. three \in Seq(Char) /\ Len(three) \in 0 .. 3
  <2>1. PICK l \in Nat : Len(text) = l
    BY <1>2
  <2>2. width \in 0 .. Len(text) /\ width \in 0 .. 3
    <3>1. width = IF l > 3 THEN 3 ELSE l
      BY <2>1
    <3> HIDE DEF width
    <3> QED BY <2>1, <3>1
  <2> HIDE DEF width
  <2> QED BY <1>2, <2>2, BeginningOfSequence
<1> HIDE DEF three
<1>4. rest \in Seq(Char) /\ Len(rest) \in 0 .. 3 /\ (signed => Len(rest) \in 0 .. 2)
  <2>1. CASE signed
    <3>1. Tail(three) \in Seq(Char) /\ Len(Tail(three)) = Len(three) - 1
          /\ Len(three) # 0
      BY <1>3, <2>1, HeadTailProperties, EmptySeq
    <3> QED BY <1>3, <2>1, <3>1
  <2>2. CASE ~signed
    BY <1>3, <2>2
  <2> QED BY <2>1, <2>2
<1> HIDE DEF signed, rest
<1> DEFINE digits == Run(rest, DigitChar)
<1>5. /\ digits \in Seq(DigitChar) /\ Len(digits) <= 3
      /\ signed => Len(digits) <= 2
  <2>1. digits \in Seq(DigitChar) /\ Len(digits) \in 0 .. Len(rest)
    BY <1>4, RunOfDigits, RunIsLongest
  <2> HIDE DEF digits
  <2>2. PICK l \in Nat, k \in Nat : Len(digits) = l /\ Len(rest) = k
    BY <1>4, <2>1
  <2> QED BY <1>4, <2>1, <2>2
<1>6. number = Number(digits)
  OBVIOUS
<1> HIDE DEF digits, number
<1>7. number \in 0 .. 999 /\ (signed => number <= 99)
  <2>1. Number(digits) \in 0 .. 999 /\ (Len(digits) <= 2 => Number(digits) <= 99)
    BY <1>5, NumberBounds, ZenonT(30)
  <2> QED BY <1>5, <1>6, <2>1, Zenon
<1> QED BY <1>1, <1>7

\* Three digits are read as the number they say, whatever comes after them.
LEMMA ScannedDigits ==
  ASSUME NEW s \in Seq(Char), Len(s) >= 3,
         \A m \in 1 .. 3 : s[m] \in DigitChar
  PROVE  Scanned(s) = 100 * Digit[s[1]] + 10 * Digit[s[2]] + Digit[s[3]]
<1>1. Len(s) \in Nat
  OBVIOUS
<1>2. Len(Run(s, Blank)) = 0
  <2>1. /\ Len(Run(s, Blank)) \in 0 .. Len(s)
        /\ \A m \in 1 .. Len(Run(s, Blank)) : s[m] \in Blank
    BY RunIsLongest
  <2>2. s[1] \notin Blank
    BY DigitIsNumber
  <2> QED BY <1>1, <2>1, <2>2
<1>3. From(s, 0) = s
  BY DEF From
<1> DEFINE three == SubSeq(s, 1, 3)
           digits == Run(three, DigitChar)
<1>4. /\ three \in Seq(Char) /\ Len(three) = 3
      /\ \A m \in 1 .. 3 : three[m] = s[m]
  BY <1>1, BeginningOfSequence
<1> HIDE DEF three
<1>5. three[1] \notin {"+", "-"}
  BY <1>4, DigitIsNumber
<1>6. Scanned(s) = Number(digits)
  <2>1. (IF Len(s) > 3 THEN 3 ELSE Len(s)) = 3
    <3>1. PICK l \in Nat : Len(s) = l
      BY <1>1
    <3>2. l >= 3
      BY <3>1
    <3> QED BY <3>1, <3>2
  <2> QED BY <1>2, <1>3, <1>5, <2>1 DEF Scanned, three
<1>7. digits \in Seq(DigitChar)
  BY <1>4, RunOfDigits
<1>8. Len(digits) = 3
  <2>1. /\ Len(digits) \in 0 .. Len(three)
        /\ Len(digits) < Len(three) => three[Len(digits) + 1] \notin DigitChar
    BY <1>4, RunIsLongest
  <2> HIDE DEF digits
  <2>2. PICK l \in 0 .. 3 : Len(digits) = l
    BY <1>4, <2>1
  <2>3. l < 3 => three[l + 1] \notin DigitChar
    BY <1>4, <2>1, <2>2
  <2>4. l < 3 => l + 1 \in 1 .. 3
    OBVIOUS
  <2> QED BY <1>4, <2>2, <2>3, <2>4
<1>9. digits[1] = s[1] /\ digits[2] = s[2] /\ digits[3] = s[3]
  <2>1. \A m \in 1 .. Len(digits) : digits[m] = three[m]
    BY <1>4, RunIsLongest
  <2> HIDE DEF digits
  <2> QED BY <1>4, <1>8, <2>1
<1> HIDE DEF digits
<1>10. Scanned(s) = 10 * (10 * Digit[s[1]] + Digit[s[2]]) + Digit[s[3]]
  <2>1. Len(digits) <= 3 /\ Len(digits) # 0 /\ Len(digits) # 1 /\ Len(digits) # 2
    BY <1>8
  <2>2. Number(digits) = 10 * (10 * Digit[digits[1]] + Digit[digits[2]]) + Digit[digits[3]]
    BY <1>7, <2>1, NumberOfThree
  <2> QED BY <1>6, <1>9, <2>2
<1>11. PICK a \in 0 .. 9, b \in 0 .. 9, c \in 0 .. 9 :
          Digit[s[1]] = a /\ Digit[s[2]] = b /\ Digit[s[3]] = c
  <2>1. \A m \in 1 .. 3 : Digit[s[m]] \in 0 .. 9
    BY DigitIsNumber
  <2>2. Digit[s[1]] \in 0 .. 9 /\ Digit[s[2]] \in 0 .. 9 /\ Digit[s[3]] \in 0 .. 9
    BY <2>1
  <2> QED BY <2>2, Zenon
<1>12. 10 * (10 * a + b) + c = 100 * a + 10 * b + c
  OBVIOUS
<1>13. Scanned(s) = 10 * (10 * a + b) + c
  BY <1>10, <1>11
<1>14. 100 * Digit[s[1]] + 10 * Digit[s[2]] + Digit[s[3]] = 100 * a + 10 * b + c
  BY <1>11
<1> QED BY <1>12, <1>13, <1>14

\* Tuples of characters are sequences of them.
LEMMA Tuples ==
  ASSUME NEW a \in Char, NEW b \in Char, NEW c \in Char, NEW d \in Char
  PROVE  /\ <<a>> \in Seq(Char) /\ Len(<<a>>) = 1
         /\ <<a, b>> \in Seq(Char) /\ Len(<<a, b>>) = 2
         /\ <<a, b, c, d>> \in Seq(Char) /\ Len(<<a, b, c, d>>) = 4
OBVIOUS

\* The beginnings that classify_line looks for.
LEMMA HeadsAreSequences ==
  /\ W \in Seq(Char) /\ Len(W) = 2 /\ W[1] = "W"
  /\ R \in Seq(Char) /\ Len(R) = 2 /\ R[1] = "R"
  /\ NG \in Seq(Char) /\ Len(NG) = 4 /\ NG[1] = "N"
  /\ <<",">> \in Seq(Char)
<1>1. /\ "W" \in Char /\ "R" \in Char /\ "," \in Char
      /\ "N" \in Char /\ "G" \in Char /\ "T" \in Char
  BY CharAssumption
<1>2. W \in Seq(Char) /\ Len(W) = 2 /\ W[1] = "W"
  <2>1. W \in Seq(Char)
    BY <1>1, Tuples, Zenon DEF W
  <2>2. Len(W) = 2 /\ W[1] = "W"
    BY DEF W
  <2> QED BY <2>1, <2>2
<1>3. R \in Seq(Char) /\ Len(R) = 2 /\ R[1] = "R"
  <2>1. R \in Seq(Char)
    BY <1>1, Tuples, Zenon DEF R
  <2>2. Len(R) = 2 /\ R[1] = "R"
    BY DEF R
  <2> QED BY <2>1, <2>2
<1>4. NG \in Seq(Char) /\ Len(NG) = 4 /\ NG[1] = "N"
  <2>1. NG \in Seq(Char)
    BY <1>1, Tuples, Zenon DEF NG
  <2>2. Len(NG) = 4 /\ NG[1] = "N"
    BY DEF NG
  <2> QED BY <2>1, <2>2
<1>5. <<",">> \in Seq(Char)
  BY <1>1, Tuples, Zenon
<1> QED BY <1>2, <1>3, <1>4, <1>5

\* A line that begins with p is p and the rest.
LEMMA HeadAndRest ==
  ASSUME NEW p \in Seq(Char), NEW s \in Seq(Char), IsPrefix(p, s)
  PROVE  Len(p) \in 0 .. Len(s) /\ From(s, Len(p)) \in Seq(Char)
         /\ s = p \o From(s, Len(p))
<1>1. PICK k \in Nat, l \in Nat : Len(p) = k /\ Len(s) = l
  OBVIOUS
<1>2. k <= l /\ \A m \in 1 .. k : p[m] = s[m]
  BY <1>1, PrefixByPosition
<1>3. Len(p) \in 0 .. Len(s)
  BY <1>1, <1>2
<1> DEFINE r == From(s, Len(p))
<1>4. /\ r \in Seq(Char) /\ Len(r) = l - k
      /\ \A m \in 1 .. l - k : r[m] = s[k + m]
  BY <1>1, <1>3, RestOfSequence
<1> HIDE DEF r
<1>5. /\ p \o r \in Seq(Char) /\ Len(p \o r) = k + (l - k)
      /\ \A m \in 1 .. k + (l - k) : (p \o r)[m] = IF m <= k THEN p[m] ELSE r[m - k]
  <2> USE <1>1, <1>4
  <2>1. p \o r \in Seq(Char) /\ Len(p \o r) = k + (l - k)
    BY ConcatProperties
  <2>2. \A m \in 1 .. k + (l - k) : (p \o r)[m] = IF m <= k THEN p[m] ELSE r[m - k]
    BY ConcatProperties
  <2> QED BY <2>1, <2>2
<1>6. ASSUME NEW m \in 1 .. l PROVE s[m] = (p \o r)[m]
  <2>1. CASE m <= k
    BY <1>2, <1>5, <2>1
  <2>2. CASE m > k
    <3>1. m - k \in 1 .. l - k /\ k + (m - k) = m
      BY <2>2
    <3>2. r[m - k] = s[m]
      BY <1>4, <3>1
    <3> QED BY <1>2, <1>5, <2>2, <3>2
  <2>3. m <= k \/ m > k
    OBVIOUS
  <2> QED BY <2>1, <2>2, <2>3
<1>7. s = p \o r
  BY <1>1, <1>2, <1>5, <1>6, SeqEqual
<1> QED BY <1>3, <1>4, <1>7 DEF r

\* The kind of a frame is that of the beginning of its line.
LEMMA ClassifiedByHead ==
  ASSUME NEW s \in Seq(Char)
  PROVE  /\ classify_line(s).tag \in Tags
         /\ classify_line(s).tag = "write_request" <=> IsPrefix(W, s)
         /\ classify_line(s).tag = "read_request" <=> IsPrefix(R, s)
         /\ classify_line(s).tag = "ng_reply" <=> IsPrefix(NG, s)
<1>1. ASSUME NEW p \in Seq(Char), Len(p) # 0, IsPrefix(p, s) PROVE s[1] = p[1]
  <2>1. \A m \in 1 .. Len(p) : p[m] = s[m]
    BY <1>1, PrefixByPosition
  <2>2. PICK l \in Nat : Len(p) = l
    BY <1>1
  <2> QED BY <1>1, <2>1, <2>2
<1>2. IsPrefix(W, s) => s[1] = "W"
  <2>1. W \in Seq(Char)
    BY HeadsAreSequences
  <2>2. Len(W) # 0
    <3>1. Len(W) = 2
      BY HeadsAreSequences
    <3> QED BY <3>1
  <2>3. W[1] = "W"
    BY HeadsAreSequences
  <2> QED BY <1>1, <2>1, <2>2, <2>3
<1>3. IsPrefix(R, s) => s[1] = "R"
  <2>1. R \in Seq(Char)
    BY HeadsAreSequences
  <2>2. Len(R) # 0
    <3>1. Len(R) = 2
      BY HeadsAreSequences
    <3> QED BY <3>1
  <2>3. R[1] = "R"
    BY HeadsAreSequences
  <2> QED BY <1>1, <2>1, <2>2, <2>3
<1>4. IsPrefix(NG, s) => s[1] = "N"
  <2>1. NG \in Seq(Char)
    BY HeadsAreSequences
  <2>2. Len(NG) # 0
    <3>1. Len(NG) = 4
      BY HeadsAreSequences
    <3> QED BY <3>1
  <2>3. NG[1] = "N"
    BY HeadsAreSequences
  <2> QED BY <1>1, <2>1, <2>2, <2>3
<1> QED BY <1>2, <1>3, <1>4 DEF classify_line, Request, Tags

\* The fields of a request.
LEMMA RequestFields ==
  ASSUME NEW s \in Seq(Char), NEW tag
  PROVE  LET f == Request(tag, s)
         IN /\ f.command \in Seq(Char) /\ Len(f.command) < CommandSize
            /\ f.args \in Seq(Char) /\ Len(f.args) < ArgsSize
            /\ "," \notin Range(f.command)
            /\ \/ s = f.command /\ f.args = <<>>
               \/ s = (f.command \o <<",">>) \o f.args
               \/ /\ Len(f.command) = CommandSize - 1 \/ Len(f.args) = ArgsSize - 1
                  /\ Len(f.command) + (IF f.args = <<>> THEN 0 ELSE 1 + Len(f.args)) < Len(s)
<1> DEFINE f == Request(tag, s)
           k == Comma(s)
           name == IF k = 0 THEN s ELSE SubSeq(s, 1, k - 1)
<1>1. f.command = Field(name, CommandSize)
  BY DEF Request
<1>2. f.args = IF k = 0 THEN <<>> ELSE Field(From(s, k), ArgsSize)
  BY DEF Request, Args
<1> HIDE DEF f
<1>3. /\ k \in 0 .. Len(s) /\ (k # 0 => s[k] = ",")
      /\ \A m \in 1 .. Len(s) : (k = 0 \/ m < k) => s[m] # ","
  BY CommaIsFirst
<1> HIDE DEF k
<1>4. PICK l \in Nat : Len(s) = l /\ k \in 0 .. l
  <2>1. PICK l \in Nat : Len(s) = l
    OBVIOUS
  <2>2. k \in 0 .. l
    BY <1>3, <2>1
  <2> QED BY <2>1, <2>2
<1>5. CommandSize \in Nat \ {0} /\ ArgsSize \in Nat \ {0}
  BY SizeAssumption
<1>6. /\ name \in Seq(Char) /\ Len(name) = IF k = 0 THEN l ELSE k - 1
      /\ \A m \in 1 .. Len(name) : name[m] = s[m] /\ s[m] # ","
  <2>1. CASE k = 0
    BY <1>3, <1>4, <2>1
  <2>2. CASE k # 0
    <3>1. k - 1 \in 0 .. l /\ k - 1 \in 0 .. Len(s)
      <4>1. k - 1 \in 0 .. l
        BY <1>4, <2>2
      <4> QED BY <1>4, <4>1
    <3>2. /\ name \in Seq(Char) /\ Len(name) = k - 1
          /\ \A m \in 1 .. k - 1 : name[m] = s[m]
      BY <2>2, <3>1, BeginningOfSequence
    <3> HIDE DEF name
    <3>3. \A m \in 1 .. k - 1 : m \in 1 .. Len(s) /\ m < k
      <4>1. \A m \in 1 .. k - 1 : m \in 1 .. l /\ m < k
        BY <1>4, <2>2
      <4> QED BY <1>4, <4>1
    <3> QED BY <1>3, <2>2, <3>2, <3>3
  <2> QED BY <2>1, <2>2
<1> HIDE DEF name
<1>7. /\ f.command \in Seq(Char) /\ Len(f.command) < CommandSize
      /\ Len(f.command) \in 0 .. Len(name)
      /\ \A m \in 1 .. Len(f.command) : f.command[m] = name[m]
      /\ \/ f.command = name
         \/ Len(f.command) < Len(name) /\ Len(f.command) = CommandSize - 1
  <2> DEFINE g == Field(name, CommandSize)
  <2>1. /\ g \in Seq(Char) /\ Len(g) < CommandSize
        /\ Len(g) \in 0 .. Len(name)
        /\ \A m \in 1 .. Len(g) : g[m] = name[m]
        /\ \/ g = name
           \/ Len(g) < Len(name) /\ Len(g) = CommandSize - 1
    BY <1>5, <1>6, FieldHoldsBeginning
  <2>2. f.command = g
    BY <1>1
  <2> HIDE DEF g
  <2> QED BY <2>1, <2>2
<1>8. k # 0 => From(s, k) \in Seq(Char) /\ Len(From(s, k)) = Len(s) - k
  BY <1>3, RestOfSequence
<1>9. /\ f.args \in Seq(Char) /\ Len(f.args) < ArgsSize
      /\ k # 0 => \/ f.args = From(s, k)
                  \/ Len(f.args) < Len(From(s, k)) /\ Len(f.args) = ArgsSize - 1
  <2>1. CASE k = 0
    BY <1>2, <1>5, <2>1, EmptySeq
  <2>2. CASE k # 0
    BY <1>2, <1>5, <1>8, <2>2, FieldHoldsBeginning
  <2> QED BY <2>1, <2>2
<1>10. "," \notin Range(f.command)
  <2>1. \A m \in 1 .. Len(f.command) : m \in 1 .. Len(name)
    <3>1. PICK b \in Nat : Len(name) = b
      <4>1. name \in Seq(Char)
        BY <1>6
      <4> QED BY <4>1
    <3>2. PICK a \in Nat : Len(f.command) = a /\ a \in 0 .. b
      BY <1>7, <3>1
    <3>3. \A m \in 1 .. a : m \in 1 .. b
      BY <3>2
    <3> QED BY <3>1, <3>2, <3>3
  <2>2. \A m \in 1 .. Len(f.command) : f.command[m] # ","
    BY <1>6, <1>7, <2>1
  <2>3. f.command \in Seq(Char)
    BY <1>7
  <2> QED BY <2>2, <2>3, RangeEquality
<1>11. ASSUME f.command = name, k # 0 => f.args = From(s, k)
       PROVE  \/ s = f.command /\ f.args = <<>>
              \/ s = (f.command \o <<",">>) \o f.args
  <2>1. CASE k = 0
    BY <1>2, <1>7, <1>11, <2>1 DEF name
  <2>2. CASE k # 0
    <3>1. k \in 1 .. Len(s) /\ k - 1 \in 0 .. Len(s)
      <4>1. k \in 1 .. l /\ k - 1 \in 0 .. l
        BY <1>4, <2>2
      <4> QED BY <1>4, <4>1
    <3>2. f.command = SubSeq(s, 1, k - 1) /\ f.args = SubSeq(s, k + 1, Len(s))
      BY <1>7, <1>9, <1>11, <2>2 DEF name, From
    <3>3. SubSeq(s, 1, k) = SubSeq(s, 1, k - 1) \o <<s[k]>>
      BY <1>4, <3>1, SubSeqRecursiveSecond
    <3>4. SubSeq(s, 1, k) \o SubSeq(s, k + 1, Len(s)) = s
      <4>1. /\ 1 \in 1 .. Len(s) + 1 /\ k \in 1 - 1 .. Len(s)
            /\ Len(s) \in k .. Len(s)
        BY <1>4, <3>1
      <4>2. SubSeq(s, 1, k) \o SubSeq(s, k + 1, Len(s)) = SubSeq(s, 1, Len(s))
        BY <4>1, ConcatAdjacentSubSeq
      <4> QED BY <4>2, SubSeqFull
    <3> QED BY <1>3, <2>2, <3>2, <3>3, <3>4
  <2> QED BY <2>1, <2>2
<1>12. ASSUME f.command # name \/ (k # 0 /\ f.args # From(s, k))
       PROVE  /\ Len(f.command) = CommandSize - 1 \/ Len(f.args) = ArgsSize - 1
              /\ Len(f.command) + (IF f.args = <<>> THEN 0 ELSE 1 + Len(f.args)) < Len(s)
  <2>1. PICK a \in Nat, b \in Nat : Len(f.command) = a /\ Len(f.args) = b
    BY <1>7, <1>9
  <2>0. name \in Seq(Char) /\ Len(name) = IF k = 0 THEN l ELSE k - 1
    BY <1>6, Zenon
  <2>2. a <= Len(name) /\ (f.command # name => a < Len(name) /\ a = CommandSize - 1)
    <3>1. PICK c \in Nat : Len(name) = c
      BY <2>0
    <3>2. a \in 0 .. c
      BY <1>7, <2>1, <3>1
    <3>3. f.command # name => a < c /\ a = CommandSize - 1
      BY <1>7, <2>1, <3>1
    <3> QED BY <3>1, <3>2, <3>3
  <2>3. k = 0 => f.args = <<>>
    BY <1>2
  <2>4. k # 0 => b <= l - k /\ (f.args # From(s, k) => b < l - k /\ b = ArgsSize - 1)
    BY <1>4, <1>8, <1>9, <2>1
  <2>5. CASE k = 0
    <3>1. a < l /\ a = CommandSize - 1
      BY <1>12, <2>0, <2>2, <2>5
    <3> QED BY <1>4, <2>1, <2>3, <2>5, <3>1
  <2>6. CASE k # 0
    <3>0. Len(name) = k - 1 /\ k \in 1 .. l
      BY <1>4, <2>0, <2>6
    <3>1. /\ k \in 1 .. l /\ a <= k - 1 /\ b <= l - k
          /\ (a < k - 1 /\ a = CommandSize - 1) \/ (b < l - k /\ b = ArgsSize - 1)
      <4>1. CASE f.command # name
        BY <2>2, <2>4, <2>6, <3>0, <4>1
      <4>2. CASE f.args # From(s, k)
        BY <2>2, <2>4, <2>6, <3>0, <4>2
      <4> QED BY <1>12, <4>1, <4>2
    <3>2. a + 1 + b < l /\ a < l
      BY <3>1
    <3> QED BY <1>4, <2>1, <3>1, <3>2
  <2> QED BY <2>5, <2>6
<1>13. /\ f.command \in Seq(Char) /\ Len(f.command) < CommandSize
       /\ f.args \in Seq(Char) /\ Len(f.args) < ArgsSize
  BY <1>7, <1>9
<1>14. \/ s = f.command /\ f.args = <<>>
       \/ s = (f.command \o <<",">>) \o f.args
       \/ /\ Len(f.command) = CommandSize - 1 \/ Len(f.args) = ArgsSize - 1
          /\ Len(f.command) + (IF f.args = <<>> THEN 0 ELSE 1 + Len(f.args)) < Len(s)
  BY <1>11, <1>12, Zenon
<1> QED BY <1>10, <1>13, <1>14 DEF f

\* What the frame of a line holds.
LEMMA FrameOfLine ==
  ASSUME NEW s \in Seq(Char)
  PROVE  LET f == classify_line(s)
         IN /\ f.tag = "write_request" =>
                 /\ f = Request("write_request", From(s, 2)) /\ From(s, 2) \in Seq(Char)
                 /\ s = W \o From(s, 2)
            /\ f.tag = "read_request" =>
                 /\ f = Request("read_request", From(s, 2)) /\ From(s, 2) \in Seq(Char)
                 /\ s = R \o From(s, 2)
            /\ f.tag = "ng_reply" =>
                 /\ f.error_code = Scanned(From(s, 4)) /\ From(s, 4) \in Seq(Char)
            /\ f.tag = "ok_reply" => f.payload = Field(s, PayloadSize)
<1> DEFINE f == classify_line(s)
<1>1. CASE f.tag = "write_request"
  <2>1. IsPrefix(W, s)
    BY <1>1, ClassifiedByHead
  <2>2. f = Request("write_request", From(s, 2))
    BY <2>1 DEF classify_line
  <2>3. Len(W) = 2 /\ W \in Seq(Char)
    BY HeadsAreSequences
  <2> QED BY <1>1, <2>1, <2>2, <2>3, HeadAndRest
<1>2. CASE f.tag = "read_request"
  <2>1. IsPrefix(R, s) /\ ~IsPrefix(W, s)
    BY <1>2, ClassifiedByHead
  <2>2. f = Request("read_request", From(s, 2))
    BY <2>1 DEF classify_line
  <2>3. Len(R) = 2 /\ R \in Seq(Char)
    BY HeadsAreSequences
  <2> QED BY <1>2, <2>1, <2>2, <2>3, HeadAndRest
<1>3. CASE f.tag = "ng_reply"
  <2>1. IsPrefix(NG, s) /\ ~IsPrefix(W, s) /\ ~IsPrefix(R, s)
    BY <1>3, ClassifiedByHead
  <2>2. f.error_code = Scanned(From(s, 4))
    BY <2>1 DEF classify_line
  <2>3. Len(NG) = 4 /\ NG \in Seq(Char)
    BY HeadsAreSequences
  <2> QED BY <1>3, <2>1, <2>2, <2>3, HeadAndRest
<1>4. CASE f.tag = "ok_reply"
  <2>1. ~IsPrefix(NG, s) /\ ~IsPrefix(W, s) /\ ~IsPrefix(R, s)
    BY <1>4, ClassifiedByHead
  <2>2. f.payload = Field(s, PayloadSize)
    BY <2>1 DEF classify_line
  <2> QED BY <1>4, <2>2
<1>5. f.tag \in Tags
  BY ClassifiedByHead
<1> HIDE DEF f
<1> QED BY <1>1, <1>2, <1>3, <1>4, <1>5 DEF Tags, f

LEMMA Associative ==
  ASSUME NEW x \in Seq(Char), NEW y \in Seq(Char), NEW z \in Seq(Char)
  PROVE  (x \o y) \o z = x \o (y \o z)
BY ConcatAssociative

\* Two parts and what separates them can be put together again.
LEMMA PartsTogether ==
  ASSUME NEW p \in Seq(Char), NEW s \in Seq(Char), NEW a \in Seq(Char),
         NEW b \in Seq(Char), NEW sep \in Seq(Char),
         (s = a /\ b = <<>>) \/ s = (a \o sep) \o b
  PROVE  LET written == p \o a \o (IF b = <<>> THEN <<>> ELSE sep \o b)
         IN p \o s \in {written, written \o sep}
<1>1. p \o a \in Seq(Char) /\ a \o sep \in Seq(Char) /\ sep \o b \in Seq(Char)
  BY ConcatProperties
<1>2. (p \o a) \o <<>> = p \o a
  BY <1>1, ConcatEmptySeq
<1>3. CASE s = a /\ b = <<>>
  BY <1>2, <1>3
<1>4. CASE s = (a \o sep) \o b /\ b = <<>>
  <2>1. s = a \o sep
    BY <1>1, <1>4, ConcatEmptySeq
  <2>2. (p \o a) \o sep = p \o (a \o sep)
    BY Associative
  <2> QED BY <1>2, <1>4, <2>1, <2>2
<1>5. CASE s = (a \o sep) \o b /\ b # <<>>
  <2>1. (a \o sep) \o b = a \o (sep \o b)
    BY Associative
  <2>2. (p \o a) \o (sep \o b) = p \o (a \o (sep \o b))
    <3>1. \A t \in Seq(Char) : (p \o a) \o t = p \o (a \o t)
      BY Associative
    <3> QED BY <1>1, <3>1
  <2>3. p \o s = (p \o a) \o (sep \o b)
    BY <1>5, <2>1, <2>2
  <2>4. (IF b = <<>> THEN <<>> ELSE sep \o b) = sep \o b
    BY <1>5
  <2> QED BY <2>3, <2>4, Zenon
<1> QED BY <1>3, <1>4, <1>5

------------------------------------------------------------------------------
\* A frame is what classify_line makes of the line, and shown is what
\* Frame_describe makes of the frame.
FrameInv ==
  /\ line \in Line
  /\ frame = Nothing \/ frame = classify_line(line)
  /\ shown = Nothing \/
       /\ frame = classify_line(line)
       /\ shown = [tag |-> frame.tag,
                   what |-> IF frame.tag = "ng_reply" THEN ErrorName(frame.error_code)
                            ELSE frame]

LEMMA FrameInvariance == FrameSpec => []FrameInv
<1>1. FrameInit => FrameInv
  BY DEF FrameInit, FrameInv
<1>2. FrameInv /\ [FrameNext]_frameVars => FrameInv'
  <2> SUFFICES ASSUME FrameInv, [FrameNext]_frameVars PROVE FrameInv'
    OBVIOUS
  <2>1. CASE Classify
    BY <2>1 DEF Classify, FrameInv
  <2>2. CASE Describe
    BY <2>2 DEF Describe, FrameInv
  <2>3. CASE UNCHANGED frameVars
    BY <2>3 DEF frameVars, FrameInv
  <2> QED BY <2>1, <2>2, <2>3 DEF FrameNext
<1> QED BY <1>1, <1>2, PTL DEF FrameSpec

\* Lines of any characters and any length are put into the fields without
\* running over them.
THEOREM FramesFit == FrameSpec => []FrameTypeOK
<1>1. FrameInv => FrameTypeOK
  <2> SUFFICES ASSUME FrameInv PROVE FrameTypeOK
    OBVIOUS
  <2> DEFINE f == classify_line(line)
  <2>1. line \in Seq(Char) /\ line \in Line
    BY LineAssumption DEF FrameInv
  <2>2. f.tag \in Tags
    BY <2>1, ClassifiedByHead
  <2>3. IsRequest(f) => Len(f.command) < CommandSize /\ Len(f.args) < ArgsSize
    BY <2>1, FrameOfLine, RequestFields DEF IsRequest
  <2>4. f.tag = "ok_reply" => Len(f.payload) < PayloadSize
    BY <2>1, FrameOfLine, FieldHoldsBeginning, SizeAssumption
  <2>5. f.tag = "ng_reply" => f.error_code \in -99 .. 999
    <3> SUFFICES ASSUME f.tag = "ng_reply" PROVE f.error_code \in -99 .. 999
      OBVIOUS
    <3>1. f.error_code = Scanned(From(line, 4)) /\ From(line, 4) \in Seq(Char)
      BY <2>1, FrameOfLine
    <3> HIDE DEF f
    <3>2. Scanned(From(line, 4)) \in -99 .. 999
      BY <3>1, ScannedBounds, ZenonT(30)
    <3> QED BY <3>1, <3>2
  <2> HIDE DEF f
  <2>6. frame = Nothing \/ frame = f
    BY DEF FrameInv, f
  <2>7. frame.tag \in Tags \cup {"none"}
    BY <2>2, <2>6 DEF Nothing
  <2>8. shown.tag \in Tags \cup {"none"}
    BY <2>7 DEF FrameInv, Nothing
  <2>9. CASE frame = Nothing
    BY <2>1, <2>7, <2>8, <2>9 DEF FrameTypeOK, Nothing, IsRequest
  <2>10. CASE frame = f
    BY <2>1, <2>3, <2>4, <2>5, <2>7, <2>8, <2>10 DEF FrameTypeOK
  <2> QED BY <2>6, <2>9, <2>10
<1> QED BY <1>1, FrameInvariance, PTL

\* A concatenation, position by position.
LEMMA ConcatByPosition ==
  ASSUME NEW p \in Seq(Char), NEW r \in Seq(Char)
  PROVE  \E k, l \in Nat :
           /\ Len(p) = k /\ Len(r) = l
           /\ p \o r \in Seq(Char) /\ Len(p \o r) = k + l
           /\ \A m \in 1 .. k + l : (p \o r)[m] = IF m <= k THEN p[m] ELSE r[m - k]
BY ConcatProperties

\* The device's error numbers are read and named whatever follows them.
THEOREM ErrorNumbersAreRead == FrameSpec => []ErrorNumberIsRead
<1>1. FrameInv => ErrorNumberIsRead
  <2> SUFFICES ASSUME FrameInv, NEW a \in DigitChar, NEW b \in DigitChar,
                      NEW c \in DigitChar, IsPrefix(NG \o <<a, b, c>>, line),
                      shown # Nothing
               PROVE  LET n == 100 * Digit[a] + 10 * Digit[b] + Digit[c]
                      IN frame.error_code = n
                         /\ shown.what = IF n \in 1 .. 4 THEN n ELSE "unknown"
    BY DEF ErrorNumberIsRead
  <2>1. line \in Seq(Char)
    BY LineAssumption DEF FrameInv
  <2>2. <<a, b, c>> \in Seq(Char) /\ Len(<<a, b, c>>) = 3
    BY DigitIsNumber
  <2> DEFINE d == <<a, b, c>>
  <2>3. d[1] = a /\ d[2] = b /\ d[3] = c /\ d \in Seq(Char) /\ Len(d) = 3
    BY <2>2
  <2> HIDE DEF d
  <2>4. NG \in Seq(Char) /\ Len(NG) = 4
    BY HeadsAreSequences
  <2>5. /\ NG \o d \in Seq(Char) /\ Len(NG \o d) = 7
        /\ \A m \in 1 .. 7 : (NG \o d)[m] = IF m <= 4 THEN NG[m] ELSE d[m - 4]
    <3> DEFINE p == NG
    <3>1. p \in Seq(Char) /\ Len(p) = 4
      BY <2>4
    <3> HIDE DEF p
    <3>2. p \in Seq(Char) /\ d \in Seq(Char)
      BY <2>3, <3>1
    <3>3. PICK k, l \in Nat :
            /\ Len(p) = k /\ Len(d) = l
            /\ p \o d \in Seq(Char) /\ Len(p \o d) = k + l
            /\ \A m \in 1 .. k + l : (p \o d)[m] = IF m <= k THEN p[m] ELSE d[m - k]
      BY <3>2, ConcatByPosition
    <3>4. /\ p \o d \in Seq(Char) /\ Len(p \o d) = 7
          /\ \A m \in 1 .. 7 : (p \o d)[m] = IF m <= 4 THEN p[m] ELSE d[m - 4]
      <4>1. k = 4 /\ l = 3
        BY <2>3, <3>1, <3>3
      <4> QED BY <3>3, <4>1
    <3> QED BY <3>4 DEF p
  <2>6. 7 <= Len(line) /\ \A m \in 1 .. 7 : (NG \o d)[m] = line[m]
    <3> DEFINE p == NG \o d
    <3>1. IsPrefix(p, line)
      BY DEF d
    <3>2. p \in Seq(Char) /\ Len(p) = 7
      BY <2>5
    <3> HIDE DEF p
    <3>3. Len(p) <= Len(line) /\ \A m \in 1 .. Len(p) : p[m] = line[m]
      BY <2>1, <3>1, <3>2, PrefixByPosition
    <3> QED BY <3>2, <3>3 DEF p
  <2>7. IsPrefix(NG, line)
    <3>1. \A m \in 1 .. 4 : NG[m] = line[m]
      <4> TAKE m \in 1 .. 4
      <4>1. m \in 1 .. 7 /\ m <= 4
        OBVIOUS
      <4>2. (NG \o d)[m] = NG[m]
        BY <2>5, <4>1
      <4> QED BY <2>6, <4>1, <4>2
    <3>2. Len(NG) <= Len(line)
      BY <2>1, <2>4, <2>6
    <3> QED BY <2>1, <2>4, <3>1, <3>2, PrefixByPosition
  <2>8. line[5] = a /\ line[6] = b /\ line[7] = c
    <3>1. \A m \in 5 .. 7 : line[m] = d[m - 4]
      <4> TAKE m \in 5 .. 7
      <4>1. m \in 1 .. 7 /\ ~(m <= 4)
        OBVIOUS
      <4>2. (NG \o d)[m] = d[m - 4]
        BY <2>5, <4>1
      <4> QED BY <2>6, <4>1, <4>2
    <3>2. line[5] = d[1] /\ line[6] = d[2] /\ line[7] = d[3]
      BY <3>1
    <3> QED BY <2>3, <3>2
  <2> DEFINE rest == From(line, 4)
  <2>9. /\ rest \in Seq(Char) /\ Len(rest) >= 3
        /\ rest[1] = a /\ rest[2] = b /\ rest[3] = c
    <3>1. PICK l \in Nat : Len(line) = l /\ l >= 7
      BY <2>1, <2>6
    <3>2. 4 \in 0 .. Len(line)
      BY <3>1
    <3>3. /\ rest \in Seq(Char) /\ Len(rest) = l - 4
          /\ \A m \in 1 .. l - 4 : rest[m] = line[4 + m]
      BY <2>1, <3>1, <3>2, RestOfSequence
    <3> HIDE DEF rest
    <3>4. 1 \in 1 .. l - 4 /\ 2 \in 1 .. l - 4 /\ 3 \in 1 .. l - 4 /\ l - 4 >= 3
      BY <3>1
    <3>5. rest[1] = line[4 + 1] /\ rest[2] = line[4 + 2] /\ rest[3] = line[4 + 3]
      BY <3>3, <3>4
    <3> QED BY <2>8, <3>3, <3>4, <3>5
  <2>10. Scanned(rest) = 100 * Digit[a] + 10 * Digit[b] + Digit[c]
    <3> HIDE DEF rest
    <3>1. \A m \in 1 .. 3 : rest[m] \in DigitChar
      BY <2>9
    <3>2. Scanned(rest) = 100 * Digit[rest[1]] + 10 * Digit[rest[2]] + Digit[rest[3]]
      BY <2>9, <3>1, ScannedDigits
    <3> QED BY <2>9, <3>2
  <2>11. classify_line(line).tag = "ng_reply"
    BY <2>1, <2>7, ClassifiedByHead
  <2>12. frame = classify_line(line) /\ frame.error_code = Scanned(rest)
    BY <2>1, <2>11, FrameOfLine DEF FrameInv
  <2>13. shown.what = ErrorName(frame.error_code)
    BY <2>11, <2>12 DEF FrameInv
  <2> HIDE DEF rest
  <2> QED BY <2>10, <2>12, <2>13 DEF ErrorName
<1> QED BY <1>1, FrameInvariance, PTL

\* Every line is shown as what its first characters say, with its own
\* characters in the right field.
THEOREM LinesAreShown == FrameSpec => []LineIsShown
<1>1. FrameInv => LineIsShown
  <2> SUFFICES ASSUME FrameInv, shown # Nothing PROVE LineIsShown
    BY DEF LineIsShown
  <2> DEFINE f == classify_line(line)
  <2>1. line \in Seq(Char)
    BY LineAssumption DEF FrameInv
  <2>2. frame = f /\ shown.tag = f.tag
    BY DEF FrameInv
  <2>3. f.tag # "ng_reply" => shown.what = f
    BY <2>2 DEF FrameInv
  <2>4. /\ f.tag = "write_request" <=> IsPrefix(W, line)
        /\ f.tag = "read_request" <=> IsPrefix(R, line)
        /\ f.tag = "ng_reply" <=> IsPrefix(NG, line)
    BY <2>1, ClassifiedByHead
  <2>5. f.tag = "ok_reply" => IsPrefix(f.payload, line)
    <3> SUFFICES ASSUME f.tag = "ok_reply" PROVE IsPrefix(f.payload, line)
      OBVIOUS
    <3> DEFINE g == Field(line, PayloadSize)
    <3>1. f.payload = g
      BY <2>1, FrameOfLine
    <3>2. PayloadSize \in Nat \ {0}
      BY SizeAssumption
    <3>3. /\ g \in Seq(Char) /\ Len(g) \in 0 .. Len(line)
          /\ \A m \in 1 .. Len(g) : g[m] = line[m]
      BY <2>1, <3>2, FieldHoldsBeginning
    <3> HIDE DEF f, g
    <3>4. Len(g) <= Len(line)
      <4>1. PICK l \in Nat : Len(line) = l
        BY <2>1
      <4> QED BY <3>3, <4>1
    <3> QED BY <2>1, <3>1, <3>3, <3>4, PrefixByPosition
  <2>6. ASSUME NEW p \in Seq(Char), NEW tag, f = Request(tag, From(line, 2)),
               From(line, 2) \in Seq(Char), line = p \o From(line, 2),
               NEW written,
               written = p \o f.command \o
                         (IF f.args = <<>> THEN <<>> ELSE <<",">> \o f.args)
        PROVE  /\ "," \notin Range(f.command)
               /\ \/ line \in {written, written \o <<",">>}
                  \/ /\ Len(f.command) = CommandSize - 1 \/ Len(f.args) = ArgsSize - 1
                     /\ Len(line) > Len(written)
    <3> DEFINE s == From(line, 2)
               a == f.command
               b == f.args
               sep == <<",">>
    <3>1. /\ a \in Seq(Char) /\ b \in Seq(Char) /\ "," \notin Range(a)
          /\ \/ (s = a /\ b = <<>>) \/ s = (a \o sep) \o b
             \/ /\ Len(a) = CommandSize - 1 \/ Len(b) = ArgsSize - 1
                /\ Len(a) + (IF b = <<>> THEN 0 ELSE 1 + Len(b)) < Len(s)
      BY <2>6, RequestFields
    <3>2. sep \in Seq(Char) /\ Len(sep) = 1
      BY HeadsAreSequences
    <3>3. s \in Seq(Char) /\ line = p \o s
          /\ written = p \o a \o (IF b = <<>> THEN <<>> ELSE sep \o b)
      BY <2>6
    <3> HIDE DEF f, s, a, b, sep
    <3>4. ASSUME (s = a /\ b = <<>>) \/ s = (a \o sep) \o b
          PROVE  line \in {written, written \o sep}
      BY <3>1, <3>2, <3>3, <3>4, PartsTogether
    <3>5. ASSUME Len(a) + (IF b = <<>> THEN 0 ELSE 1 + Len(b)) < Len(s)
          PROVE  Len(written) < Len(line)
      <4>1. p \o a \in Seq(Char) /\ Len(p \o a) = Len(p) + Len(a)
            /\ Len(line) = Len(p) + Len(s)
        <5>1. p \o a \in Seq(Char) /\ Len(p \o a) = Len(p) + Len(a)
          BY <2>6, <3>1, ConcatProperties
        <5>2. Len(p \o s) = Len(p) + Len(s)
          BY <2>6, <3>3, ConcatProperties
        <5> QED BY <3>3, <5>1, <5>2, Zenon
      <4>0. Len(a) \in Nat /\ Len(b) \in Nat /\ Len(p) \in Nat /\ Len(s) \in Nat
        <5>1. \A t \in Seq(Char) : Len(t) \in Nat
          OBVIOUS
        <5> QED BY <2>6, <3>1, <3>3, <5>1, Zenon
      <4>2. CASE b = <<>>
        <5>1. written = p \o a
          BY <3>3, <4>1, <4>2, ConcatEmptySeq
        <5>2. Len(a) < Len(s)
          BY <3>5, <4>0, <4>2
        <5>3. Len(p) + Len(a) < Len(p) + Len(s)
          BY <4>0, <5>2
        <5>4. Len(written) < Len(line)
          BY <4>1, <5>1, <5>3, Zenon
        <5> QED BY <5>4
      <4>3. CASE b # <<>>
        <5>1. sep \o b \in Seq(Char) /\ Len(sep \o b) = 1 + Len(b)
          BY <3>1, <3>2, ConcatProperties
        <5>2. Len(written) = (Len(p) + Len(a)) + (1 + Len(b))
          <6>1. written = (p \o a) \o (sep \o b)
            BY <3>3, <4>3, Zenon
          <6>2. Len((p \o a) \o (sep \o b)) = Len(p \o a) + Len(sep \o b)
            BY <4>1, <5>1, ConcatProperties
          <6> QED BY <4>1, <5>1, <6>1, <6>2, Zenon
        <5>3. Len(written) < Len(line)
          BY <3>5, <4>0, <4>1, <4>3, <5>2
        <5> QED BY <5>3
      <4> QED BY <4>2, <4>3
    <3>6. Len(written) < Len(line) => Len(line) > Len(written)
      OBVIOUS
    <3>7. /\ "," \notin Range(a)
          /\ \/ line \in {written, written \o sep}
             \/ /\ Len(a) = CommandSize - 1 \/ Len(b) = ArgsSize - 1
                /\ Len(line) > Len(written)
      BY <3>1, <3>4, <3>5, <3>6, Zenon
    <3> QED BY <3>7, Zenon DEF a, b, sep
  <2>7. W \in Seq(Char) /\ R \in Seq(Char)
    BY HeadsAreSequences
  <2>8. IsRequest(f) =>
          /\ "," \notin Range(f.command)
          /\ \/ line \in {Written(f), Written(f) \o <<",">>}
             \/ /\ Len(f.command) = CommandSize - 1 \/ Len(f.args) = ArgsSize - 1
                /\ Len(line) > Len(Written(f))
    <3>1. CASE f.tag = "write_request"
      <4>1. f = Request("write_request", From(line, 2)) /\ From(line, 2) \in Seq(Char)
            /\ line = W \o From(line, 2)
        BY <2>1, <3>1, FrameOfLine
      <4>2. Written(f) = W \o f.command \o
                         (IF f.args = <<>> THEN <<>> ELSE <<",">> \o f.args)
        BY <3>1 DEF Written
      <4> HIDE DEF f
      <4> QED BY <2>6, <2>7, <4>1, <4>2
    <3>2. CASE f.tag = "read_request"
      <4>1. f = Request("read_request", From(line, 2)) /\ From(line, 2) \in Seq(Char)
            /\ line = R \o From(line, 2)
        BY <2>1, <3>2, FrameOfLine
      <4>2. Written(f) = R \o f.command \o
                         (IF f.args = <<>> THEN <<>> ELSE <<",">> \o f.args)
        BY <3>2 DEF Written
      <4> HIDE DEF f
      <4> QED BY <2>6, <2>7, <4>1, <4>2
    <3> HIDE DEF f
    <3> QED BY <3>1, <3>2 DEF IsRequest
  <2> HIDE DEF f
  <2> QED BY <2>2, <2>3, <2>4, <2>5, <2>8 DEF LineIsShown, IsRequest
<1> QED BY <1>1, FrameInvariance, PTL

==============================================================================
