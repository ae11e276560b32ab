------------------------------- MODULE Checksum -------------------------------
(***************************************************************************)
(* compute_checksum and format_checksum_hex of                             *)
(* src/examples/protocol_frame.h: the bytes of a line are added up in an   *)
(* unsigned int, which may wrap, and the remainder modulo 256 is written   *)
(* as two hexadecimal digits.                                              *)
(***************************************************************************)
EXTENDS Sums

CONSTANTS Byte,      \* the values of type char that occur in a line
          MaxLen,    \* bound: the longest line
          WordSize   \* 2^w for the w bits of an unsigned int

\* A char of 8 bits is signed or unsigned, as the compiler has it.
ASSUME ByteAssumption == Byte \subseteq -128 .. 127 \/ Byte \subseteq 0 .. 255
ASSUME LengthAssumption == MaxLen \in Nat
\* Every w of at least 8 bits makes 256 divide 2^w.
ASSUME WordAssumption == WordSize \in Nat /\ WordSize > 0 /\ WordSize % 256 = 0

VARIABLES len,   \* the length of the line
          data,  \* its bytes
          i,     \* the loop counter
          sum,   \* the unsigned int
          out    \* the digits written, none before the end

vars == <<len, data, i, sum, out>>

NoDigits == <<>>

Init ==
  /\ len \in 0 .. MaxLen
  /\ data \in [1 .. len -> Byte]
  /\ i = 0
  /\ sum = 0
  /\ out = NoDigits

\* The cast of a char to unsigned char.
Unsigned(c) == c % 256

\* sum += (unsigned char)data[i] in an unsigned int.  The fault is an
\* accumulator that saturates where it should wrap.
Plus_Saturating(s, c) ==
  IF s + Unsigned(c) >= WordSize THEN WordSize - 1 ELSE s + Unsigned(c)

Plus(s, c) == (s + Unsigned(c)) % WordSize

Add ==
  /\ out = NoDigits
  /\ i < len
  /\ sum' = Plus(sum, data[i + 1])
  /\ i' = i + 1
  /\ UNCHANGED <<len, data, out>>

\* The two digits of a checksum; the fault is a high digit that is not
\* shifted down.
Digits_Unshifted(c) == <<(c % 16), c % 16>>

Digits(c) == <<(c \div 16) % 16, c % 16>>

Format ==
  /\ out = NoDigits
  /\ i = len
  /\ out' = Digits(sum % 256)
  /\ UNCHANGED <<len, data, i, sum>>

Next == Add \/ Format

Spec == Init /\ [][Next]_vars

------------------------------------------------------------------------------
\* Properties.

Done == out # NoDigits

\* What the two digits say.
Value(d) == 16 * d[1] + d[2]

\* Every variable has its type; the digits are digits.
TypeOK ==
  /\ len \in 0 .. MaxLen
  /\ data \in [1 .. len -> Byte]
  /\ i \in 0 .. len
  /\ sum \in 0 .. WordSize - 1
  /\ Done => out \in (0 .. 15) \X (0 .. 15)

\* The codes of the bytes of a line, which a signed char does not have.
Codes(line) == [n \in DOMAIN line |-> Unsigned(line[n])]

\* The digits are the remainder of the true sum of the codes, however often
\* the accumulator has wrapped on the way and whether or not char is signed.
ChecksumIsSum == Done => Value(out) = SumTo(Codes(data), len) % 256

\* Any one byte received wrongly shows: no other line that differs in a
\* single byte has the same digits.
DetectsOneByte ==
  Done => \A j \in 1 .. len, b \in Byte :
            b # data[j] =>
              Value(out) # SumTo(Codes([data EXCEPT ![j] = b]), len) % 256

==============================================================================
