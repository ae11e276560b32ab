----------------------------- MODULE ProtocolFrame -----------------------------
(***************************************************************************)
(* classify_line and Frame_describe of src/examples/protocol_frame.h:      *)
(* a received line is classified by its first characters into a frame      *)
(* whose fields are char arrays of a fixed size, and the frame is matched  *)
(* to the handler of its variant.  Lines do not depend on one another.     *)
(***************************************************************************)
EXTENDS Integers, SequencesExt

CONSTANTS Char,        \* the characters
          Line,        \* the lines that may be received
          Blank,       \* the characters that isspace accepts
          CommandSize, \* sizeof(f.command)
          ArgsSize,    \* sizeof(f.args)
          PayloadSize  \* sizeof(f.payload)

Numerals == <<"0", "1", "2", "3", "4", "5", "6", "7", "8", "9">>
DigitChar == {Numerals[n + 1] : n \in 0 .. 9}

ASSUME CharAssumption ==
  {"W", "R", "N", "G", "T", ",", "+", "-"} \cup DigitChar \cup Blank \subseteq Char
ASSUME LineAssumption == Line \subseteq Seq(Char)
ASSUME BlankAssumption == Blank \cap (DigitChar \cup {"+", "-"}) = {}
ASSUME SizeAssumption == {CommandSize, ArgsSize, PayloadSize} \subseteq Nat \ {0}

VARIABLES line,    \* the line received
          frame,   \* what classify_line made of it
          shown    \* the handler Frame_describe called, and what it looked at

frameVars == <<line, frame, shown>>

Nothing == [tag |-> "none"]

FrameInit == line \in Line /\ frame = Nothing /\ shown = Nothing

\* memcpy of a string into a zeroed array of that size, cut to leave a NUL.
\* The fault forgets the room for it.
Field_Filled(s, size) == SubSeq(s, 1, IF Len(s) > size THEN size ELSE Len(s))

Field(s, size) == SubSeq(s, 1, IF Len(s) >= size THEN size - 1 ELSE Len(s))

\* Everything after the first n characters.
From(s, n) == SubSeq(s, n + 1, Len(s))

\* strchr(s, ','): the position of the first comma, 0 if there is none.  The
\* fault is strrchr.
Comma_Last(s) == SelectLastInSeq(s, LAMBDA c : c = ",")

Comma(s) == SelectInSeq(s, LAMBDA c : c = ",")

\* The arguments: everything behind the comma.  The fault copies from the comma
\* where it should from comma + 1.
Args_WithComma(rest, comma) == From(rest, comma - 1)

Args(rest, comma) == From(rest, comma)

\* A W or R request: the command up to the comma, the arguments behind it.
Request(tag, rest) ==
  LET comma == Comma(rest)
  IN [tag |-> tag,
      command |-> Field(IF comma = 0 THEN rest ELSE SubSeq(rest, 1, comma - 1),
                        CommandSize),
      args |-> IF comma = 0 THEN <<>> ELSE Field(Args(rest, comma), ArgsSize)]

Digit == [d \in DigitChar |-> CHOOSE n \in 0 .. 9 : Numerals[n + 1] = d]

\* The characters of s before the first one outside S.
Run(s, S) == LET n == SelectInSeq(s, LAMBDA c : c \notin S)
             IN IF n = 0 THEN s ELSE SubSeq(s, 1, n - 1)

Number(digits) ==
  LET value[n \in 0 .. Len(digits)] ==
        IF n = 0 THEN 0 ELSE 10 * value[n - 1] + Digit[digits[n]]
  IN value[Len(digits)]

\* sscanf(s, "%3d", &code) with code = 0: behind any blanks at most three
\* characters, the first of which may be a sign; without a digit nothing is
\* assigned.  The fault reads as many characters as there are.
Scanned_AnyWidth(s) == Number(Run(s, DigitChar))

Scanned(s) ==
  LET text   == From(s, Len(Run(s, Blank)))
      three  == SubSeq(text, 1, IF Len(text) > 3 THEN 3 ELSE Len(text))
      signed == three # <<>> /\ three[1] \in {"-", "+"}
      number == Number(Run(IF signed THEN Tail(three) ELSE three, DigitChar))
  IN IF signed /\ three[1] = "-" THEN -number ELSE number

W == <<"W", ",">>
R == <<"R", ",">>
NG == <<"N", "G", ",", "T">>

classify_line(s) ==
  IF IsPrefix(W, s) THEN Request("write_request", From(s, 2))
  ELSE IF IsPrefix(R, s) THEN Request("read_request", From(s, 2))
  ELSE IF IsPrefix(NG, s) THEN [tag |-> "ng_reply", error_code |-> Scanned(From(s, 4))]
  ELSE [tag |-> "ok_reply", payload |-> Field(s, PayloadSize)]

Classify ==
  /\ frame = Nothing
  /\ frame' = classify_line(line)
  /\ UNCHANGED <<line, shown>>

\* ng_error_name.
ErrorName(code) == IF code \in 1 .. 4 THEN code ELSE "unknown"

\* Frame_describe takes the case of the tag, whose handler prints the fields or
\* the name of the error.
Describe ==
  /\ frame # Nothing /\ shown = Nothing
  /\ shown' = [tag |-> frame.tag,
               what |-> IF frame.tag = "ng_reply" THEN ErrorName(frame.error_code)
                        ELSE frame]
  /\ UNCHANGED <<line, frame>>

FrameNext == Classify \/ Describe

FrameSpec == FrameInit /\ [][FrameNext]_frameVars

------------------------------------------------------------------------------
\* Properties.

Tags == {"write_request", "read_request", "ok_reply", "ng_reply"}
IsRequest(f) == f.tag \in {"write_request", "read_request"}

\* Every variable has its type: a field leaves room for its terminator, and an
\* error code has at most three characters.
FrameTypeOK ==
  /\ line \in Line
  /\ frame.tag \in Tags \cup {"none"} /\ shown.tag \in Tags \cup {"none"}
  /\ IsRequest(frame) => Len(frame.command) < CommandSize /\ Len(frame.args) < ArgsSize
  /\ frame.tag = "ok_reply" => Len(frame.payload) < PayloadSize
  /\ frame.tag = "ng_reply" => frame.error_code \in -99 .. 999

\* An error number of three digits is read as that number, whatever comes
\* after it, and is shown under its own name if it is a known one.
ErrorNumberIsRead ==
  \A d \in DigitChar \X DigitChar \X DigitChar :
    (IsPrefix(NG \o d, line) /\ shown # Nothing) =>
      LET n == 100 * Digit[d[1]] + 10 * Digit[d[2]] + Digit[d[3]]
      IN frame.error_code = n /\ shown.what = IF n \in 1 .. 4 THEN n ELSE "unknown"

\* What a request's fields were read from.
Written(f) == (IF f.tag = "write_request" THEN W ELSE R) \o f.command \o
              (IF f.args = <<>> THEN <<>> ELSE <<",">> \o f.args)

\* The handler that sees a line is decided by its first characters alone: a
\* malformed request is never shown as the other kind of request, and what is
\* none of the three is an OK reply, an NG without its number included.  What
\* the handler sees is the line: no character moves from a command to its
\* arguments or back, and a request can be written again from its fields,
\* except for a comma with nothing behind it, unless it is longer than its
\* fields and one of them is full.
LineIsShown ==
  shown # Nothing =>
    /\ shown.tag = "write_request" <=> IsPrefix(W, line)
    /\ shown.tag = "read_request" <=> IsPrefix(R, line)
    /\ shown.tag = "ng_reply" <=> IsPrefix(NG, line)
    /\ shown.tag = "ok_reply" => IsPrefix(shown.what.payload, line)
    /\ IsRequest(shown) =>
         LET f == shown.what
         IN /\ "," \notin Range(f.command)
            /\ \/ line \in {Written(f), Written(f) \o <<",">>}
               \/ /\ Len(f.command) = CommandSize - 1 \/ Len(f.args) = ArgsSize - 1
                  /\ Len(line) > Len(Written(f))

==============================================================================
