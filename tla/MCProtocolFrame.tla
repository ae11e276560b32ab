---------------------------- MODULE MCProtocolFrame ----------------------------
(***************************************************************************)
(* Lines for the model checking runs of ProtocolFrame: every beginning     *)
(* that classify_line tells apart, and some that come close, with every    *)
(* tail of up to four characters.                                          *)
(***************************************************************************)
EXTENDS ProtocolFrame

Blanks == {" ", "\t"}

Chars == {"W", "R", "N", "G", "T", "O", "K", "a", ",", "+", "-"} \cup DigitChar \cup Blanks

Heads == {W, R, NG, <<"W">>, <<"N", "G", ",">>, <<"O", "K">>, <<>>}
Tails == UNION {[1 .. n -> {",", "a", "1", "-"}] : n \in 0 .. 4}
       \cup {<<"0", "0", d, e>> : d \in {"0", "1", "4"}, e \in {"1", "a"}}
       \cup {<<b, s, "1", d>> : b \in Blanks, s \in {" ", "+", "-"}, d \in {"2", "-"}}

Lines == {h \o t : h \in Heads, t \in Tails}

==============================================================================
