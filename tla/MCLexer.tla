------------------------------ MODULE MCLexer -------------------------------
(* Lines of up to four characters and a few longer than the array of six;  *)
(* integers from 10 on, and strtoll's from 100 on, are too large, doubles  *)
(* from 10000 on, and below a thousandth too small; no line of the REPL is *)
(* long enough for one of these, only a file is.                           *)
EXTENDS Lexer

MCLetters == {"a", "e", "f", "i", "l", "n", "o", "r", "s", "t", "u", "clear"}
MCDigits == {"0", "1", "9"}
MCDigitValue == [d \in MCDigits |-> IF d = "0" THEN 0 ELSE IF d = "1" THEN 1 ELSE 9]
MCOthers  == {" ", "_", ".", "+", "=", ">", ":", "\"", "\\", "'", "EOF", "HIGH", "^", "%"}

UpTo(S, n) == UNION {[1 .. k -> S] : k \in 0 .. n}

Long == {<<"1", "1", "1">>, <<"1", "1", "1", " ", "1", "1">>,
         <<"n", "o", "\"", "\\", "n", "a", "1", "_">>, <<"\\", "\\", "i", "n", "t", "1">>,
         <<"f", "a", "l", "s", "e", "9", "t", "r", "u", "e">>,
         <<"HIGH">>, <<>>, <<":", "clear">>, <<"1", "'", "1", "\"">>, <<"1", "1", "1", "a">>,
         <<"1", "^", "1">>, <<"1", "1", "1", "%", "1">>}

Words == {<<"t", "r", "u", "e">>, <<"f", "a", "l", "s", "e">>, <<"f", "o", "r">>,
          <<"1", " ", "t", "r", "u", "e">>, <<"1", "+", "f", "a", "s">>}

MCTyped ==
  <<Long,
    Words \cup UpTo({"\"", "\\", "n"}, 4) \cup UpTo({"'", "\\", "e", "EOF"}, 3)
          \cup UpTo({"1", "9", "."}, 3) \cup UpTo({"i", "f", "n", "1"}, 3)
          \cup UpTo({"=", ">", "+", "_"}, 3) \cup UpTo({"9", "_", "HIGH"}, 2)
          \cup {<<"i", "n", "t">>, <<"1", " ", "i", "n", "t">>}>>

(* The value of a literal with a dot is whole / 10^places.                 *)
MCOutOfRange ==
  {text \in UNION {[1 .. n -> MCDigits \cup {"."}] : n \in 6 .. 7} :
     \E dot \in 2 .. Len(text) :
       /\ Dots(text) = {dot}
       /\ LET whole  == Magnitude(SubSeq(text, 1, dot - 1) \o SubSeq(text, dot + 1, Len(text)))
              places == Len(text) - dot
          IN  whole >= 10000 * 10^places \/ (whole > 0 /\ whole * 1000 < 10^places)}

MCFiles ==
  UpTo({"1", "\"", "\\", "NL"}, 4) \cup UpTo({"1", "'", "EOF"}, 3) \cup UpTo({"HIGH", "="}, 2)
  \cup {<<"1", "1", "1", "1", "1", ".", " ", "1", " ">>, <<"0", ".", "0", "0", "0", "1", " ", "1", " ">>,
        <<"1", "1", "1", "1", ".", "1", " ", "1", " ">>, <<"1", "1", "1", " ", "1", "EOF">>}
=============================================================================
