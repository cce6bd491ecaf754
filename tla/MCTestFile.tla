----------------------------- MODULE MCTestFile ------------------------------
(* The repository's shortest test, test/test.haw, run as a file:           *)
(*   print "1234"                                                          *)
EXTENDS Lexer

TestLetters == {"p", "r", "i", "n", "t"}
TestDigitValue == [d \in {"1", "2", "3", "4"} |->
                     CASE d = "1" -> 1 [] d = "2" -> 2 [] d = "3" -> 3 [] d = "4" -> 4]
TestOthers == {" ", "\""}

NoLines == <<>>
TestFiles == {<<"p", "r", "i", "n", "t", " ", "\"", "1", "2", "3", "4", "\"", "NL">>}

(* The test is read to its end: no byte that nobody wrote is met, once the *)
(* terminator has been stored and lex has begun.  usage promises to run a  *)
(* file, and token.h names the token of its end by the terminator          *)
(* (main.c:25, 54-83; token.h:115; test/test.haw:1).                       *)
TestIsRead == ~repl /\ opened => status # "undefined"
=============================================================================
