----------------------------- MODULE MCStrings ------------------------------
(* Strings of two characters that are copies, products and concatenations  *)
(* of one another; a and b have the same length and the same hash, there   *)
(* are two objects for the characters of aa.                               *)
EXTENDS Strings

MCContent == [a |-> <<1>>, b |-> <<2>>, aa |-> <<1, 1>>, aa2 |-> <<1, 1>>, ab |-> <<1, 2>>]
MCHash    == [a |-> 5, b |-> 5, aa |-> 13, aa2 |-> 13, ab |-> 11]
MCKeys    == DOMAIN MCContent
=============================================================================
