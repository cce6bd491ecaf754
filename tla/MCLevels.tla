------------------------------ MODULE MCLevels -------------------------------
(* Parser over operands, || and &&, and the code that the levels of        *)
(* parser.h give them.                                                     *)
EXTENDS MCParser

LevelAlphabets == {Free(5, {"1", "OR", "AND"})}

LevelLanguage  == LanguagesOver(LevelAlphabets)

(* The code of an operator applied to two operands.                        *)
one          == G!Literal(Index["1"])
Of(op, a, b) == G!BinaryCode(op, a, b)

(* PREC_OR is a level of its own below PREC_AND (parser.h:29-30): what     *)
(* 1 || 1 && 1 applies last is the ||.                                     *)
OrBindsLooser ==
  status = "done" /\ read = <<"1", "OR", "1", "AND", "1", "EOF">> =>
    code = G!ScriptOf(G!ExprStat(Of("OR", one, Of("AND", one, one)), REPL), <<>>).code
=============================================================================
