------------------------------ MODULE MCParser ------------------------------
(***************************************************************************)
(* Parser with alphabets that bring its parts together, and the language   *)
(* of Grammar over them, from the short phrases to the long ones.          *)
(***************************************************************************)
EXTENDS Parser, TLC

(* Alphabets that meet: operands and calls; operators of all levels;       *)
(* prefixes; statements; loops, with as many tokens as one or two need.    *)
Free(n, tokens) == [length |-> n, most |-> [t \in tokens |-> n]]
MCAlphabets ==
  {Free(5, {"x", "1", "+", "*", "-", "(", ")", "COMMA", "=", "INC", "void"}),
   Free(7, {"1", "OR", "AND", "NOTEQ", "<", "^", "/"}),
   Free(6, {"x", "!", "-", "DEC", "*", "EQ", "("}),
   Free(9, {"x", "(", "COMMA", ")"}),
   Free(6, {"x", "=", "SEMICOLON", "LBRACE", "RBRACE", "IF", "ELSE", "WHILE"}),
   Free(5, {"w", "1", "SEMICOLON", "PRINT", "RETURN", "BIND", "-"}),
   [length |-> 10, most |-> [x |-> 4] @@ [t \in {"FOR", "LBRACE", "RBRACE", "="} |-> 1]
                                     @@ [t \in {"SEMICOLON"} |-> 2]],
   [length |-> 10, most |-> [t \in {"FOR", "LBRACE", "RBRACE"} |-> 2] @@ [t \in {"SEMICOLON"} |-> 4]]}

MCIndex == [x |-> 1, w |-> 70, one |-> 2, void |-> 3] @@ [t \in {"1"} |-> 0]

-----------------------------------------------------------------------------
(* The smallest language over an alphabet.                                 *)

With(set, n, phrases) == set @@ (n :> phrases)

Longer(a, L, n) ==
  LET T == DOMAIN a.most
      M == [L EXCEPT !.exprs = With(@, n, G!Within(a, G!Exprs(T, L, n)))]
      N == [M EXCEPT !.args  = With(@, n, G!Within(a, G!ArgLists(T, M, n))),
                     !.stmts = With(@, n, G!Within(a, G!Stmts(T, M, n)))]
  IN  [N EXCEPT !.lists = With(@, n, G!Within(a, G!Lists(N, n)))]

(* From the shorter to the longer; a bound variable is evaluated once.     *)
Once(F(_), x) == CHOOSE y \in {F(z) : z \in {x}} : TRUE

LanguagesOver(alphabets) == [a \in alphabets |->
  FoldLeft(LAMBDA L, n : Once(LAMBDA M : Longer(a, M, n), L),
           [exprs |-> <<>>, args |-> <<>>, stmts |-> <<>>, lists |-> 0 :> {G!Nothing}],
           [n \in 1 .. a.length |-> n])]
MCLanguage == LanguagesOver(MCAlphabets)

(* What a source may begin with. *)
Viable == [a \in Alphabets |->
  UNION {{SubSeq(s[1], 1, n) : n \in 1 .. Len(s[1])} : s \in Sources[a]}]

(* No source has two meanings.                                             *)
ASSUME Unambiguous ==
  \A a \in Alphabets : Cardinality({s[1] : s \in Sources[a]}) = Cardinality(Sources[a])

(* An error is raised only when no sentence begins with the tokens read,   *)
(* the one looked at included (parser.c:653-680, 733-765).                 *)
RejectsOnlyNonSentences == status = "error" => read \notin Viable[alphabet]

(* Only a ! where an operator might follow an operand calls a rule that is *)
(* a null pointer (parser.c:320, 672-673).                                 *)
UndefinedOnlyAtBang ==
  status = "undefined" =>
    LET before == SubSeq(read, 1, Len(read) - 1)
    IN  Last(before) = "!" /\ before \notin Viable[alphabet]
=============================================================================
