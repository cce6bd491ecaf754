------------------------------ MODULE Grammar -------------------------------
(***************************************************************************)
(* The language that parser.c reads, without a parser: phrases with their  *)
(* code, longer ones composed of shorter ones.  What an operator may take  *)
(* as its operand is said by levels, never by who reads what first; the    *)
(* code of a phrase is composed by Codegen.                                *)
(*                                                                         *)
(* A language L has the phrases of each number of tokens: expressions,     *)
(* lists of arguments, statements and lists of statements.  IsLanguage     *)
(* says that it has all phrases that the rules compose of its phrases; the *)
(* smallest such is the language.                                          *)
(***************************************************************************)
EXTENDS Codegen, FiniteSets, SequencesExt

CONSTANTS
  Names,          \* the tokens that are names, of global variables
  Literals,       \* the literals other than void
  Index,          \* [Names, Literals, void and the one of ++ -> their index]
  MAX_ARGUMENTS,  \* the arguments a call may have
  REPL            \* a REPL prints the value of an expression

-----------------------------------------------------------------------------
(* An expression: its tokens and code; the lowest level among its outermost*)
(* operators; and its edge, the lowest level at which an operator to its   *)
(* right would still belong to an operand inside it.                       *)
ExprOf(tokens, bytes, low, edge) ==
  [tokens |-> tokens, code |-> bytes, low |-> low, edge |-> edge]
Atomic      == 10
Lower(m, n) == IF m < n THEN m ELSE n

Binaries == {"AND", "OR", "EQ", "NOTEQ", "GE", "LE", ">", "<", "+", "-", "CONCAT",
             "*", "/", "^", "IDIV", "%"}
Opname(t) ==
  CASE t = "NOTEQ" -> "NEQ"
    [] t \in {"AND", "OR", "EQ", "GE", "LE", "CONCAT", "IDIV"} -> t
    [] t = ">" -> "GT"
    [] t = "<" -> "LT"
    [] t = "+" -> "ADD"
    [] t = "-" -> "SUB"
    [] t = "*" -> "MUL"
    [] t = "/" -> "DIV"
    [] t = "^" -> "POW"
    [] t = "%" -> "MOD"

(* The levels of the language. *)
LevelOf(t) ==
  CASE t \in {"AND", "OR"} -> 3
    [] t \in {"EQ", "NOTEQ"} -> 4
    [] t \in {"GE", "LE", ">", "<"} -> 5
    [] t \in {"+", "-", "CONCAT"} -> 6
    [] t \in {"*", "/", "^", "IDIV", "%"} -> 7
    [] t \in {"INC", "DEC", "!"} -> 8

Stepped(t, e) ==
  e \o Literal(Index["one"]) \o Emit(IF t = "INC" THEN "ADD" ELSE "SUB")
Prefixed(t, e) ==
  CASE t = "-" -> UnaryCode("NEG", e)
    [] t = "!" -> UnaryCode("NOT", e)
    [] OTHER   -> Stepped(t, e)

(* The expressions and lists of arguments of n tokens of T, given the      *)
(* shorter ones.                                                           *)
Atoms(T) ==
  {ExprOf(<<x>>, LoadName(Index[x]), Atomic, Atomic) : x \in T \cap Names}
  \cup {ExprOf(<<x>>, Literal(Index[x]), Atomic, Atomic) : x \in T \cap Literals}

BinaryExprs(T, L, n) ==
  UNION {{ExprOf(a.tokens \o <<t>> \o b.tokens, BinaryCode(Opname(t), a.code, b.code),
                 Lower(a.low, LevelOf(t)), Lower(LevelOf(t) + 1, b.edge)) :
            a \in {x \in L.exprs[i] : x.edge > LevelOf(t)},
            b \in {y \in L.exprs[n - 1 - i] : y.low > LevelOf(t)}} :
         t \in T \cap Binaries, i \in 1 .. n - 2}

UnaryExprs(T, L, n) ==
  UNION {{ExprOf(<<t>> \o b.tokens, Prefixed(t, b.code), Atomic, Lower(LevelOf(t) + 1, b.edge)) :
            b \in {y \in L.exprs[n - 1] : y.low > LevelOf(t)}} :
         t \in T \cap {"-", "!", "INC", "DEC"}}

PostfixExprs(T, L, n) ==
  UNION {{ExprOf(a.tokens \o <<t>>, Stepped(t, a.code), Lower(a.low, 8), Atomic) :
            a \in {x \in L.exprs[n - 1] : x.edge > 8}} : t \in T \cap {"INC", "DEC"}}

Parens(tokens) == <<"(">> \o tokens \o <<")">>

Arguments(L, k) ==
  IF k = 0 THEN {[tokens |-> <<>>, args |-> NoArgs]} ELSE L.args[k]

CallExprs(T, L, n) ==
  UNION {{ExprOf(a.tokens \o Parens(l.tokens), CallCode(a.code, l.args),
                 Lower(a.low, 9), Atomic) :
            a \in {x \in L.exprs[i] : x.edge > 9}, l \in Arguments(L, n - 2 - i)} :
         i \in IF "(" \in T THEN 1 .. n - 2 ELSE {}}

GroupExprs(T, L, n) ==
  IF "(" \in T THEN {ExprOf(Parens(e.tokens), e.code, Atomic, Atomic) : e \in L.exprs[n - 2]}
  ELSE {}

(* An assignment is the whole of an expression and takes all to its right. *)
AssignExprs(T, L, n) ==
  UNION {{ExprOf(<<x, "=">> \o e.tokens, AssignName(Index[x], e.code), 1, 1) :
            e \in L.exprs[n - 2]} : x \in IF "=" \in T THEN T \cap Names ELSE {}}

Exprs(T, L, n) ==
  (IF n = 1 THEN Atoms(T) ELSE {})
  \cup BinaryExprs(T, L, n)
  \cup (IF n >= 2 THEN UnaryExprs(T, L, n) \cup PostfixExprs(T, L, n) ELSE {})
  \cup (IF n >= 3 THEN GroupExprs(T, L, n) \cup AssignExprs(T, L, n) \cup CallExprs(T, L, n)
        ELSE {})

ArgsOf(tokens, args) == [tokens |-> tokens, args |-> args]
ArgLists(T, L, n) ==
  IF "(" \notin T THEN {} ELSE
  {ArgsOf(e.tokens, Arg(e.code)) : e \in L.exprs[n]}
  \cup UNION {{ArgsOf(l.tokens \o <<"COMMA">> \o e.tokens,
                      [code |-> l.args.code \o e.code, count |-> l.args.count + 1]) :
                 l \in {m \in L.args[i] : m.args.count < MAX_ARGUMENTS},
                 e \in L.exprs[n - 1 - i]} : i \in 1 .. n - 2}

-----------------------------------------------------------------------------
(* A statement or a list of them: its tokens and code, and the tokens that *)
(* may not follow because they would still belong to it.                   *)
StmtOf(tokens, bytes, excluded) ==
  [tokens |-> tokens, code |-> bytes, excluded |-> excluded]

Continuing == Binaries \cup {"INC", "DEC", "!", "(", "="}
Starts(s, prior) == s.tokens[1] \notin prior

SimpleStmts(T, L, n) ==
  {StmtOf(e.tokens, ExprStat(e.code, REPL), Continuing) : e \in L.exprs[n]}
  \cup (IF n = 1 THEN {StmtOf(<<t>>, <<>>, {}) : t \in T \cap {"SEMICOLON", "BIND"}}
        ELSE {StmtOf(<<t>> \o e.tokens,
                     IF t = "PRINT" THEN PrintStat(e.code) ELSE ReturnStat(e.code), Continuing) :
                t \in T \cap {"PRINT", "RETURN"}, e \in L.exprs[n - 1]})
  \cup (IF n = 2 /\ {"RETURN", "SEMICOLON"} \subseteq T
        THEN {StmtOf(<<"RETURN", "SEMICOLON">>, ReturnStat(Literal(Index["void"])), {})}
        ELSE {})

(* A condition and the statement behind it, of n tokens together. *)
Guarded(L, n) ==
  UNION {{[cond |-> e, body |-> s] :
            e \in L.exprs[i], s \in {x \in L.stmts[n - i] : Starts(x, Continuing)}} :
         i \in 1 .. n - 1}

Whiles(T, L, n) ==
  IF "WHILE" \notin T THEN {} ELSE
  {StmtOf(<<"WHILE">> \o g.cond.tokens \o g.body.tokens,
          WhileStat(g.cond.code, g.body.code), g.body.excluded) : g \in Guarded(L, n - 1)}

(* An else belongs to the innermost if without one. *)
Ifs(T, L, n) ==
  IF "IF" \notin T THEN {} ELSE
  {StmtOf(<<"IF">> \o g.cond.tokens \o g.body.tokens,
          IfStat(g.cond.code, g.body.code, <<>>), g.body.excluded \cup {"ELSE"}) :
     g \in Guarded(L, n - 1)}
  \cup UNION {{StmtOf(<<"IF">> \o g.cond.tokens \o g.body.tokens \o <<"ELSE">> \o s.tokens,
                      IfStat(g.cond.code, g.body.code, s.code), s.excluded) :
                 g \in {x \in Guarded(L, i) : "ELSE" \notin x.body.excluded},
                 s \in L.stmts[n - 2 - i]} :
              i \in IF "ELSE" \in T THEN 2 .. n - 3 ELSE {}}

Blocks(T, L, n) ==
  IF "LBRACE" \notin T THEN {} ELSE
  {StmtOf(<<"LBRACE">> \o l.tokens \o <<"RBRACE">>, ScopeStat(l.code, 0), {}) :
     l \in L.lists[n - 2]}

(* The parts of a for statement of n tokens each, and its code. *)
Inits(L, n) ==
  IF n = 1 THEN {[tokens |-> <<"SEMICOLON">>, code |-> <<>>]}
  ELSE {[tokens |-> s.tokens \o <<"SEMICOLON">>, code |-> s.code] :
          s \in {x \in L.stmts[n - 1] : Starts(x, {"SEMICOLON"})}}
Conditions(L, n) ==
  IF n = 1 THEN {[tokens |-> <<"SEMICOLON">>, code |-> {}]}
  ELSE {[tokens |-> e.tokens \o <<"SEMICOLON">>, code |-> {e.code}] : e \in L.exprs[n - 1]}
(* The increment and the token that stands for the brace. *)
Increments(T, L, n) ==
  IF n = 1 THEN {[tokens |-> <<"LBRACE">>, code |-> <<>>]}
  ELSE {[tokens |-> e.tokens \o <<t>>, code |-> ExprStat(e.code, REPL)] :
          e \in L.exprs[n - 1], t \in T \ Continuing}

ForCode(init, cond, increment, body) ==
  IF cond # {} THEN ForStat(init, CHOOSE c \in cond : TRUE, increment, body, 0)
  ELSE LET step == increment \o BackwardJump(JumpCode("JMP") \o increment)
       IN  init \o JumpOver("JMP", step) \o step \o body \o BackwardJump(step \o body)

(* What is in the parentheses, so to say, and the statement with its body. *)
Heads(L, n) ==
  UNION {{[tokens |-> d.tokens \o c.tokens, init |-> d.code, cond |-> c.code] :
            d \in Inits(L, i), c \in Conditions(L, n - i)} : i \in 1 .. n - 1}
Headers(T, L, n) ==
  UNION {{[tokens |-> h.tokens \o u.tokens, init |-> h.init, cond |-> h.cond, step |-> u.code] :
            h \in Heads(L, i), u \in Increments(T, L, n - i)} : i \in 2 .. n - 1}
Fors(T, L, n) ==
  UNION {{StmtOf(<<"FOR">> \o h.tokens \o l.tokens \o <<"RBRACE">>,
                 ForCode(h.init, h.cond, h.step, l.code), {}) :
            h \in Headers(T, L, i), l \in L.lists[n - 2 - i]} :
         i \in IF {"FOR", "RBRACE", "SEMICOLON"} \subseteq T THEN 3 .. n - 2 ELSE {}}

Stmts(T, L, n) ==
  SimpleStmts(T, L, n) \cup Whiles(T, L, n) \cup Ifs(T, L, n)
  \cup (IF n >= 2 THEN Blocks(T, L, n) ELSE {}) \cup Fors(T, L, n)

Nothing == StmtOf(<<>>, <<>>, {})

Lists(L, n) ==
  UNION {UNION {{StmtOf(l.tokens \o s.tokens, l.code \o s.code, s.excluded) :
                   s \in {x \in L.stmts[n - k] : Starts(x, l.excluded)}} :
                l \in L.lists[k]} : k \in 0 .. n - 1}

-----------------------------------------------------------------------------
(* The phrases that are made of the tokens a.most, so many of each.        *)
Within(a, phrases) ==
  {s \in phrases : \A t \in ToSet(s.tokens) :
     /\ t \in DOMAIN a.most
     /\ Cardinality({i \in DOMAIN s.tokens : s.tokens[i] = t}) <= a.most[t]}

(* L has all that the rules give it, of a.length tokens at most.           *)
IsLanguage(a, L) ==
  LET T == DOMAIN a.most
  IN  /\ Nothing \in L.lists[0]
      /\ \A n \in 1 .. a.length :
           /\ Within(a, Exprs(T, L, n)) \subseteq L.exprs[n]
           /\ Within(a, ArgLists(T, L, n)) \subseteq L.args[n]
           /\ Within(a, Stmts(T, L, n)) \subseteq L.stmts[n]
           /\ Within(a, Lists(L, n)) \subseteq L.lists[n]

(* The sources: lists of at most n tokens and the end, each with the code   *)
(* of its script.                                                          *)
SourcesOf(L, n) ==
  {<<Append(s.tokens, "EOF"), ScriptOf(s.code, <<>>).code>> :
     s \in UNION {L.lists[i] : i \in 0 .. n}}
=============================================================================
