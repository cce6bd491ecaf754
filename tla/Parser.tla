------------------------------- MODULE Parser -------------------------------
(***************************************************************************)
(* The recursive descent of parser.c over a stream of tokens: statements,  *)
(* and expressions by the precedences of the rule table, with the bytes    *)
(* they emit.  `todo` is the C stack: the rest of each call under way, the *)
(* innermost first.  The lexer is external: it may deliver any token, and  *)
(* EOF for ever once it has delivered EOF.  The tokens ; , { } have names. *)
(*                                                                         *)
(* Names are globals and constants have the index given with their token;  *)
(* how indices and locals are allocated, `set` and `fun`, are modelled in  *)
(* module Compiler.  Code stays below the limits of jumps.                 *)
(***************************************************************************)
EXTENDS Bytecode, FiniteSets, SequencesExt

CONSTANTS
  Alphabets,      \* what may be read: tokens, how often each, how many in all
  Names,          \* the tokens that are names
  Literals,       \* the literals other than void
  Index,          \* [Names, Literals, void and the one of ++ -> their index]
  MAX_ARGUMENTS,  \* the arguments a call may have: 255
  REPL,           \* a REPL prints the value of an expression
  Language        \* the language over each alphabet

G == INSTANCE Grammar

ASSUME ParserAssumption ==
  /\ Index \in [Names \cup Literals \cup {"void", "one"} -> Nat]
  /\ "EOF" \notin Names \cup Literals
  /\ MAX_ARGUMENTS \in 0 .. MaxByte
  /\ REPL \in BOOLEAN
  /\ \A a \in Alphabets :
       /\ a.length \in Nat \ {0} /\ a.most \in [DOMAIN a.most -> Nat \ {0}]
       /\ G!IsLanguage(a, Language[a])

VARIABLES
  alphabet,            \* what the lexer delivers
  previous, current,   \* the two tokens of the parser
  todo,                \* what the C functions have still to do
  code,                \* the chunk's code
  status,              \* parsing, done, error, undefined
  read                 \* the tokens read so far, one EOF at most

vars == <<alphabet, previous, current, todo, code, status, read>>

-----------------------------------------------------------------------------
(* The rules of the tokens. *)

Level == [NONE |-> 0, ASSIGNMENT |-> 1, OR |-> 2, AND |-> 3, EQ |-> 4,
          COMPARISON |-> 5, TERM |-> 6, FACTOR |-> 7, UNARY |-> 8, CALL |-> 9]

(* && and || share a level, ^ is one of the factors. *)
Precedence(t) ==
  CASE t \in {"AND", "OR"}                -> Level.AND
    [] t \in {"EQ", "NOTEQ"}              -> Level.EQ
    [] t \in {"GE", "LE", ">", "<"}       -> Level.COMPARISON
    [] t \in {"+", "-", "CONCAT"}         -> Level.TERM
    [] t \in {"*", "/", "^", "IDIV", "%"} -> Level.FACTOR
    [] t \in {"INC", "DEC", "!"}          -> Level.UNARY
    [] t = "("                            -> Level.CALL
    [] OTHER                              -> Level.NONE

Prefix(t) ==
  CASE t \in {"-", "INC", "DEC", "!"}  -> "unary"
    [] t \in Names                     -> "name"
    [] t \in Literals \cup {"void"}    -> "literal"
    [] t = "("                         -> "grouping"
    [] OTHER                           -> "NULL"

(* Mutant: the rule of ( has no infix function. *)
InfixWithoutCall(t) ==
  CASE t \in {"INC", "DEC"}    -> "postfix"
    [] t \in {"(", "!"}        -> "NULL"
    [] OTHER                   -> "binary"

Infix(t) ==
  CASE t \in {"INC", "DEC"}    -> "postfix"
    [] t = "("                 -> "call"
    [] t = "!"                 -> "NULL"
    [] OTHER                   -> "binary"

(* getbinopr, getunopr, and what is emitted for them. *)
Operation == [x \in {"AND", "OR", "EQ", "GE", "LE", "CONCAT", "IDIV"} |-> x]
Symbols   == {<<"+", "ADD">>, <<"-", "SUB">>, <<"*", "MUL">>, <<"/", "DIV">>,
              <<"^", "POW">>, <<"%", "MOD">>, <<">", "GT">>, <<"<", "LT">>}

BinaryBytes(t) ==
  CASE t = "NOTEQ"              -> <<Opcode("EQ"), Opcode("NOT")>>
    [] t \in DOMAIN Operation   -> <<Opcode(Operation[t])>>
    [] OTHER                    -> <<Opcode((CHOOSE s \in Symbols : s[1] = t)[2])>>

(* postfix, and ++ and -- as prefixes: one added or subtracted. *)
StepBytes(t) ==
  ConstantCode(Index["one"]) \o <<Opcode(IF t = "INC" THEN "ADD" ELSE "SUB")>>

UnaryBytes(t) ==
  CASE t = "-" -> <<Opcode("NEG")>>
    [] t = "!" -> <<Opcode("NOT")>>
    [] OTHER   -> StepBytes(t)

-----------------------------------------------------------------------------
(* The stack of calls.  Each entry says what is to be done and with what:  *)
(* a level and whether it may assign, a token, a count, offsets of code.   *)

Do(what)           == [do |-> what]
Prec(level)        == [do |-> "prec", level |-> level]
Expr               == Prec(Level.ASSIGNMENT)
Emit(bytes)        == [do |-> "emit", bytes |-> bytes]
Consume(t)         == [do |-> "consume", token |-> t]

Top == todo[1]
At(what) == status = "parsing" /\ todo # <<>> /\ Top.do = what

(* The call on top is replaced by what it calls and then does itself. *)
Then(calls) == todo' = calls \o Tail(todo)

Skip == UNCHANGED <<previous, current, read>>

(* next: whatever the lexer delivers. *)
Occurs(t) == Cardinality({i \in DOMAIN read : read[i] = t})
Upcoming ==
  {"EOF"} \cup {t \in DOMAIN alphabet.most : /\ current # "EOF"
                                             /\ Len(read) < alphabet.length
                                             /\ Occurs(t) < alphabet.most[t]}

Advance ==
  \E t \in Upcoming :
    /\ previous' = current
    /\ current' = t
    /\ read' = IF current = "EOF" THEN read ELSE Append(read, t)

Goes == UNCHANGED <<alphabet, status>>

Error == /\ status' = "error"
         /\ UNCHANGED <<alphabet, previous, current, todo, code, read>>

-----------------------------------------------------------------------------
(* Expressions. *)

(* prec, up to its prefix rule. *)
PrecPrefix ==
  /\ At("prec")
  /\ IF Prefix(current) = "NULL"
     THEN Error
     ELSE /\ Advance
          /\ LET assigns == Top.level <= Level.ASSIGNMENT
             IN  Then(<<[do |-> Prefix(current), assigns |-> assigns],
                        [do |-> "infix", level |-> Top.level, assigns |-> assigns]>>)
          /\ UNCHANGED code /\ Goes

(* Its loop over infix rules; the one of '!' is a null pointer. *)
PrecInfix ==
  /\ At("infix")
  /\ IF Top.level <= Precedence(current)
     THEN /\ Advance
          /\ Then(<<[do |-> Infix(current)], Top>>)
          /\ UNCHANGED <<code, alphabet>>
          /\ status' = IF Infix(current) = "NULL" THEN "undefined" ELSE status
     ELSE IF Top.assigns /\ current = "="    \* Invalid assignment target
     THEN Error
     ELSE Then(<<>>) /\ Skip /\ UNCHANGED code /\ Goes

(* Mutant: an index of two bytes is emitted as one. *)
NameShort ==
  /\ At("name")
  /\ IF Top.assigns /\ current = "="
     THEN /\ Advance
          /\ Then(<<Expr, Emit(<<Opcode("SETGLOBAL"), Index[previous]>>)>>)
     ELSE /\ Then(<<Emit(<<Opcode("LOADGLOBAL"), Index[previous]>>)>>)
          /\ Skip
  /\ UNCHANGED code /\ Goes

Name ==
  /\ At("name")
  /\ IF Top.assigns /\ current = "="
     THEN /\ Advance
          /\ Then(<<Expr, Emit(OperandCode("SETGLOBAL", Index[previous]))>>)
     ELSE /\ Then(<<Emit(OperandCode("LOADGLOBAL", Index[previous]))>>)
          /\ Skip
  /\ UNCHANGED code /\ Goes

(* void has this rule, too, but no case in its switch. *)
Literal ==
  /\ At("literal")
  /\ IF previous = "void"
     THEN Error
     ELSE Then(<<Emit(ConstantCode(Index[previous]))>>) /\ Skip /\ UNCHANGED code /\ Goes

Grouping ==
  /\ At("grouping")
  /\ Then(<<Expr, Consume(")")>>)
  /\ Skip /\ UNCHANGED code /\ Goes

(* Mutant: the operand at the operator's own level. *)
BinaryRight ==
  /\ At("binary")
  /\ Then(<<Prec(Precedence(previous)), Emit(BinaryBytes(previous))>>)
  /\ Skip /\ UNCHANGED code /\ Goes

Binary ==
  /\ At("binary")
  /\ Then(<<Prec(Precedence(previous) + 1), Emit(BinaryBytes(previous))>>)
  /\ Skip /\ UNCHANGED code /\ Goes

Unary ==
  /\ At("unary")
  /\ Then(<<Prec(Precedence(previous) + 1), Emit(UnaryBytes(previous))>>)
  /\ Skip /\ UNCHANGED code /\ Goes

Postfix ==
  /\ At("postfix")
  /\ Then(<<Emit(StepBytes(previous))>>)
  /\ Skip /\ UNCHANGED code /\ Goes

(* call, arguments *)
Call ==
  /\ At("call")
  /\ IF current = ")"
     THEN Advance /\ Then(<<Emit(<<Opcode("CALL"), 0>>)>>)
     ELSE Then(<<Expr, [do |-> "argument", count |-> 0]>>) /\ Skip
  /\ UNCHANGED code /\ Goes

(* Mutant: the last argument that may be passed is refused. *)
ArgumentBelowMaximum ==
  /\ At("argument")
  /\ LET count == Top.count + 1 IN
       IF count = MAX_ARGUMENTS \/ current \notin {")", "COMMA"}
       THEN Error
       ELSE /\ Advance
            /\ Then(IF current = ")" THEN <<Emit(<<Opcode("CALL"), count>>)>>
                    ELSE <<Expr, [do |-> "argument", count |-> count]>>)
            /\ UNCHANGED code /\ Goes

(* Behind an argument, with the number of those before it. *)
Argument ==
  /\ At("argument")
  /\ LET count == Top.count + 1 IN
       IF Top.count = MAX_ARGUMENTS \/ current \notin {")", "COMMA"}
       THEN Error
       ELSE /\ Advance
            /\ Then(IF current = ")" THEN <<Emit(<<Opcode("CALL"), count>>)>>
                    ELSE <<Expr, [do |-> "argument", count |-> count]>>)
            /\ UNCHANGED code /\ Goes

EmitBytes ==
  /\ At("emit")
  /\ code' = code \o Top.bytes
  /\ Then(<<>>)
  /\ Skip /\ Goes

ConsumeToken ==
  /\ At("consume")
  /\ IF current = Top.token
     THEN Advance /\ Then(<<>>) /\ UNCHANGED code /\ Goes
     ELSE Error

ExpressionStep ==
  \/ PrecPrefix \/ PrecInfix \/ Name \/ Literal \/ Grouping \/ Binary \/ Unary
  \/ Postfix \/ Call \/ Argument \/ EmitBytes \/ ConsumeToken

-----------------------------------------------------------------------------
(* Statements. *)

ExprStat == <<Expr, Emit(<<Opcode(IF REPL THEN "PRINT" ELSE "POP")>>)>>

(* Mutant: the empty statement is not skipped. *)
StmtWithoutSkip ==
  /\ At("stmt")
  /\ current = "SEMICOLON"
  /\ Skip /\ UNCHANGED <<code, todo>> /\ Goes

(* stmt; every statement with a keyword skips it first. *)
Stmt ==
  /\ At("stmt")
  /\ CASE current \in {"SEMICOLON", "BIND"} -> Advance /\ Then(<<>>)
       [] current = "RETURN"        -> Advance /\ Then(<<Do("return")>>)
       [] current = "PRINT"         -> Advance /\ Then(<<Expr, Emit(<<Opcode("PRINT")>>)>>)
       [] current = "WHILE"         -> /\ Advance
                                       /\ Then(<<Expr, [do |-> "while", start |-> Len(code)]>>)
       [] current = "FOR"           -> Advance /\ Then(<<Do("for")>>)
       [] current = "IF"            -> Advance /\ Then(<<Expr, Do("if")>>)
       [] current = "LBRACE"        -> Skip /\ Then(<<Do("scope")>>)
       [] OTHER                     -> Skip /\ Then(ExprStat)
  /\ UNCHANGED code /\ Goes

Return ==
  /\ At("return")
  /\ IF current = "SEMICOLON"
     THEN Advance /\ Then(<<Emit(ConstantCode(Index["void"])), Emit(<<Opcode("RETURN")>>)>>)
     ELSE Skip /\ Then(<<Expr, Emit(<<Opcode("RETURN")>>)>>)
  /\ UNCHANGED code /\ Goes

(* scopestat takes any token for the brace. *)
Scope ==
  /\ At("scope")
  /\ Advance
  /\ Then(<<Do("block")>>)
  /\ UNCHANGED code /\ Goes

Block ==
  /\ At("block")
  /\ Then(IF current \in {"EOF", "RBRACE"} THEN <<Consume("RBRACE")>>
          ELSE <<Do("stmt"), Do("block")>>)
  /\ Skip /\ UNCHANGED code /\ Goes

(* emit_jump: the jump, and where its distance will be written. *)
WithJump(op) == code \o JumpCode(op)
Hole         == Len(code) + 1

(* emit_njump *)
WithLoop(start) ==
  LET offset == Len(code) + 3 - start
  IN  code \o <<Opcode("NJMP"), (offset \div Byte) % Byte, offset % Byte>>

WhileBody ==
  /\ At("while")
  /\ code' = WithJump("JMPF")
  /\ Then(<<Do("stmt"), [do |-> "loop", start |-> Top.start, hole |-> Hole]>>)
  /\ Skip /\ Goes

WhileEnd ==
  /\ At("loop")
  /\ code' = Patched(WithLoop(Top.start), Top.hole)
  /\ Then(<<>>)
  /\ Skip /\ Goes

IfThen ==
  /\ At("if")
  /\ code' = WithJump("JMPF")
  /\ Then(<<Do("stmt"), [do |-> "else", hole |-> Hole]>>)
  /\ Skip /\ Goes

IfElse ==
  /\ At("else")
  /\ code' = Patched(WithJump("JMP"), Top.hole)
  /\ LET end == [do |-> "patch", hole |-> Hole] IN
       IF current = "ELSE"
       THEN Advance /\ Then(<<Do("stmt"), end>>)
       ELSE Skip /\ Then(<<end>>)
  /\ Goes

PatchJump ==
  /\ At("patch")
  /\ code' = Patched(code, Top.hole)
  /\ Then(<<>>)
  /\ Skip /\ Goes

(* forstat: an initial statement and a condition, either may be missing. *)
ForInit ==
  /\ At("for")
  /\ IF current = "SEMICOLON"
     THEN Advance /\ Then(<<Do("for_condition")>>)
     ELSE Skip /\ Then(<<Do("stmt"), Consume("SEMICOLON"), Do("for_condition")>>)
  /\ UNCHANGED code /\ Goes

ForCondition ==
  /\ At("for_condition")
  /\ LET start == Len(code) IN
       IF current = "SEMICOLON"
       THEN /\ Advance
            /\ Then(<<[do |-> "for_step", start |-> start, exit |-> {}]>>)
       ELSE /\ Skip
            /\ Then(<<Expr, Consume("SEMICOLON"), [do |-> "for_exit", start |-> start]>>)
  /\ UNCHANGED code /\ Goes

ForExit ==
  /\ At("for_exit")
  /\ code' = WithJump("JMPF")
  /\ Then(<<[do |-> "for_step", start |-> Top.start, exit |-> {Hole}]>>)
  /\ Skip /\ Goes

(* The increment, unless the body follows at once. *)
ForStep ==
  /\ At("for_step")
  /\ code' = WithJump("JMP")
  /\ LET body == [do |-> "for_body", start |-> Top.start, exit |-> Top.exit,
                  hole |-> Hole, step |-> Len(code')]
     IN  Then((IF current = "LBRACE" THEN <<>> ELSE ExprStat) \o <<body>>)
  /\ Skip /\ Goes

ForBody ==
  /\ At("for_body")
  /\ code' = Patched(WithLoop(Top.start), Top.hole)
  /\ Then(<<Do("scope"), [do |-> "for_end", step |-> Top.step, exit |-> Top.exit]>>)
  /\ Skip /\ Goes

ForEnd ==
  /\ At("for_end")
  /\ code' = IF Top.exit = {} THEN WithLoop(Top.step)
             ELSE Patched(WithLoop(Top.step), CHOOSE hole \in Top.exit : TRUE)
  /\ Then(<<>>)
  /\ Skip /\ Goes

StatementStep ==
  \/ Stmt \/ Return \/ Scope \/ Block \/ WhileBody \/ WhileEnd \/ IfThen \/ IfElse
  \/ PatchJump \/ ForInit \/ ForCondition \/ ForExit \/ ForStep \/ ForBody \/ ForEnd

(* parse *)
Script ==
  /\ At("script")
  /\ IF current = "EOF"
     THEN /\ code' = Append(code, Opcode("HALT"))
          /\ status' = "done"
          /\ todo' = <<>>
          /\ UNCHANGED alphabet
     ELSE /\ Then(<<Do("stmt"), Do("script")>>)
          /\ UNCHANGED code /\ Goes
  /\ Skip

Init ==
  /\ alphabet \in Alphabets
  /\ previous = "EOF"
  /\ current \in DOMAIN alphabet.most \cup {"EOF"}
  /\ todo = <<Do("script")>>
  /\ code = <<>>
  /\ status = "parsing"
  /\ read = <<current>>

Next == ExpressionStep \/ StatementStep \/ Script

(* The parser runs on as long as the lexer delivers. *)
Spec == Init /\ [][Next]_vars /\ WF_vars(Next)

-----------------------------------------------------------------------------
(* Properties; what is no sentence is said in MCParser.                    *)

Places == {"prec", "infix", "emit", "consume", "unary", "name", "literal", "grouping",
           "binary", "postfix", "call", "NULL", "argument", "stmt", "return", "scope",
           "block", "while", "loop", "if", "else", "patch", "for", "for_condition",
           "for_exit", "for_step", "for_body", "for_end", "script"}

TypeOK ==
  /\ alphabet \in Alphabets
  /\ current \in DOMAIN alphabet.most \cup {"EOF"}
  /\ previous \in DOMAIN alphabet.most \cup {"EOF"}
  /\ \A i \in DOMAIN todo : todo[i].do \in Places
  /\ code \in Seq(0 .. MaxByte)
  /\ status \in {"parsing", "done", "error", "undefined"}
  /\ read \in Seq(DOMAIN alphabet.most \cup {"EOF"})

(* What is accepted is a sentence of the language, and the code emitted is *)
(* that of its phrases: jumps patched while later code is still unknown    *)
(* land where the finished constructs say, operands of every operator are  *)
(* those its level allows (parser.c:535-731, 767-862).                     *)
Sources == [a \in Alphabets |-> G!SourcesOf(Language[a], a.length)]
EmitsItsTree == status = "done" => <<read, code>> \in Sources[alphabet]

(* The parse of every source ends, however the lexer goes on: no function  *)
(* of the descent calls itself, or loops, without having read a token      *)
(* (parser.c:382-417, 468-471, 653-680, 742-762, 929-931).                 *)
ParseEnds == <>(status # "parsing")
=============================================================================
