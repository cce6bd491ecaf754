----------------------------- MODULE MCSession ------------------------------
(***************************************************************************)
(* Lines of a session: f and g are declared, f is called, `return` is      *)
(* typed outside any function; `f(` and `if f )` are syntax errors.  What  *)
(* SessionProofs assumes of lines is true of these.                        *)
(***************************************************************************)
EXTENDS Session, Codegen, MapSearch

(* Every line adds its constants behind those of the lines before it: here *)
(* a byte of indices is used up already.                                   *)
MCStrings == 1 .. 3
MCClock == 1
MCFunctionIds == 0 .. 2
Earlier == [i \in 1 .. Byte |-> Void]
LineConstants ==
  Earlier \o <<StrV(1), StrV(2), StrV(3), IntV(1), FunV(1), FunV(2)>>
f == Byte + 1
g == Byte + 2
one == Byte + 3
fObject == Byte + 4
gObject == Byte + 5

Lines ==
  {FunDeclStat(f, fObject),
   FunDeclStat(g, gObject),
   ExprStat(CallCode(LoadName(f), Arg(Literal(one))), TRUE),
   ReturnStat(Literal(one))}

(* fun f: a { return g(a); }   fun g: a { return a; } *)
Functions ==
  <<FunctionBody(1, ReturnStat(CallCode(LoadName(g), Arg(LoadSlot(1))))),
    FunctionBody(1, ReturnStat(LoadSlot(1)))>>

LinePrograms ==
  {[fn \in 0 .. 2 |-> IF fn = 0 THEN ScriptOf(line, LineConstants)
                                ELSE Functions[fn]] : line \in Lines}

LineFailures == {LoadName(f), LoadName(f) \o JumpCode("JMPF")}

ASSUME LinesAssumption == AllCalm(LinePrograms)
=============================================================================
