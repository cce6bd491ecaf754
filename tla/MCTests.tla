------------------------------ MODULE MCTests -------------------------------
(***************************************************************************)
(* A program of the repository's test directory that declares variables,   *)
(* and a function that returns a literal.                                  *)
(***************************************************************************)
EXTENDS Vm, Codegen

MCStrings == 1 .. 4
MCClock == 1
MCFunctionIds == {0, 1}
TestConstants == <<StrV(2), StrV(3), StrV(4), IntV(10), IntV(100), Void>>
abc        == 0
abc2       == 1
ten        == 3
hundred    == 4
nothing    == 5

(* test/globalvars.haw, lines 1 to 6 *)
GlobalVars ==
  VarDeclStat(abc, Literal(ten))
  \o VarDeclStat(abc2, Literal(nothing))
  \o ExprStat(AssignName(abc2, AssignName(abc, Literal(hundred))), FALSE)
  \o PrintStat(LoadName(abc))

Only(script) ==
  {[fn \in {0, 1} |-> IF fn = 0 THEN ScriptOf(script, TestConstants)
                                ELSE EmptyFunction]}
GlobalVarsTest == Only(GlobalVars)

(* fun f: a { return 10; }  print f(100)                                   *)
(* The function's literal is a constant of the function's own chunk, where *)
(* the parameter's name comes first (parser.c:153-174, 201-226).           *)
LiteralInFunction ==
  {<<ScriptOf(FunDeclStat(0, 1)
              \o PrintStat(CallCode(LoadName(0), Arg(Literal(2)))),
              <<StrV(2), FunV(1), IntV(100)>>),
     [argc |-> 1, code |-> ReturnStat(Literal(1)),
      constants |-> <<StrV(3), IntV(10)>>]>>}
LiteralTest == {[fn \in {0, 1} |-> fs[fn + 1]] : fs \in LiteralInFunction}

AtPrint == status = "run" /\ InCode(1) /\ Op = "PRINT"

(* The script runs as far as its print (globalvars.haw:6).                 *)
TestNotAborted == status # "undefined"

(* What is printed is the 10 that the function returns (value.h:14-16).    *)
PrintsTen == AtPrint => Last(stack) = IntV(10)
=============================================================================
