-------------------------------- MODULE MCVm --------------------------------
(***************************************************************************)
(* Small programs for Vm: two global functions f and g of one parameter,   *)
(* then statements over every expression of a small grammar.               *)
(***************************************************************************)
EXTENDS Vm, Codegen

(* The script's constants, in the order of the indices below.  With bytes  *)
(* of 32 values some indices need the wide form of their instructions.     *)
MCStrings == 1 .. 4
MCClock == 1
MCFunctionIds == 0 .. 2
First == IF Byte = 32 THEN 30 ELSE 0
MCConstants ==
  [i \in 1 .. First |-> Void]
  \o <<StrV(1), StrV(2), StrV(3), StrV(4), IntV(0), IntV(1), FunV(1), FunV(2),
       IntV(IntMax)>>
clock   == First
f       == First + 1
g       == First + 2
x       == First + 3
zero    == First + 4
one     == First + 5
fObject == First + 6
gObject == First + 7
most    == First + 8

Call1(callee, e) == CallCode(LoadName(callee), Arg(e))
Call0(callee)    == CallCode(LoadName(callee), NoArgs)
Parameter        == LoadSlot(1)

(* The bodies of a function of the parameter a.                            *)
ReturnA == ReturnStat(Parameter)              \* return a;
Bodies ==
  {ReturnA,
   (* return a(a); *)
   ReturnStat(CallCode(Parameter, Arg(Parameter))),
   (* a = f; return g(a); *)
   ExprStat(AssignSlot(1, LoadName(f)), FALSE) \o ReturnStat(Call1(g, Parameter)),
   (* if a return a; return f(g); *)
   IfStat(Parameter, ReturnA, <<>>) \o ReturnStat(Call1(f, LoadName(g)))}

Program(script, fBody, gBody) ==
  [fn \in 0 .. 2 |->
     CASE fn = 0 -> ScriptOf(script, MCConstants)
       [] fn = 1 -> FunctionBody(1, fBody)
       [] fn = 2 -> FunctionBody(1, gBody)]

Drop1(e)  == ExprStat(e, FALSE)
SetX(e)   == Drop1(AssignName(x, e))
Prelude   == FunDeclStat(f, fObject) \o FunDeclStat(g, gObject)

-----------------------------------------------------------------------------
(* fun f: a ...  fun g: a ...  x = e  then a statement. *)
Atoms == {Literal(one), LoadName(x), LoadName(f), LoadName(g)}
Inner == Atoms \cup {Call1(c, a) : c \in {f, g}, a \in Atoms}
Outer == Inner
         \cup {Call1(f, a) : a \in Inner}
         \cup {Call0(f)}
         \cup {BinaryCode("ADD", Literal(one), b) : b \in Inner}
         \cup {BinaryCode("NEQ", LoadName(f), LoadName(g)),
               UnaryCode("NOT", LoadName(x)), UnaryCode("NEG", Literal(one))}

Statements ==
  {PrintStat(e) : e \in Outer}
  \cup {IfStat(e, Drop1(LoadName(x)), SetX(Literal(zero))) : e \in Inner}
  \cup {WhileStat(LoadName(x), SetX(Literal(zero)))}
  \cup {ForStat(SetX(e), LoadName(x), SetX(Literal(zero)), PrintStat(e), 0) :
          e \in Atoms \ {LoadName(x)}}
  \cup {ReturnStat(e) : e \in Inner}

MCPrograms ==
  {Program(Prelude \o SetX(e) \o s, m, n) :
     m \in Bodies, n \in Bodies, e \in Atoms \cup {Call1(f, LoadName(g))},
     s \in Statements}

-----------------------------------------------------------------------------
(* Programs that call the native clock, also as an argument, and a function *)
(* that may lack a return; and arithmetic on the least and the greatest     *)
(* integers.                                                                *)
Edges ==
  LET least == BinaryCode("SUB", UnaryCode("NEG", Literal(most)), Literal(one))
      ends  == {Literal(most), least, Literal(zero), UnaryCode("NEG", Literal(one))}
  IN  {UnaryCode("NEG", e) : e \in ends}
      \cup {BinaryCode(op, d, e) : op \in {"ADD", "SUB", "MUL", "DIV", "IDIV", "MOD"},
                                  d \in ends, e \in ends}

NativeInner ==
  {Literal(one), LoadName(f), LoadName(clock), Call0(clock)}
  \cup {Call1(c, a) : c \in {f, clock},
                      a \in {Literal(one), LoadName(g), Call0(clock)}}
NativeOuter ==
  NativeInner
  \cup {Call1(f, a) : a \in NativeInner}
  \cup {BinaryCode("ADD", a, b) :
          a \in {Literal(one), Call0(clock)}, b \in NativeInner}

NativePrograms ==
  {Program(Prelude \o Drop1(e) \o PrintStat(d) \o t, m, n) :
     m \in Bodies, n \in {ReturnA, Drop1(Parameter)}, e \in NativeInner, d \in NativeOuter \ {LoadName(clock)},
     t \in {<<>>, ReturnStat(Call0(clock))}}
  \cup {Program(PrintStat(e), ReturnA, ReturnA) : e \in Edges}

-----------------------------------------------------------------------------
(* Programs without a map: a function whose literals and names are indices *)
(* into its own constants, which the machine takes for the script's; and   *)
(* comparisons with the voids that result and with a void of the script's. *)
OwnConstants    == <<StrV(3), IntV(1), IntV(0), StrV(2), Void, IntV(1)>>
ScriptConstants == <<StrV(2), FunV(1), IntV(1), Void>>

StrayBodies ==
  {ReturnStat(Literal(i)) : i \in {1, 2, 4, 5}}
  \cup {ReturnStat(LoadName(3)),
        Drop1(AssignName(3, Parameter)) \o ReturnA}

StrayOperands == {Call1(0, Literal(2)), Literal(2), Literal(3)}
StrayOuter    == StrayOperands
                 \cup {BinaryCode(op, a, b) : op \in {"EQ", "NEQ", "LT"},
                                             a \in StrayOperands, b \in StrayOperands}

StrayPrograms ==
  {[fn \in 0 .. 2 |->
      CASE fn = 0 -> ScriptOf(FunDeclStat(0, 1) \o PrintStat(e), ScriptConstants)
        [] fn = 1 -> [argc |-> 1, code |-> m, constants |-> OwnConstants]
        [] fn = 2 -> EmptyFunction] :
     e \in StrayOuter, m \in StrayBodies}
=============================================================================
