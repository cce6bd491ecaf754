------------------------------ MODULE Codegen -------------------------------
(***************************************************************************)
(* What parser.c emits for each construct of the language.  A construct is *)
(* an operator from the code of its parts to its code; operands (constant  *)
(* indices, local slots) are given, their allocation is not modelled here. *)
(***************************************************************************)
EXTENDS Bytecode

Emit(op) == <<Opcode(op)>>

(* emit_jump and, when the code to jump over is there, patch_jump. *)
JumpOver(op, code) == SubSeq(Patched(JumpCode(op) \o code, 1), 1, 3)

(* Mutant: the jump's own three bytes are not counted. *)
BackwardJumpShort(loop) ==
  <<Opcode("NJMP"), (Len(loop) \div Byte) % Byte, Len(loop) % Byte>>

(* emit_njump: back over `loop` and over the jump itself. *)
BackwardJump(loop) ==
  LET offset == Len(loop) + 3
  IN  <<Opcode("NJMP"), (offset \div Byte) % Byte, offset % Byte>>

-----------------------------------------------------------------------------
(* Expressions. *)

(* literal, function: a constant by its index. *)
Literal(index) == ConstantCode(index)

(* name: a variable read, or assigned when '=' follows. *)
LoadName(name)      == OperandCode("LOADGLOBAL", name)
AssignName(name, e) == e \o OperandCode("SETGLOBAL", name)
LoadSlot(i)         == OperandCode("LOADLOCAL", i)
AssignSlot(i, e)    == e \o OperandCode("SETLOCAL", i)

(* call: the number of arguments is a byte, never announced by WIDE. *)
CallCode(callee, args) ==
  callee \o args.code \o <<Opcode("CALL"), args.count>>
NoArgs == [code |-> <<>>, count |-> 0]
Arg(e) == [code |-> e, count |-> 1]

BinaryCode(op, a, b) ==
  a \o b \o (IF op = "NEQ" THEN Emit("EQ") \o Emit("NOT") ELSE Emit(op))

UnaryCode(op, a) == a \o Emit(op)

-----------------------------------------------------------------------------
(* Statements. *)

(* A REPL prints the value of an expression, a script drops it. *)
ExprStat(e, repl) == e \o Emit(IF repl THEN "PRINT" ELSE "POP")

PrintStat(e) == e \o Emit("PRINT")

ReturnStat(e) == e \o Emit("RETURN")

(* Mutant: the value stays on the stack. *)
DefVarKept(e, name) == AssignName(name, e)

(* def_var: a global is popped, a local stays as the slot it will be. *)
DefVar(e, name) == AssignName(name, e) \o Emit("POP")

FunDeclStat(name, function) == DefVar(Literal(function), name)

(* vardeclstat of a global: pops again what def_var has already popped.    *)
VarDeclStat(name, e) == DefVar(e, name) \o Emit("POP")

(* scopestat, scope_end: one pop for each local of the scope. *)
Pops(n) == [i \in 1 .. n |-> Opcode("POP")]
ScopeStat(body, locals) == body \o Pops(locals)

WhileStat(c, body) ==
  LET loop == body \o BackwardJump(c \o JumpCode("JMPF") \o body)
  IN  c \o JumpOver("JMPF", loop) \o loop

IfStat(c, then, else) ==
  LET taken == then \o JumpOver("JMP", else)
  IN  c \o JumpOver("JMPF", taken) \o taken \o else

(* Mutant: the body jumps back to the condition, past the increment. *)
ForStatWithoutStep(init, c, increment, body, locals) ==
  LET loop == body \o BackwardJump(c \o JumpCode("JMPF") \o body)
  IN  init \o c \o JumpOver("JMPF", loop) \o loop \o Pops(locals)

(* The increment is compiled before the body, which ends by jumping back   *)
(* to it.                                                                  *)
ForStat(init, c, increment, body, locals) ==
  LET step == increment
              \o BackwardJump(c \o JumpCode("JMPF") \o JumpCode("JMP") \o increment)
      loop == JumpOver("JMP", step) \o step \o body
              \o BackwardJump(step \o body)
  IN  init \o c \o JumpOver("JMPF", loop) \o loop \o Pops(locals)

(* function, compiler_end: nothing is emitted behind the body. *)
FunctionBody(argc, body) == [argc |-> argc, code |-> body, constants |-> <<>>]

(* parse: the script ends in HALT. *)
ScriptOf(body, constants) ==
  [argc |-> 0, code |-> body \o Emit("HALT"), constants |-> constants]
=============================================================================
