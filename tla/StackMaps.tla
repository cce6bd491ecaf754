------------------------------ MODULE StackMaps ------------------------------
(***************************************************************************)
(* What the machine of Vm relies on and does not check: that the code it   *)
(* is given keeps the stack in step with itself.  The map of a function    *)
(* says how many cells its frame has wherever its code may stand; a place  *)
(* of the code is an offset, and whether WIDE has just been read.  Code    *)
(* that has a map never pops what is not its own, never touches slot 0 and *)
(* ends, if it ends, behind its last instruction.  The compiler's code has *)
(* one, except for `set`, which takes a cell too many (parser.c:437-438).  *)
(***************************************************************************)
EXTENDS Vm

CONSTANT Readable   \* the globals that programs may read

ASSUME ReadableAssumption == Readable \subseteq Strings

(* What programs handle: no native but for those they can read, and never  *)
(* a void, or the script itself.                                           *)
Kinds == {"int", "num", "str", "fun"}
         \cup (IF Clock \in Readable THEN {"native"} ELSE {})

Clean(v)    == v.type \in Kinds /\ v # FunV(Script)
Loadable(v) == v.type \in {"int", "num", "str", "fun"} /\ v # FunV(Script)

-----------------------------------------------------------------------------
(* The map of a function. *)

(* The instruction at a place: where the next one is, and what it reads.   *)
NextAt(code, p)  == p[1] + InstructionLength(OpAt(code, p[1]), p[2])
ArgAt(code, p)   == IF p[2] THEN U24At(code, p[1] + 1) ELSE ByteAt(code, p[1] + 1)
IndexAt(code, p) == IF OpAt(code, p[1]) = "CONSTANT"
                    THEN ByteAt(code, p[1] + 1) ELSE U24At(code, p[1] + 1)
DistAt(code, p)  == ShortAt(code, p[1] + 1)

(* The map h lets the code go on at ip, with n cells. *)
GoesTo(h, ip, n) == <<ip, FALSE>> \in DOMAIN h /\ h[<<ip, FALSE>>] = n

IsConstant(fs, i)  == i < Len(fs[Script].constants)
ConstantOf(fs, i)  == fs[Script].constants[i + 1]
Names(fs, i)       == IsConstant(fs, i) /\ IsString(ConstantOf(fs, i))

(* The instruction of f at p finds the cells it takes, and leaves as many  *)
(* as h says of wherever it goes.                                          *)
Flows(fs, f, h, p) ==
  LET op    == OpAt(fs[f].code, p[1])
      next  == NextAt(fs[f].code, p)
      arg   == ArgAt(fs[f].code, p)
      index == IndexAt(fs[f].code, p)
      dist  == DistAt(fs[f].code, p)
      n     == h[p]
  IN  /\ op \in {"CONSTANT", "CONSTANT_LONG"} =>
           /\ IsConstant(fs, index) /\ Loadable(ConstantOf(fs, index))
           /\ GoesTo(h, next, n + 1)
      /\ op \in BinaryOps => n >= 3 /\ GoesTo(h, next, n - 1)
      /\ op \in {"NEG", "NOT"} => n >= 2 /\ GoesTo(h, next, n)
      /\ op \in {"PRINT", "POP"} => n >= 2 /\ GoesTo(h, next, n - 1)
      /\ op = "SETGLOBAL" => n >= 2 /\ Names(fs, arg) /\ GoesTo(h, next, n)
      /\ op = "LOADGLOBAL" =>
           /\ Names(fs, arg) /\ ConstantOf(fs, arg).val \in Readable
           /\ GoesTo(h, next, n + 1)
      /\ op = "SETLOCAL"  => arg \in 1 .. n - 1 /\ GoesTo(h, next, n)
      /\ op = "LOADLOCAL" => arg \in 1 .. n - 1 /\ GoesTo(h, next, n + 1)
      /\ op = "JMP"  => GoesTo(h, next + dist, n)
      /\ op = "NJMP" => GoesTo(h, next - dist, n)
      /\ op = "JMPF" =>
           n >= 2 /\ GoesTo(h, next, n - 1) /\ GoesTo(h, next + dist, n - 1)
      /\ op = "CALL" => n >= arg + 2 /\ GoesTo(h, next, n - arg)
      /\ op = "RETURN" => n >= 2
      /\ op = "WIDE" => <<next, TRUE>> \in DOMAIN h /\ h[<<next, TRUE>>] = n
      /\ op = "HALT" => f = Script /\ n = 1

(* A function begins with itself and its arguments in its frame; a script  *)
(* has no arguments, and does not run past its end.                        *)
IsMap(fs, f, h) ==
  /\ f = Script => fs[f].argc = 0
  /\ DOMAIN h \subseteq Nat \X BOOLEAN
  /\ \A p \in DOMAIN h : h[p] \in Nat \ {0}
  /\ GoesTo(h, 0, fs[f].argc + 1)
  /\ \A p \in DOMAIN h :
       \/ p[1] = Len(fs[f].code) /\ f # Script
       \/ /\ p[1] + 1 <= Len(fs[f].code) /\ NextAt(fs[f].code, p) <= Len(fs[f].code)
          /\ Flows(fs, f, h, p)

Mapped(fs) == \E hs : \A f \in FunctionIds : IsMap(fs, f, hs[f])

(* Code that does not end without a return; and that does not calculate    *)
(* either.                                                                 *)
Calculations == {"ADD", "SUB", "MUL", "DIV", "IDIV", "MOD", "NEG"}

Returning(fs, f, h) == \A p \in DOMAIN h : p[1] # Len(fs[f].code)

IsCalm(fs, f, h) ==
  /\ Returning(fs, f, h)
  /\ \A p \in DOMAIN h : OpAt(fs[f].code, p[1]) \notin Calculations

Returns(fs) ==
  \E hs : \A f \in FunctionIds : IsMap(fs, f, hs[f]) /\ Returning(fs, f, hs[f])
Calm(fs) ==
  \E hs : \A f \in FunctionIds : IsMap(fs, f, hs[f]) /\ IsCalm(fs, f, hs[f])

-----------------------------------------------------------------------------
(* The machine in step with its code.                                      *)

(* Whatever has happened. *)
Grounded ==
  /\ OneStack /\ CallBinding /\ FramesNested
  /\ IF frames = <<>> THEN stack.size = 0 ELSE frames[1].base = 0
  /\ \A i \in DOMAIN frames : frames[i].gen <= stack.gen
  /\ \A s \in Readable : globals[s] = Absent \/ Clean(globals[s])

(* The cells of a frame end where the next one's begin, at the function    *)
(* that was called.                                                        *)
End(i)   == IF i = Len(frames) THEN stack.size ELSE frames[i + 1].base + 1
Place(i) == <<frames[i].ip, i = Len(frames) /\ wide>>

(* Each frame above the low ones, the script's and those of the functions  *)
(* it has called, has as many cells as its map says.                       *)
InStep(hs, low) ==
  /\ low \in Nat /\ low < Len(frames)
  /\ \A f \in FunctionIds : IsMap(functions, f, hs[f])
  /\ \A i \in low + 1 .. Len(frames) :
       /\ Place(i) \in DOMAIN hs[frames[i].fn]
       /\ End(i) = frames[i].base + hs[frames[i].fn][Place(i)]
       /\ frames[i].fn = Script <=> i = low + 1
  /\ \A c \in frames[low + 1].base + 1 .. stack.size - 1 : Clean(Cell(stack, c))
=============================================================================
