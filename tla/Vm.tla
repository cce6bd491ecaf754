--------------------------------- MODULE Vm ---------------------------------
(***************************************************************************)
(* The stack machine of interpreter/vm.c: one action per instruction of    *)
(* vm_execute, and Interpret for interpret().                              *)
(*                                                                         *)
(* The machine keeps its stack twice: in the header of the growable array  *)
(* (size, which push and pop maintain) and in the pointer v.stack_top.     *)
(* Calls find the callee through the pointer and place the frame through   *)
(* the size.  A pointer into the stack is a pair: an offset, and the       *)
(* generation of the block it points into (DynArray).                      *)
(*                                                                         *)
(* What C leaves undefined ends the run with status "undefined": a pop of  *)
(* an empty array, an access outside a block or through a pointer into a   *)
(* freed one, the use of a cell nobody wrote, an operator without a        *)
(* result; and an instruction fetched outside the compiled code.           *)
(***************************************************************************)
EXTENDS Bytecode, Values, DynArray

CONSTANTS
  FunctionIds, \* function objects, the script among them
  Programs,    \* what may be interpreted: tables of function objects
  Clock,       \* the string "clock"
  FrameLimit,  \* the frame count at which call() refuses: 64
  Moves,       \* whether realloc may move the stack: a subset of BOOLEAN
  Repl,        \* a REPL session: further lines may follow
  SessionSize  \* bound: no line is typed once the stack holds as many values

Script == 0
FunctionObject == [argc : Nat, code : Seq(0 .. MaxByte), constants : Seq(TValue)]

(* A value as the machine may hold it. *)
Known(v) ==
  /\ v \in TValue
  /\ v.type = "fun" => v.val \in FunctionIds
  /\ v.type = "str" => v.val \in Strings

ASSUME VmAssumption ==
  /\ Script \in FunctionIds /\ FunctionIds \subseteq Int
  /\ \A p \in Programs :
       /\ p \in [FunctionIds -> FunctionObject]
       /\ \A f \in FunctionIds : \A i \in DOMAIN p[f].constants :
            Known(p[f].constants[i])
  /\ Clock \in Strings
  /\ FrameLimit \in Nat \ {0}
  /\ Moves \subseteq BOOLEAN /\ Moves # {}
  /\ Repl \in BOOLEAN
  /\ SessionSize \in Nat \ {0}

VARIABLES
  functions, \* the function objects: arity, code and constants of each;
             \* v.chunk is the script's chunk
  stack,     \* the array v.stack, with top and topGen: the pointer v.stack_top
  frames,    \* v.frames[0 .. frame_count - 1]: fn, ip, and slots (base, gen)
  wide,      \* the WIDE prefix has been read
  globals,   \* v.globals, as the map it implements (module Table)
  status     \* "idle", "run", or how the last run ended

vars == <<functions, stack, frames, wide, globals, status>>

EmptyFunction == [argc |-> 0, code |-> <<>>, constants |-> <<>>]

NoIp   == -1                \* the null ip HALT leaves behind
Absent == Error             \* no global of this name

NewStack ==
  LET a == NewArray(Void)
  IN  [items |-> a.items, size |-> a.size, cap |-> a.cap, gen |-> a.gen,
       top |-> 0, topGen |-> a.gen]

(* vm_init *)
Init ==
  /\ functions = [fn \in FunctionIds |-> EmptyFunction]
  /\ stack = NewStack
  /\ frames = <<>>
  /\ wide = FALSE
  /\ globals = [s \in Strings |-> IF s = Clock THEN NativeV(0) ELSE Absent]
  /\ status = "idle"

-----------------------------------------------------------------------------
(* The macros push and pop. *)

Drop(s, n) == [s EXCEPT !.size = @ - n, !.top = @ - n]
Pop(s)     == Drop(s, 1)

Push(s, v, moved) ==
  Stored(EnsureCapacity([s EXCEPT !.top = @ + 1], 1, Junk, moved), v)

(* The cell a pointer (base, gen) points to. *)
Points(s, base, gen) == gen = s.gen /\ base \in DOMAIN s.items
Cell(s, base) == s.items[base]

-----------------------------------------------------------------------------
(* Fetching. *)

Frame == frames[Len(frames)]
Code  == functions[Frame.fn].code

InCode(n) == Frame.ip >= 0 /\ Frame.ip + n <= Len(Code)
Op        == OpAt(Code, Frame.ip)
Length    == InstructionLength(Op, wide)

Fetched(op) ==
  /\ status = "run"
  /\ InCode(1) /\ Op = op /\ InCode(Length)

(* Mutant: the WIDE prefix is forgotten. *)
NarrowOperand == ByteAt(Code, Frame.ip + 1)

(* read_wide() *)
Operand == IF wide THEN U24At(Code, Frame.ip + 1)
                   ELSE ByteAt(Code, Frame.ip + 1)

(* constants[index], for all code: v.chunk is the script's chunk also      *)
(* while a function runs.  The array was calloc'ed.                        *)
Constants == functions[Script].constants

ConstantAt(i) ==
  IF i < Len(Constants) THEN Constants[i + 1]
  ELSE IF i < INITIAL_CAPACITY THEN Void ELSE Undefined

NameAt(i) == ConstantAt(i).val
IsName(i) == IsString(ConstantAt(i))

-----------------------------------------------------------------------------
(* How an instruction ends: the loop goes on at another ip, errorf() is    *)
(* raised, or the behaviour is undefined.                                  *)

Advanced(ip) == [frames EXCEPT ![Len(frames)].ip = ip]
Following    == Frame.ip + Length

Goto(ip, s) ==
  /\ stack' = s
  /\ frames' = Advanced(ip)
  /\ wide' = FALSE
  /\ UNCHANGED <<functions, globals, status>>

Continue(s) == Goto(Following, s)

Raise(s) ==
  /\ status' = "error"
  /\ stack' = s
  /\ frames' = Advanced(Following)
  /\ wide' = FALSE
  /\ UNCHANGED <<functions, globals>>

CrashWith(s) ==
  /\ status' = "undefined"
  /\ stack' = s
  /\ UNCHANGED <<functions, frames, wide, globals>>

Crash == CrashWith(stack)

(* The end of an operator: its result is pushed, if it has one. *)
Yield(r, s) ==
  CASE r = Undefined -> Crash
    [] r = Error     -> Raise(s)
    [] OTHER         -> Continue(Push(s, r, FALSE))

-----------------------------------------------------------------------------
(* Instructions. *)

(* OP_CONSTANT, OP_CONSTANT_LONG *)
IndexOf(op) == IF op = "CONSTANT" THEN ByteAt(Code, Frame.ip + 1)
                                  ELSE U24At(Code, Frame.ip + 1)

ConstantBy(op) ==
  /\ Fetched(op)
  /\ IF ConstantAt(IndexOf(op)) = Undefined
     THEN Crash
     ELSE \E moved \in Moves :
            Continue(Push(stack, ConstantAt(IndexOf(op)), moved))

Constant == ConstantBy("CONSTANT") \/ ConstantBy("CONSTANT_LONG")

(* The operators that pop b, then a, and push a result. *)
BinaryOperator ==
  \E op \in BinaryOps :
    /\ Fetched(op)
    /\ IF stack.size < 2
       THEN Crash
       ELSE LET b == Last(stack)
                a == Last(Pop(stack))
            IN  \E r \in Binary(op, a, b) : Yield(r, Drop(stack, 2))

(* OP_NEG, OP_NOT *)
UnaryOperator ==
  \E op \in {"NEG", "NOT"} :
    /\ Fetched(op)
    /\ IF stack.size < 1
       THEN Crash
       ELSE \E r \in Unary(op, Last(stack)) : Yield(r, Pop(stack))

(* print_value has no case for natives, and a script has no name. *)
Printable(v) == v.type # "native" /\ v # FunV(Script)

PrintValue ==
  /\ Fetched("PRINT")
  /\ IF stack.size < 1 \/ ~Printable(Last(stack))
     THEN Crash
     ELSE Continue(Pop(stack))

PopValue ==
  /\ Fetched("POP")
  /\ IF stack.size < 1 THEN Crash ELSE Continue(Pop(stack))

(* The value is popped, stored under the name and pushed back. *)
SetGlobal ==
  /\ Fetched("SETGLOBAL")
  /\ IF stack.size < 1 \/ ~IsName(Operand)
     THEN Crash
     ELSE /\ globals' = [globals EXCEPT ![NameAt(Operand)] = Last(stack)]
          /\ stack' = Push(Pop(stack), Last(stack), FALSE)
          /\ frames' = Advanced(Following)
          /\ wide' = FALSE
          /\ UNCHANGED <<functions, status>>

LoadGlobal ==
  /\ Fetched("LOADGLOBAL")
  /\ IF ~IsName(Operand)
     THEN Crash
     ELSE LET value == globals[NameAt(Operand)]
          IN  IF value = Absent
              THEN Raise(stack)
              ELSE \E moved \in Moves : Continue(Push(stack, value, moved))

(* frame->slots[index] = the last value, which stays on the stack. *)
SetLocal ==
  /\ Fetched("SETLOCAL")
  /\ LET at == Frame.base + Operand
     IN  IF stack.size < 1 \/ ~Points(stack, at, Frame.gen)
         THEN Crash
         ELSE Continue([stack EXCEPT !.items[at] = Last(stack)])

(* The slot is read after the stack has grown: a moved stack leaves        *)
(* frame->slots behind.                                                    *)
LoadLocal ==
  /\ Fetched("LOADLOCAL")
  /\ \E moved \in Moves :
       LET grown == EnsureCapacity(stack, 1, Junk, moved)
           at    == Frame.base + Operand
       IN  IF ~Points(grown, at, Frame.gen) \/ Cell(grown, at) = Junk
           THEN CrashWith(grown)
           ELSE Continue(Push(stack, Cell(grown, at), moved))

(* OP_JMP, OP_NJMP, OP_JMPF: offsets count from the next instruction.      *)
Jump ==
  LET distance == ShortAt(Code, Frame.ip + 1) IN
    \/ Fetched("JMP")  /\ Goto(Following + distance, stack)
    \/ Fetched("NJMP") /\ Goto(Following - distance, stack)
    \/ /\ Fetched("JMPF")
       /\ IF stack.size < 1
          THEN Crash
          ELSE Goto(IF IsTruth(Last(stack)) THEN Following
                                            ELSE Following + distance,
                    Pop(stack))

(* Mutants of call(): no frame limit; the callee is not counted, or is     *)
(* counted twice.                                                          *)
EnterAt(f, argc, base, limit) ==
  IF argc # functions[f].argc \/ Len(frames) = limit
  THEN Raise(stack)
  ELSE /\ frames' = Append(Advanced(Following),
                           [fn |-> f, ip |-> 0, base |-> base, gen |-> stack.gen])
       /\ wide' = FALSE
       /\ UNCHANGED <<functions, stack, globals, status>>
EnterWithoutLimit(f, argc) == EnterAt(f, argc, stack.size - argc - 1, -1)
EnterAboveCallee(f, argc)  == EnterAt(f, argc, stack.size - argc, FrameLimit)
EnterBelowCallee(f, argc)  == EnterAt(f, argc, stack.size - argc - 2, FrameLimit)

(* call(): the frame's slots start at the cell argc + 1 below the size.    *)
EnterFunction(f, argc) ==
  IF argc # functions[f].argc \/ Len(frames) = FrameLimit
  THEN Raise(stack)
  ELSE /\ frames' = Append(Advanced(Following),
                           [fn |-> f, ip |-> 0,
                            base |-> stack.size - argc - 1, gen |-> stack.gen])
       /\ wide' = FALSE
       /\ UNCHANGED <<functions, stack, globals, status>>

(* Mutant: the native itself is not taken off. *)
CallNativeKept(argc) ==
  \E moved \in Moves :
    Continue(Push([stack EXCEPT !.top = @ - argc], IntV(0), moved))

(* A native's arguments and the native itself are taken off v.stack_top    *)
(* only; its result is pushed on both.  clock() answers a small integer.   *)
CallNative(argc) ==
  \E moved \in Moves :
    Continue(Push([stack EXCEPT !.top = @ - (argc + 1)], IntV(0), moved))

Call ==
  /\ Fetched("CALL")
  /\ LET argc == Operand
         at   == stack.top - 1 - argc
     IN  IF ~Points(stack, at, stack.topGen) \/ Cell(stack, at) = Junk
         THEN Crash
         ELSE LET callee == Cell(stack, at)
              IN  CASE callee.type = "fun"    -> EnterFunction(callee.val, argc)
                    [] callee.type = "native" -> CallNative(argc)
                    [] OTHER                  -> Raise(stack)

(* The last frame's return empties the stack and ends the run.             *)
ReturnFromScript ==
  /\ Fetched("RETURN")
  /\ Len(frames) = 1
  /\ IF stack.size < 1
     THEN Crash
     ELSE /\ stack' = [stack EXCEPT !.size = 0, !.top = 0, !.topGen = stack.gen]
          /\ frames' = <<>>
          /\ status' = "returned"
          /\ UNCHANGED <<functions, wide, globals>>

(* Mutant: one value too many is popped. *)
ReturnPopsOneMore ==
  /\ Fetched("RETURN") /\ Len(frames) > 1
  /\ LET diff == stack.top - Frame.base
     IN  /\ stack.size > diff
         /\ stack' = Push([stack EXCEPT !.size = @ - 1 - diff, !.top = Frame.base,
                                        !.topGen = Frame.gen], Last(stack), FALSE)
  /\ frames' = SubSeq(frames, 1, Len(frames) - 1)
  /\ wide' = FALSE
  /\ UNCHANGED <<functions, globals, status>>

(* Another frame's return pops as many values as v.stack_top stands above  *)
(* the frame's slots, moves v.stack_top there and pushes the result.       *)
Return ==
  /\ Fetched("RETURN")
  /\ Len(frames) > 1
  /\ LET above == stack.top - 1 - Frame.base
         diff  == IF above > 0 THEN above ELSE 0
     IN  IF \/ stack.size < 1 + diff
            \/ stack.topGen # Frame.gen
         THEN Crash
         ELSE LET left == [stack EXCEPT !.size = @ - 1 - diff,
                                        !.top = Frame.base,
                                        !.topGen = Frame.gen]
              IN  /\ stack' = Push(left, Last(stack), FALSE)
                  /\ frames' = SubSeq(frames, 1, Len(frames) - 1)
                  /\ wide' = FALSE
                  /\ UNCHANGED <<functions, globals, status>>

Wide ==
  /\ Fetched("WIDE")
  /\ wide' = TRUE
  /\ frames' = Advanced(Following)
  /\ UNCHANGED <<functions, stack, globals, status>>

(* The frame and the function value below it stay where they are. *)
Halt ==
  /\ Fetched("HALT")
  /\ status' = "halted"
  /\ frames' = Advanced(NoIp)
  /\ UNCHANGED <<functions, stack, wide, globals>>

(* ip has left the code, or was never in it. *)
Overrun ==
  /\ status = "run"
  /\ ~(InCode(1) /\ InCode(Length))
  /\ Crash

(* interpret(): the script is pushed and called. *)
Rested == {"halted", "returned", "error"}

MayInterpret ==
  /\ status = "idle" \/ (Repl /\ status \in Rested)
  /\ stack.size < SessionSize

(* Mutants: the slots begin above the script; the frame limit is not       *)
(* looked at.                                                              *)
InterpretAt(fs, above, limit) ==
  /\ MayInterpret
  /\ functions' = fs
  /\ wide' = FALSE
  /\ stack' = Push(stack, FunV(Script), FALSE)
  /\ Len(frames) # limit
  /\ status' = "run"
  /\ frames' = Append(frames, [fn |-> Script, ip |-> 0,
                               base |-> stack.size + above, gen |-> stack'.gen])
  /\ UNCHANGED globals
InterpretAboveScript(fs)  == InterpretAt(fs, 1, FrameLimit)
InterpretWithoutLimit(fs) == InterpretAt(fs, 0, -1)

InterpretFunction(fs) ==
  /\ MayInterpret
  /\ functions' = fs
  /\ wide' = FALSE
  /\ \E moved \in Moves : stack' = Push(stack, FunV(Script), moved)
  /\ IF Len(frames) = FrameLimit
     THEN status' = "error" /\ UNCHANGED frames
     ELSE /\ status' = "run"
          /\ frames' = Append(frames, [fn |-> Script, ip |-> 0,
                                       base |-> stack'.size - 1,
                                       gen |-> stack'.gen])
  /\ UNCHANGED globals

Interpret == \E fs \in Programs : InterpretFunction(fs)

Step ==
  \/ Constant \/ BinaryOperator \/ UnaryOperator
  \/ PrintValue \/ PopValue
  \/ SetGlobal \/ LoadGlobal \/ SetLocal \/ LoadLocal
  \/ Jump
  \/ Call \/ ReturnFromScript \/ Return
  \/ Wide \/ Halt \/ Overrun

Next == Interpret \/ Step

(* vm_execute runs until it returns: nothing else happens meanwhile.       *)
Spec == Init /\ [][Next]_vars /\ WF_vars(Step)

-----------------------------------------------------------------------------
(* Properties.                                                             *)

FrameType == [fn : FunctionIds, ip : Int, base : Int, gen : Nat]

FunctionsOK ==
  /\ functions \in [FunctionIds -> FunctionObject]
  /\ \A i \in DOMAIN Constants : Known(Constants[i])

StackFields == {"items", "size", "cap", "gen", "top", "topGen"}
IsStack(s) == s = [f \in StackFields |-> s[f]]

StackOK(s) ==
  /\ IsStack(s)
  /\ s.cap \in Nat /\ s.cap >= 2 /\ s.size \in 0 .. s.cap
  /\ s.items \in [0 .. s.cap - 1 -> TValue]
  /\ \A i \in 0 .. s.cap - 1 : Known(s.items[i])
  /\ s.gen \in Nat /\ s.topGen \in 0 .. s.gen /\ s.top \in Int

TypeOK ==
  /\ FunctionsOK
  /\ StackOK(stack)
  /\ frames \in Seq(FrameType) /\ Len(frames) <= FrameLimit
  /\ wide \in BOOLEAN
  /\ DOMAIN globals = Strings
  /\ \A s \in Strings : Known(globals[s]) \/ globals[s] = Absent
  /\ status \in {"idle", "run", "halted", "returned", "error", "undefined"}
  /\ status = "run" => frames # <<>>

(* The slots of a frame begin at the function it executes, however deep    *)
(* the calls are nested and however the stack has grown since: call_value  *)
(* finds the callee through v.stack_top, call() counts the slots back from *)
(* the array's size (vm.c:94, 167).                                        *)
CallBinding ==
  \A i \in DOMAIN frames :
    /\ frames[i].base \in 0 .. stack.size - 1
    /\ Cell(stack, frames[i].base) = FunV(frames[i].fn)

(* Frames lie above one another: no function sees its caller's slots       *)
(* through its own.                                                        *)
FramesNested ==
  \A i, j \in DOMAIN frames : i < j => frames[i].base < frames[j].base

(* v.stack_top and the array's size describe the same stack. *)
OneStack == stack.top = stack.size

(* A return leaves the caller's part of the stack as it was at the call,   *)
(* with the result where the callee was (vm.c:190-197).                    *)
ReturnRestores ==
  [][Len(frames') < Len(frames) /\ Len(frames') > 0 =>
       /\ stack'.size = Frame.base + 1
       /\ stack'.items[Frame.base] = Last(stack)
       /\ \A i \in 0 .. Frame.base - 1 : stack'.items[i] = stack.items[i]
    ]_vars

(* A program runs into nothing undefined.                                  *)
NeverUndefined == status # "undefined"

(* Code without loops ends, also when functions call themselves for ever:  *)
(* the frame limit stops them (vm.c:86).                                   *)
Terminates == status = "run" ~> status # "run"

(* Every statement leaves the stack as it found it: a script that ends     *)
(* leaves nothing on it but itself.                                        *)
Balanced == status = "halted" => stack.size = Len(frames)

(* How far v.stack_top has fallen behind the array's size. *)
Lag == stack.size - stack.top

(* Only the call of a native lets the pointer fall behind, by the native   *)
(* and its arguments, and only a return brings it closer again             *)
(* (vm.c:107-112, 185, 190-197).                                           *)
LagStep ==
  Lag' # Lag =>
    \/ /\ Op = "CALL"
       /\ Lag' = Lag + Operand + 1
       /\ Cell(stack, stack.top - 1 - Operand).type = "native"
    \/ Op = "RETURN" /\ (Lag' < Lag \/ status' = "returned")
LagSteps == [][LagStep]_vars

(* An integer operation whose exact result is no integer of the machine,   *)
(* the quotient that goes with a remainder included.                       *)
Overflows ==
  /\ InCode(1) /\ stack.size >= 1 /\ IsInt(Last(stack))
  /\ LET j == Last(stack).val IN
       \/ Op = "NEG" /\ -j \notin IntMin .. IntMax
       \/ /\ stack.size >= 2 /\ IsInt(Last(Pop(stack)))
          /\ LET i == Last(Pop(stack)).val IN
               \/ Op = "ADD" /\ i + j \notin IntMin .. IntMax
               \/ Op = "SUB" /\ i - j \notin IntMin .. IntMax
               \/ Op = "MUL" /\ i * j \notin IntMin .. IntMax
               \/ /\ Op \in {"DIV", "IDIV", "MOD"}
                  /\ \A q \in IntMin .. IntMax, r \in IntMin .. IntMax :
                       i = q * j + r => Magnitude(r) >= Magnitude(j) \/ r * i < 0

(* A pointer that the instruction follows leads into a block that realloc  *)
(* has left: the frame's slots, or v.stack_top.                            *)
StalePointer ==
  \/ Op \in {"LOADLOCAL", "SETLOCAL"} /\ Frame.gen # stack.gen
  \/ Op = "CALL" /\ stack.topGen # stack.gen

(* A function's index into its own constants is none, or none of a name,   *)
(* in the script's, where the machine looks it up.                         *)
ForeignConstant ==
  /\ Frame.fn # Script
  /\ \/ Op \in {"CONSTANT", "CONSTANT_LONG"} /\ IndexOf(Op) >= Len(Constants)
     \/ Op \in {"SETGLOBAL", "LOADGLOBAL"} /\ ~IsName(Operand)

(* The last value is a native and has no text; the one before the last is  *)
(* a void, which is equal to nothing.                                      *)
NativePrinted == Op = "PRINT" /\ Last(stack).type = "native"
VoidCompared  == Op \in ComparisonOps /\ Last(Pop(stack)).type = "void"

(* What the machine relies on and does not check.                          *)
Unchecked ==
  \/ Frame.ip = Len(Code) /\ Frame.fn # Script
  \/ /\ InCode(1)
     /\ \/ StalePointer
        \/ ForeignConstant
        \/ NativePrinted
        \/ VoidCompared
        \/ Overflows

(* Where code that keeps the stack in step with itself (StackMaps) runs    *)
(* into something undefined, whatever natives it has called and however    *)
(* often the stack has moved: behind a function without a return           *)
(* (parser.c:478-505), or at an instruction that follows a stale pointer   *)
(* (vm.c:167, 279, 286), is given a function's index (vm.c:25), prints a   *)
(* native, compares a void on the left (value.c:114), or calculates what   *)
(* is no integer (vm.c:296-426, 500-514).  Every other pop, slot, callee   *)
(* and constant is there, also once v.stack_top lags behind the array; and *)
(* a return never subtracts pointers into different blocks (vm.c:190).     *)
UndefinedOnlyAt == status = "undefined" => Unchecked
=============================================================================
