------------------------------ MODULE Bytecode ------------------------------
(***************************************************************************)
(* The instruction set (opcodes.h) and its encoding (chunk.c, chunk.h).    *)
(* A code array is a sequence of bytes; offsets are those of the C code,   *)
(* which start at 0.                                                       *)
(***************************************************************************)
EXTENDS Integers, Sequences

CONSTANT Byte    \* the number of values of a byte: 256

(* The OpCode enumeration, in its order. *)
OpNames ==
  <<"CONSTANT", "CONSTANT_LONG",
    "ADD", "MUL", "SUB", "DIV", "MOD", "IDIV", "NEG", "NOT", "POW",
    "AND", "OR", "GE", "LE", "GT", "LT", "EQ", "CONCAT",
    "JMP", "JMPF", "NJMP",
    "SETLOCAL", "SETGLOBAL", "LOADLOCAL", "LOADGLOBAL",
    "CALL", "PRINT", "RETURN", "POP", "WIDE", "HALT">>

ASSUME BytecodeAssumption == Byte \in Nat /\ Byte >= Len(OpNames)

Opcode(name) == (CHOOSE i \in DOMAIN OpNames : OpNames[i] = name) - 1

(* UINT8_MAX and UINT16_MAX *)
MaxByte  == Byte - 1
MaxShort == Byte * Byte - 1

(* The byte at a C offset. *)
ByteAt(code, offset) == code[offset + 1]

OpAt(code, offset) == OpNames[ByteAt(code, offset) + 1]

(* read_short: the high byte comes first. *)
ShortAt(code, offset) == Byte * ByteAt(code, offset) + ByteAt(code, offset + 1)

(* from_u24 and read_u24: the low byte comes first. *)
U24At(code, offset) ==
  ByteAt(code, offset) + Byte * ByteAt(code, offset + 1)
                       + Byte * Byte * ByteAt(code, offset + 2)

(* to_u24 keeps 24 bits. *)
U24Bytes(n) == <<n % Byte, (n \div Byte) % Byte, (n \div (Byte * Byte)) % Byte>>

-----------------------------------------------------------------------------
(* Encoding. *)

(* raw_write_constant *)
ConstantCode(index) ==
  IF index <= MaxByte
  THEN <<Opcode("CONSTANT"), index>>
  ELSE <<Opcode("CONSTANT_LONG")>> \o U24Bytes(index)

(* var: an operand above a byte is announced by WIDE. *)
OperandCode(op, index) ==
  IF index <= MaxByte
  THEN <<Opcode(op), index>>
  ELSE <<Opcode("WIDE"), Opcode(op)>> \o U24Bytes(index)

(* emit_jump: the offset is filled in by patch_jump. *)
JumpCode(op) == <<Opcode(op), MaxByte, MaxByte>>

(* patch_jump: the distance from behind the operand to the end of the code. *)
PatchedDistance(code, offset) == Len(code) - offset - 2

Patched(code, offset) ==
  LET d == PatchedDistance(code, offset)
  IN  [code EXCEPT ![offset + 1] = (d \div Byte) % Byte,
                   ![offset + 2] = d % Byte]

-----------------------------------------------------------------------------
(* Decoding. *)

NamedOps == {"SETLOCAL", "SETGLOBAL", "LOADLOCAL", "LOADGLOBAL", "CALL"}
JumpOps  == {"JMP", "JMPF", "NJMP"}

(* The bytes an instruction takes, its opcode included, as vm_execute      *)
(* consumes them.                                                          *)
InstructionLength(op, wide) ==
  CASE op \in NamedOps -> IF wide THEN 4 ELSE 2
    [] op \in JumpOps  -> 3
    [] op = "CONSTANT" -> 2
    [] op = "CONSTANT_LONG" -> 4
    [] OTHER -> 1
=============================================================================
