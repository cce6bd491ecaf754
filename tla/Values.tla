------------------------------- MODULE Values -------------------------------
(***************************************************************************)
(* Tagged values (value.h, value.c) and the operators vm.c applies to      *)
(* them.  The payload is an integer: the value of an int, the identity of  *)
(* a double, of an interned string, of a function or of a native.  What a  *)
(* double operation or a concatenation yields is left open (any member of  *)
(* Numbers, of Strings): no control flow but truth and comparison depends  *)
(* on it.                                                                  *)
(*                                                                         *)
(* An operator returns the SET of results it may have.  Two results are    *)
(* not values: Error (the operator raises a runtime error) and Undefined   *)
(* (the C expression has no defined result: signed overflow, division by   *)
(* zero, unreachable()).                                                   *)
(***************************************************************************)
EXTENDS Integers

CONSTANTS
  IntMax,     \* HAW_INT_MAX; HAW_INT_MIN is -IntMax - 1
  Numbers,    \* identities of doubles, 0 being 0.0
  Strings     \* identities of interned strings

ASSUME ValuesAssumption ==
  /\ IntMax \in Nat
  /\ Numbers \subseteq Int
  /\ Strings \subseteq Int

IntMin == -IntMax - 1

Void       == [type |-> "void",   val |-> 0]
IntV(i)    == [type |-> "int",    val |-> i]
NumV(n)    == [type |-> "num",    val |-> n]
StrV(s)    == [type |-> "str",    val |-> s]
FunV(f)    == [type |-> "fun",    val |-> f]
NativeV(n) == [type |-> "native", val |-> n]

(* What a cell holds that realloc added and nobody wrote. *)
Junk      == [type |-> "junk",      val |-> 0]
Error     == [type |-> "error",     val |-> 0]
Undefined == [type |-> "undefined", val |-> 0]

TValue == [type : {"void", "int", "num", "str", "fun", "native", "junk"},
           val  : Int]

(* HAW_TOBJECT covers the three object types. *)
IsObject(v)   == v.type \in {"str", "fun", "native"}
IsInt(v)      == v.type = "int"
IsString(v)   == v.type = "str"
IsRational(v) == v.type \in {"int", "num"}

(* v_istruth *)
IsTruth(v) == IsObject(v) \/ (IsRational(v) /\ v.val # 0)

Bool(b) == IntV(IF b THEN 1 ELSE 0)

-----------------------------------------------------------------------------
(* Comparison. *)

HasZeroBits(b) == b.type = "void" \/ b = NumV(0)

(* valueeq's outcomes.  The macro t_issame(a, b) is (valid) && (same), so  *)
(* that !t_issame(a, b) is (!valid) && (same): for values of different     *)
(* types valueeq goes on and reads the right one's bits as if it had the   *)
(* left one's type.  A void and 0.0 hold zero bits; otherwise such bits    *)
(* may agree or not.  There is no case for a void on the left.             *)
EqualOutcomes(a, b) ==
  CASE a.type \in {"fun", "native"}          -> {FALSE}
    [] IsRational(a) /\ HasZeroBits(b)       -> {a.val = 0}
    [] a.type = b.type                       -> {a.val = b.val}
    [] OTHER                                 -> BOOLEAN

HasEquality(a) == a.type \notin {"void", "junk"}

(* valuecmp, by its result codes: 0 is "equal", -1 "left", 1 "right", -2   *)
(* "object", -3 "none".                                                    *)
Order(a, b) ==
  CASE IsRational(a) /\ IsRational(b) -> IF a.val > b.val THEN "left" ELSE "right"
    [] ~(IsRational(a) /\ IsRational(b)) /\ (IsObject(a) \/ IsObject(b)) -> "object"
    [] OTHER -> "none"

Compared(a, b) ==
  {IF eq THEN "equal" ELSE Order(a, b) : eq \in EqualOutcomes(a, b)}

(* compopr: which result codes make the operator true. *)
TrueOn(op) ==
  CASE op = "EQ" -> {"equal"}
    [] op = "GE" -> {"equal", "left"}
    [] op = "GT" -> {"left"}
    [] op = "LE" -> {"equal", "right"}
    [] op = "LT" -> {"right"}

Comparison(op, a, b) ==
  IF HasEquality(a)
  THEN {IF c = "none" THEN Error ELSE Bool(c \in TrueOn(op)) : c \in Compared(a, b)}
  ELSE {Undefined}

-----------------------------------------------------------------------------
(* Arithmetic. *)

Magnitude(i) == IF i < 0 THEN -i ELSE i

(* C division truncates towards zero; the remainder has the sign of i. *)
Quotient(i, j) ==
  LET q == Magnitude(i) \div Magnitude(j)
  IN  IF (i < 0) = (j < 0) THEN q ELSE -q

IntResult(i) == IF i \in IntMin .. IntMax THEN {IntV(i)} ELSE {Undefined}

IntArithmetic(op, i, j) ==
  CASE op = "ADD" -> IntResult(i + j)
    [] op = "SUB" -> IntResult(i - j)
    [] op = "MUL" -> IntResult(i * j)
    [] op \in {"DIV", "IDIV", "MOD"} ->
         IF j = 0 \/ (i = IntMin /\ j = -1)
         THEN {Undefined}
         ELSE {IntV(IF op = "MOD" THEN i - j * Quotient(i, j)
                                  ELSE Quotient(i, j))}

SomeNumber == {NumV(n) : n \in Numbers}
SomeString == {StrV(s) : s \in Strings}

Arithmetic(op, a, b) ==
  CASE IsInt(a) /\ IsInt(b) /\ op # "POW" -> IntArithmetic(op, a.val, b.val)
    [] IsRational(a) /\ IsRational(b) /\ ~(IsInt(a) /\ IsInt(b) /\ op # "POW")
         -> SomeNumber
    [] op = "MUL" /\ IsString(a) /\ IsInt(b)
         -> IF b.val < 1 THEN {Error} ELSE SomeString
    [] OTHER -> {Error}

ArithmeticOps == {"ADD", "SUB", "MUL", "DIV", "MOD", "IDIV", "POW"}
ComparisonOps == {"EQ", "GE", "GT", "LE", "LT"}
LogicOps      == {"AND", "OR"}
BinaryOps     == ArithmeticOps \cup ComparisonOps \cup LogicOps \cup {"CONCAT"}

(* Both operands of AND and OR have been evaluated: nothing is skipped. *)
Binary(op, a, b) ==
  CASE op \in ArithmeticOps -> Arithmetic(op, a, b)
    [] op \in ComparisonOps -> Comparison(op, a, b)
    [] op = "AND"    -> {Bool(IsTruth(a) /\ IsTruth(b))}
    [] op = "OR"     -> {Bool(IsTruth(a) \/ IsTruth(b))}
    [] op = "CONCAT" -> IF IsString(a) /\ IsString(b) THEN SomeString
                                                      ELSE {Error}

Unary(op, a) ==
  CASE op = "NOT" -> {Bool(~IsTruth(a))}
    [] op = "NEG" /\ IsInt(a)      -> IntResult(-a.val)
    [] op = "NEG" /\ a.type = "num" -> SomeNumber
    [] op = "NEG" /\ ~IsRational(a) -> {Error}
=============================================================================
