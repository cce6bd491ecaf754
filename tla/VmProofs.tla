------------------------------ MODULE VmProofs ------------------------------
(***************************************************************************)
(* Proofs about Vm.  First for every set of programs, every byte code in   *)
(* them, every limit and whatever realloc does; then about a machine whose *)
(* code has stack maps: it keeps its calls bound and its frames above one  *)
(* another, and nothing undefined happens to it but for what its code      *)
(* cannot know.                                                            *)
(***************************************************************************)
EXTENDS StackMaps, SequenceTheorems, TLAPS

USE DEF Script


-----------------------------------------------------------------------------
(* The stack: growing, pushing and dropping keep it well formed.           *)

(* Growing the array changes neither its size nor the pointer beside it,   *)
(* and leaves room for one more value (array.c:35-61).                     *)
LEMMA GrownStack ==
  ASSUME NEW s, StackOK(s), NEW moved \in BOOLEAN
  PROVE  LET g == EnsureCapacity(s, 1, Junk, moved)
         IN  /\ StackOK(g)
             /\ g.size = s.size /\ g.top = s.top /\ g.topGen = s.topGen
             /\ g.size < g.cap
<1>. DEFINE c == GrownCapacity(s.cap, s.size + 1)
            g == EnsureCapacity(s, 1, Junk, moved)
<1>1. CASE ~(s.cap < s.size + 1)
  <2>1. g = s  BY <1>1 DEF EnsureCapacity
  <2>. QED  BY <2>1, <1>1 DEF StackOK
<1>2. CASE s.cap < s.size + 1
  <2>1. c = s.cap * 2
    BY <1>2 DEF GrownCapacity, Doubled, StackOK
  <2>2. g = Realloc(s, c, Junk, moved)
    BY <1>2 DEF EnsureCapacity
  <2>3. Known(Junk)  BY DEF Known, Junk, TValue
  <2>4. c \in Nat /\ c > s.cap /\ c > s.size + 0 /\ s.cap \in Nat /\ c >= 2
    BY <2>1, <1>2 DEF StackOK
  <2>5. /\ IsStack(g)
        /\ g.cap = c /\ g.size = s.size /\ g.top = s.top /\ g.topGen = s.topGen
        /\ g.gen \in {s.gen, s.gen + 1}
        /\ g.items = [i \in 0 .. c - 1 |-> IF i < s.cap THEN s.items[i] ELSE Junk]
    <3>1. IsStack(s)  BY DEF StackOK
    <3>. QED  BY <2>2, <3>1 DEF Realloc, IsStack, StackFields
  <2>6. \A i \in 0 .. c - 1 : Known(g.items[i]) /\ g.items[i] \in TValue
    <3>1. \A i \in 0 .. s.cap - 1 : Known(s.items[i])  BY DEF StackOK
    <3>2. ASSUME NEW i \in 0 .. c - 1  PROVE Known(g.items[i])
      <4>1. CASE i < s.cap
        <5>1. i \in 0 .. s.cap - 1  BY <4>1, <2>4
        <5>2. g.items[i] = s.items[i]  BY <4>1, <2>5
        <5>. QED  BY <3>1, <5>1, <5>2
      <4>2. CASE ~(i < s.cap)
        <5>1. g.items[i] = Junk  BY <4>2, <2>5
        <5>. QED  BY <2>3, <5>1
      <4>. QED  BY <4>1, <4>2
    <3>. QED  BY <3>2 DEF Known
  <2>7. g.items \in [0 .. c - 1 -> TValue]
    BY <2>5, <2>6
  <2>8. /\ s.size \in 0 .. s.cap /\ s.gen \in Nat /\ s.topGen \in 0 .. s.gen
        /\ s.top \in Int
    BY DEF StackOK
  <2>9. /\ g.size \in 0 .. g.cap /\ g.gen \in Nat /\ g.topGen \in 0 .. g.gen
        /\ g.cap \in Nat /\ g.cap >= 2 /\ g.size < g.cap
    BY <2>4, <2>5, <2>8
  <2>. QED  BY <2>5, <2>6, <2>7, <2>8, <2>9, Zenon DEF StackOK
<1>. QED  BY <1>1, <1>2

(* A push raises the pointer first. *)
LEMMA RaisedStack ==
  ASSUME NEW s, StackOK(s)
  PROVE  LET r == [s EXCEPT !.top = @ + 1]
         IN  StackOK(r) /\ r.size = s.size /\ r.top = s.top + 1
<1>. DEFINE r == [s EXCEPT !.top = @ + 1]
<1>1. /\ IsStack(r)
      /\ r.size = s.size /\ r.top = s.top + 1 /\ r.cap = s.cap
      /\ r.gen = s.gen /\ r.topGen = s.topGen /\ r.items = s.items
  <2>1. IsStack(s)  BY DEF StackOK
  <2>. QED  BY <2>1 DEF IsStack, StackFields
<1>. HIDE DEF r
<1>2. StackOK(r)  BY <1>1 DEF StackOK
<1>. QED  BY <1>1, <1>2 DEF r

(* push: one value more, for the array and for the pointer.                *)
LEMMA PushedStack ==
  ASSUME NEW s, StackOK(s), NEW v, Known(v), NEW moved \in BOOLEAN
  PROVE  LET p == Push(s, v, moved)
         IN  StackOK(p) /\ p.size = s.size + 1 /\ p.top = s.top + 1
<1>. DEFINE r == [s EXCEPT !.top = @ + 1]
            g == EnsureCapacity(r, 1, Junk, moved)
            p == Push(s, v, moved)
<1>1. StackOK(r) /\ r.size = s.size /\ r.top = s.top + 1
  BY RaisedStack
<1>2. StackOK(g) /\ g.size = r.size /\ g.top = r.top /\ g.size < g.cap
  BY <1>1, GrownStack
<1>3. p = [g EXCEPT !.items[g.size] = v, !.size = @ + 1]
  BY DEF Push, Stored
<1>4. /\ IsStack(p)
      /\ p.size = g.size + 1 /\ p.top = g.top /\ p.cap = g.cap
      /\ p.gen = g.gen /\ p.topGen = g.topGen
      /\ p.items = [g.items EXCEPT ![g.size] = v]
  <2>1. IsStack(g)  BY <1>2 DEF StackOK
  <2>. QED  BY <1>3, <2>1 DEF IsStack, StackFields
<1>5. v \in TValue  BY DEF Known
<1>6. p.items \in [0 .. p.cap - 1 -> TValue] /\ \A i \in 0 .. p.cap - 1 : Known(p.items[i])
  BY <1>2, <1>4, <1>5 DEF StackOK
<1>7. /\ p.size \in 0 .. p.cap /\ p.size = s.size + 1 /\ p.top = s.top + 1
      /\ p.top \in Int
  <2>1. /\ s.size \in Nat /\ s.top \in Int
        /\ g.cap \in Nat /\ g.size \in Nat
    BY <1>2 DEF StackOK
  <2>. QED  BY <1>1, <1>2, <1>4, <2>1
<1>8. /\ p.cap \in Nat /\ p.cap >= 2 /\ p.gen \in Nat /\ p.topGen \in 0 .. p.gen
  BY <1>2, <1>4 DEF StackOK
<1>. QED  BY <1>4, <1>6, <1>7, <1>8, Zenon DEF StackOK

(* pop, n times. *)
LEMMA DroppedStack ==
  ASSUME NEW s, StackOK(s), NEW n \in Nat, n <= s.size
  PROVE  LET d == Drop(s, n)
         IN  StackOK(d) /\ d.size = s.size - n /\ d.top = s.top - n
<1>. DEFINE d == Drop(s, n)
<1>1. /\ d.items = s.items /\ d.size = s.size - n /\ d.cap = s.cap
      /\ d.gen = s.gen /\ d.top = s.top - n /\ d.topGen = s.topGen
      /\ IsStack(d)
  <2>1. IsStack(s)  BY DEF StackOK
  <2>. QED  BY <2>1 DEF IsStack, StackFields, Drop
<1>. QED  BY <1>1 DEF StackOK

(* The last value of a stack that is not empty. *)
LEMMA LastKnown ==
  ASSUME NEW s, StackOK(s), s.size >= 1
  PROVE  Known(Last(s)) /\ Last(s) \in TValue
BY DEF StackOK, Last, Known

-----------------------------------------------------------------------------
(* What the operators of values.c and vm.c yield.                          *)

Outcome(r) == Known(r) \/ r = Error \/ r = Undefined

(* Integers, numbers and strings are values the machine may hold.          *)
LEMMA ResultsKnown ==
  /\ Known(Void)
  /\ \A i \in Int : Known(IntV(i))
  /\ \A r \in SomeNumber \cup SomeString : Known(r)
BY ValuesAssumption
   DEF Known, TValue, Void, IntV, NumV, StrV, SomeNumber, SomeString

(* C division of integers yields an integer.                               *)
LEMMA QuotientInt ==
  ASSUME NEW i \in Int, NEW j \in Int, j # 0
  PROVE  Quotient(i, j) \in Int
<1>1. Magnitude(i) \in Nat /\ Magnitude(j) \in Nat \ {0}  BY DEF Magnitude
<1>2. Magnitude(i) \div Magnitude(j) \in Int  BY <1>1
<1>. QED  BY <1>2 DEF Quotient

(* A truth value is a value.                                               *)
LEMMA BoolKnown == ASSUME NEW b  PROVE Known(Bool(b))
<1>1. Bool(b) \in {IntV(0), IntV(1)}  BY DEF Bool
<1>. QED  BY <1>1, ResultsKnown

(* A result of integer arithmetic is an integer or undefined.              *)
LEMMA IntArithmeticOutcome ==
  ASSUME NEW op \in ArithmeticOps \ {"POW"}, NEW i \in Int, NEW j \in Int,
         NEW r \in IntArithmetic(op, i, j)
  PROVE  Outcome(r)
<1>1. ASSUME NEW k \in Int, NEW q \in IntResult(k)  PROVE Outcome(q)
  <2>1. q = IntV(k) \/ q = Undefined  BY DEF IntResult
  <2>2. Known(IntV(k))  BY ResultsKnown
  <2>. QED  BY <2>1, <2>2 DEF Outcome
<1>2. CASE op \in {"ADD", "SUB", "MUL"}
  <2>1. i + j \in Int /\ i - j \in Int /\ i * j \in Int  OBVIOUS
  <2>2. r \in IntResult(i + j) \/ r \in IntResult(i - j) \/ r \in IntResult(i * j)
    BY <1>2 DEF IntArithmetic
  <2>. QED  BY <1>1, <2>1, <2>2
<1>3. CASE op \in {"DIV", "IDIV", "MOD"}
  <2>1. CASE j = 0 \/ (i = IntMin /\ j = -1)
    BY <1>3, <2>1 DEF IntArithmetic, Outcome
  <2>2. CASE ~(j = 0 \/ (i = IntMin /\ j = -1))
    <3>1. Quotient(i, j) \in Int /\ i - j * Quotient(i, j) \in Int
      BY <2>2, QuotientInt
    <3>2. r \in {IntV(Quotient(i, j)), IntV(i - j * Quotient(i, j))}
      BY <1>3, <2>2 DEF IntArithmetic
    <3>. QED  BY <3>1, <3>2, ResultsKnown DEF Outcome
  <2>. QED  BY <2>1, <2>2
<1>. QED  BY <1>2, <1>3 DEF ArithmeticOps

(* Every binary operator yields a value, an error or is undefined.         *)
LEMMA BinaryOutcome ==
  ASSUME NEW op \in BinaryOps, NEW a, Known(a), NEW b, Known(b),
         NEW r \in Binary(op, a, b)
  PROVE  Outcome(r)
<1>1. CASE op \in ArithmeticOps
  <2>1. r \in Arithmetic(op, a, b)
    BY <1>1 DEF Binary, ArithmeticOps, ComparisonOps, LogicOps
  <2>2. CASE IsInt(a) /\ IsInt(b) /\ op # "POW"
    <3>1. a.val \in Int /\ b.val \in Int  BY DEF Known, TValue
    <3>2. r \in IntArithmetic(op, a.val, b.val)
      BY <2>1, <2>2 DEF Arithmetic, IsInt, IsRational, IsString
    <3>. QED  BY <1>1, <2>2, <3>1, <3>2, IntArithmeticOutcome
  <2>3. CASE ~(IsInt(a) /\ IsInt(b) /\ op # "POW")
    <3>1. r \in SomeNumber \cup SomeString \cup {Error}
      BY <2>1, <2>3 DEF Arithmetic, IsInt, IsRational, IsString
    <3>. QED  BY <3>1, ResultsKnown DEF Outcome
  <2>. QED  BY <2>2, <2>3
<1>2. CASE op \in ComparisonOps
  <2>1. r \in Comparison(op, a, b)
    BY <1>2 DEF Binary, ComparisonOps, ArithmeticOps
  <2>2. r = Undefined \/ r = Error \/ \E q : r = Bool(q)
    BY <2>1 DEF Comparison
  <2>. QED  BY <2>2, BoolKnown DEF Outcome
<1>3. CASE op \in LogicOps
  <2>1. \E q : r = Bool(q)
    BY <1>3 DEF Binary, LogicOps, ComparisonOps, ArithmeticOps
  <2>. QED  BY <2>1, BoolKnown DEF Outcome
<1>4. CASE op = "CONCAT"
  <2>1. r \in SomeString \cup {Error}
    BY <1>4 DEF Binary, LogicOps, ComparisonOps, ArithmeticOps
  <2>. QED  BY <2>1, ResultsKnown DEF Outcome
<1>. QED  BY <1>1, <1>2, <1>3, <1>4 DEF BinaryOps

(* So does every unary operator.                                           *)
LEMMA UnaryOutcome ==
  ASSUME NEW op \in {"NEG", "NOT"}, NEW a, Known(a), NEW r \in Unary(op, a)
  PROVE  Outcome(r)
<1>1. CASE op = "NOT"
  <2>1. r = Bool(~IsTruth(a))  BY <1>1 DEF Unary
  <2>. QED  BY <2>1, BoolKnown DEF Outcome
<1>2. CASE op = "NEG" /\ IsInt(a)
  <2>1. a.val \in Int /\ -a.val \in Int  BY DEF Known, TValue
  <2>2. r \in IntResult(-a.val)  BY <1>2 DEF Unary, IsInt, IsRational
  <2>. QED  BY <2>1, <2>2, ResultsKnown DEF IntResult, Outcome
<1>3. CASE op = "NEG" /\ ~IsInt(a)
  <2>1. CASE a.type = "num"
    <3>1. r \in SomeNumber  BY <1>3, <2>1 DEF Unary, IsInt, IsRational
    <3>. QED  BY <3>1, ResultsKnown DEF Outcome
  <2>2. CASE ~IsRational(a)
    <3>1. r = Error  BY <1>3, <2>2 DEF Unary, IsInt, IsRational
    <3>. QED  BY <3>1 DEF Outcome
  <2>. QED  BY <1>3, <2>1, <2>2 DEF IsInt, IsRational
<1>. QED  BY <1>1, <1>2, <1>3

-----------------------------------------------------------------------------
(* Fetching. *)

(* A running machine has a frame, and the frame executes compiled code.    *)
LEMMA RunningFrame ==
  ASSUME TypeOK, status = "run"
  PROVE  /\ Len(frames) \in Nat \ {0} /\ DOMAIN frames = 1 .. Len(frames)
         /\ Frame \in FrameType
         /\ Code \in Seq(0 .. MaxByte)
<1>1. frames \in Seq(FrameType) /\ frames # <<>>  BY DEF TypeOK
<1>2. Len(frames) \in Nat \ {0} /\ DOMAIN frames = 1 .. Len(frames)
  BY <1>1
<1>3. Frame \in FrameType  BY <1>1, <1>2 DEF Frame
<1>4. Frame.fn \in FunctionIds  BY <1>3 DEF FrameType
<1>5. functions[Frame.fn] \in FunctionObject
  BY <1>4 DEF TypeOK, FunctionsOK
<1>6. Code \in Seq(0 .. MaxByte)  BY <1>5 DEF FunctionObject, Code
<1>. QED  BY <1>2, <1>3, <1>6

(* Every byte of an instruction that lies within the code is a byte.       *)
LEMMA FetchedByte ==
  ASSUME TypeOK, status = "run", NEW n \in Int, InCode(n),
         NEW k \in 0 .. n - 1
  PROVE  ByteAt(Code, Frame.ip + k) \in Nat
<1>1. Code \in Seq(0 .. MaxByte) /\ Frame \in FrameType  BY RunningFrame
<1>2. Frame.ip \in Int  BY <1>1 DEF FrameType
<1>3. Frame.ip + k + 1 \in 1 .. Len(Code)  BY <1>1, <1>2 DEF InCode
<1>4. Code[Frame.ip + k + 1] \in 0 .. MaxByte
  <2>1. ASSUME NEW S, NEW c \in Seq(S), NEW i \in 1 .. Len(c)  PROVE c[i] \in S
    OBVIOUS
  <2>. QED  BY <1>1, <1>3, <2>1, Zenon
<1>5. MaxByte \in Int  BY BytecodeAssumption DEF MaxByte
<1>. QED  BY <1>4, <1>5 DEF ByteAt

(* Operands are natural numbers, and the next instruction has an offset.   *)
LEMMA FetchedOperand ==
  ASSUME TypeOK, NEW op, Fetched(op)
  PROVE  /\ Following \in Int
         /\ op \in NamedOps => Operand \in Nat
         /\ op \in {"CONSTANT", "CONSTANT_LONG"} => IndexOf(op) \in Nat
         /\ op \in JumpOps => ShortAt(Code, Frame.ip + 1) \in Nat
<1>1. status = "run" /\ Op = op /\ InCode(Length)  BY DEF Fetched
<1>2. Frame.ip \in Int  BY <1>1, RunningFrame DEF FrameType
<1>3. Length \in 1 .. 4  BY DEF Length, InstructionLength
<1>4. Following \in Int  BY <1>2, <1>3 DEF Following
<1>5. ASSUME NEW k \in 1 .. 3, k < Length
      PROVE  ByteAt(Code, Frame.ip + k) \in Nat
  BY <1>1, <1>3, <1>5, FetchedByte
<1>6. Byte \in Nat /\ Byte * Byte \in Nat  BY BytecodeAssumption
<1>7. ASSUME Length = 4  PROVE U24At(Code, Frame.ip + 1) \in Nat
  <2>1. /\ ByteAt(Code, Frame.ip + 1) \in Nat
        /\ ByteAt(Code, Frame.ip + 2) \in Nat
        /\ ByteAt(Code, Frame.ip + 3) \in Nat
    BY <1>5, <1>7
  <2>2. /\ Frame.ip + 1 + 1 = Frame.ip + 2
        /\ Frame.ip + 1 + 2 = Frame.ip + 3
    BY <1>2
  <2>3. U24At(Code, Frame.ip + 1)
          = ByteAt(Code, Frame.ip + 1) + Byte * ByteAt(Code, Frame.ip + 2)
              + Byte * Byte * ByteAt(Code, Frame.ip + 3)
    BY <2>2 DEF U24At
  <2>. QED  BY <1>6, <2>1, <2>3
<1>8. Length > 1 => ByteAt(Code, Frame.ip + 1) \in Nat
  BY <1>3, <1>5
<1>9. ASSUME op \in NamedOps  PROVE Operand \in Nat
  <2>1. Length = IF wide THEN 4 ELSE 2
    BY <1>1, <1>9 DEF Length, InstructionLength, NamedOps, JumpOps
  <2>. QED  BY <1>7, <1>8, <2>1 DEF Operand
<1>10. ASSUME op \in {"CONSTANT", "CONSTANT_LONG"}  PROVE IndexOf(op) \in Nat
  <2>1. Length = IF op = "CONSTANT" THEN 2 ELSE 4
    BY <1>1, <1>10 DEF Length, InstructionLength, NamedOps, JumpOps
  <2>. QED  BY <1>7, <1>8, <2>1 DEF IndexOf
<1>11. ASSUME op \in JumpOps  PROVE ShortAt(Code, Frame.ip + 1) \in Nat
  <2>1. Length = 3  BY <1>1, <1>11 DEF Length, InstructionLength, NamedOps, JumpOps
  <2>2. /\ ByteAt(Code, Frame.ip + 1) \in Nat
        /\ ByteAt(Code, Frame.ip + 2) \in Nat
    BY <1>5, <2>1
  <2>3. Frame.ip + 1 + 1 = Frame.ip + 2  BY <1>2
  <2>. QED  BY <1>6, <2>2, <2>3 DEF ShortAt
<1>. QED  BY <1>4, <1>9, <1>10, <1>11

-----------------------------------------------------------------------------
(* The ways an instruction ends keep the types.                            *)

(* Moving the ip touches one field of the last frame.                      *)
LEMMA AdvancedFrames ==
  ASSUME TypeOK, status = "run", NEW ip \in Int
  PROVE  /\ Advanced(ip) \in Seq(FrameType)
         /\ Len(Advanced(ip)) = Len(frames)
         /\ Advanced(ip) # <<>>
<1>1. /\ frames \in Seq(FrameType) /\ Len(frames) # 0 /\ Frame \in FrameType
      /\ Advanced(ip) # <<>>
  BY RunningFrame DEF TypeOK, Advanced
<1>2. [Frame EXCEPT !.ip = ip] \in FrameType
  BY <1>1 DEF FrameType
<1>3. Advanced(ip) = [frames EXCEPT ![Len(frames)] = [Frame EXCEPT !.ip = ip]]
  BY DEF Advanced, Frame
<1>4. ASSUME NEW S, NEW s \in Seq(S), Len(s) # 0, NEW e \in S
      PROVE  /\ [s EXCEPT ![Len(s)] = e] \in Seq(S)
             /\ Len([s EXCEPT ![Len(s)] = e]) = Len(s)
  BY <1>4
<1>5. Advanced(ip) \in Seq(FrameType) /\ Len(Advanced(ip)) = Len(frames)
  <2>. DEFINE e == [Frame EXCEPT !.ip = ip]
  <2>1. e \in FrameType  BY <1>2
  <2>. HIDE DEF e
  <2>2. /\ [frames EXCEPT ![Len(frames)] = e] \in Seq(FrameType)
        /\ Len([frames EXCEPT ![Len(frames)] = e]) = Len(frames)
    BY <1>1, <1>4, <2>1
  <2>. QED  BY <1>3, <2>2 DEF e
<1>. QED  BY <1>1, <1>5

(* The loop goes on.                                                       *)
LEMMA GotoKeeps ==
  ASSUME TypeOK, status = "run", NEW ip \in Int, NEW s, StackOK(s), Goto(ip, s)
  PROVE  TypeOK'
<1>1. /\ functions' = functions /\ globals' = globals /\ status' = status
      /\ stack' = s /\ frames' = Advanced(ip) /\ wide' = FALSE
  BY DEF Goto
<1>2. FunctionsOK'  BY <1>1 DEF TypeOK, FunctionsOK, Constants
<1>3. StackOK(stack)'  BY <1>1 DEF StackOK, IsStack
<1>4. frames' \in Seq(FrameType) /\ Len(frames') <= FrameLimit /\ frames' # <<>>
  BY <1>1, AdvancedFrames DEF TypeOK
<1>. QED  BY <1>1, <1>2, <1>3, <1>4, Zenon DEF TypeOK

(* errorf() is raised.                                                     *)
LEMMA RaiseKeeps ==
  ASSUME TypeOK, status = "run", Following \in Int, NEW s, StackOK(s), Raise(s)
  PROVE  TypeOK'
<1>1. /\ functions' = functions /\ globals' = globals /\ status' = "error"
      /\ stack' = s /\ frames' = Advanced(Following) /\ wide' = FALSE
  BY DEF Raise
<1>2. FunctionsOK'  BY <1>1 DEF TypeOK, FunctionsOK, Constants
<1>3. StackOK(stack)'  BY <1>1 DEF StackOK, IsStack
<1>4. frames' \in Seq(FrameType) /\ Len(frames') <= FrameLimit
  BY <1>1, AdvancedFrames DEF TypeOK
<1>. QED  BY <1>1, <1>2, <1>3, <1>4, Zenon DEF TypeOK

(* The behaviour is undefined.                                             *)
LEMMA CrashKeeps ==
  ASSUME TypeOK, NEW s, StackOK(s), CrashWith(s)
  PROVE  TypeOK'
<1>1. /\ functions' = functions /\ globals' = globals /\ status' = "undefined"
      /\ stack' = s /\ frames' = frames /\ wide' = wide
  BY DEF CrashWith
<1>2. FunctionsOK'  BY <1>1 DEF TypeOK, FunctionsOK, Constants
<1>3. StackOK(stack)'  BY <1>1 DEF StackOK, IsStack
<1>. QED  BY <1>1, <1>2, <1>3, Zenon DEF TypeOK

(* An operator has pushed its result.                                      *)
LEMMA YieldKeeps ==
  ASSUME TypeOK, status = "run", Following \in Int, NEW s, StackOK(s),
         NEW r, Outcome(r), Yield(r, s)
  PROVE  TypeOK'
<1>1. CASE r = Undefined
  <2>1. Crash  BY <1>1 DEF Yield, Undefined, Error
  <2>. QED  BY <2>1, CrashKeeps DEF Crash, TypeOK
<1>2. CASE r = Error
  <2>1. Raise(s)  BY <1>2 DEF Yield, Undefined, Error
  <2>. QED  BY <2>1, RaiseKeeps
<1>3. CASE r # Undefined /\ r # Error
  <2>1. Continue(Push(s, r, FALSE))  BY <1>3 DEF Yield
  <2>2. StackOK(Push(s, r, FALSE))  BY <1>3, PushedStack DEF Outcome
  <2>. QED  BY <2>1, <2>2, GotoKeeps DEF Continue
<1>. QED  BY <1>1, <1>2, <1>3

-----------------------------------------------------------------------------
(* Every instruction keeps the types. *)

(* Constants that exist are values; the first two, calloc'ed, read as void. *)
LEMMA ConstantKnown ==
  ASSUME TypeOK, NEW i, ConstantAt(i) # Undefined, i \in Nat
  PROVE  Known(ConstantAt(i))
<1>1. CASE i < Len(Constants)
  <2>1. Constants \in Seq(TValue)
    BY VmAssumption DEF TypeOK, FunctionsOK, Constants, FunctionObject
  <2>2. i + 1 \in DOMAIN Constants  BY <1>1, <2>1
  <2>3. Known(Constants[i + 1])  BY <2>2 DEF TypeOK, FunctionsOK
  <2>. QED  BY <1>1, <2>3 DEF ConstantAt
<1>2. CASE ~(i < Len(Constants))
  BY <1>2, ResultsKnown DEF ConstantAt
<1>. QED  BY <1>1, <1>2

(* The type invariant, instruction by instruction: constants.              *)
LEMMA ConstantKeeps == ASSUME TypeOK, Constant  PROVE TypeOK'
<1>1. PICK op \in {"CONSTANT", "CONSTANT_LONG"} : ConstantBy(op)
  BY DEF Constant
<1>. DEFINE c == ConstantAt(IndexOf(op))
<1>2. /\ Fetched(op) /\ status = "run" /\ StackOK(stack)
      /\ c = Undefined => Crash
      /\ c # Undefined => \E moved \in Moves : Continue(Push(stack, c, moved))
  BY <1>1 DEF ConstantBy, Fetched, TypeOK
<1>3. Following \in Int /\ IndexOf(op) \in Nat  BY <1>2, FetchedOperand
<1>4. CASE c = Undefined
  BY <1>2, <1>4, CrashKeeps DEF Crash
<1>5. CASE c # Undefined
  <2>1. PICK moved \in Moves : Continue(Push(stack, c, moved))
    BY <1>2, <1>5
  <2>2. moved \in BOOLEAN  BY VmAssumption
  <2>3. Known(c)  BY <1>3, <1>5, ConstantKnown
  <2>4. StackOK(Push(stack, c, moved))
    BY <1>2, <2>2, <2>3, PushedStack
  <2>. QED  BY <1>2, <1>3, <2>1, <2>4, GotoKeeps DEF Continue
<1>. QED  BY <1>4, <1>5

(* Binary operators preserve the types.                                    *)
LEMMA BinaryOperatorKeeps == ASSUME TypeOK, BinaryOperator  PROVE TypeOK'
<1>1. PICK op \in BinaryOps :
        /\ Fetched(op)
        /\ IF stack.size < 2 THEN Crash
           ELSE \E r \in Binary(op, Last(Pop(stack)), Last(stack)) :
                  Yield(r, Drop(stack, 2))
  BY DEF BinaryOperator
<1>2. StackOK(stack) /\ stack.size \in Nat /\ status = "run" /\ Following \in Int
  BY <1>1, FetchedOperand DEF TypeOK, StackOK, Fetched
<1>3. CASE stack.size < 2
  BY <1>1, <1>2, <1>3, CrashKeeps DEF Crash
<1>4. CASE ~(stack.size < 2)
  <2>1. PICK r \in Binary(op, Last(Pop(stack)), Last(stack)) :
          Yield(r, Drop(stack, 2))
    BY <1>1, <1>4
  <2>2. StackOK(Pop(stack)) /\ Pop(stack).size >= 1 /\ StackOK(Drop(stack, 2))
    BY <1>2, <1>4, DroppedStack DEF Pop
  <2>3. Known(Last(stack)) /\ Known(Last(Pop(stack)))
    BY <1>2, <1>4, <2>2, LastKnown
  <2>4. Outcome(r)  BY <2>3, BinaryOutcome
  <2>. QED  BY <1>2, <2>1, <2>2, <2>4, YieldKeeps
<1>. QED  BY <1>3, <1>4

(* Unary operators preserve the types.                                     *)
LEMMA UnaryOperatorKeeps == ASSUME TypeOK, UnaryOperator  PROVE TypeOK'
<1>1. PICK op \in {"NEG", "NOT"} :
        /\ Fetched(op)
        /\ IF stack.size < 1 THEN Crash
           ELSE \E r \in Unary(op, Last(stack)) : Yield(r, Pop(stack))
  BY DEF UnaryOperator
<1>2. StackOK(stack) /\ stack.size \in Nat /\ status = "run" /\ Following \in Int
  BY <1>1, FetchedOperand DEF TypeOK, StackOK, Fetched
<1>3. CASE stack.size < 1
  BY <1>1, <1>2, <1>3, CrashKeeps DEF Crash
<1>4. CASE ~(stack.size < 1)
  <2>1. PICK r \in Unary(op, Last(stack)) : Yield(r, Pop(stack))
    BY <1>1, <1>4
  <2>2. StackOK(Pop(stack)) /\ Known(Last(stack))
    BY <1>2, <1>4, DroppedStack, LastKnown DEF Pop
  <2>3. Outcome(r)  BY <2>2, UnaryOutcome
  <2>. QED  BY <1>2, <2>1, <2>2, <2>3, YieldKeeps
<1>. QED  BY <1>3, <1>4

(* PRINT, POP and the conditional jump take one value off the stack.       *)
LEMMA PoppingKeeps ==
  ASSUME TypeOK, NEW op, Fetched(op), NEW ip \in Int,
         stack.size >= 1, Goto(ip, Pop(stack))
  PROVE  TypeOK'
<1>1. StackOK(Pop(stack))  BY DroppedStack DEF Pop, TypeOK, StackOK
<1>. QED  BY <1>1, GotoKeeps DEF Fetched

(* PRINT preserves the types.                                              *)
LEMMA PrintKeeps == ASSUME TypeOK, PrintValue  PROVE TypeOK'
<1>1. Fetched("PRINT") /\ Following \in Int /\ stack.size \in Nat
  BY FetchedOperand DEF PrintValue, TypeOK, StackOK
<1>2. Crash \/ (stack.size >= 1 /\ Continue(Pop(stack)))
  BY <1>1 DEF PrintValue
<1>. QED  BY <1>1, <1>2, CrashKeeps, PoppingKeeps DEF Crash, TypeOK, Continue

(* POP preserves the types.                                                *)
LEMMA PopValueKeeps == ASSUME TypeOK, PopValue  PROVE TypeOK'
<1>1. Fetched("POP") /\ Following \in Int /\ stack.size \in Nat
  BY FetchedOperand DEF PopValue, TypeOK, StackOK
<1>2. Crash \/ (stack.size >= 1 /\ Continue(Pop(stack)))
  BY <1>1 DEF PopValue
<1>. QED  BY <1>1, <1>2, CrashKeeps, PoppingKeeps DEF Crash, TypeOK, Continue

(* SETGLOBAL preserves the types: only values become globals.              *)
LEMMA SetGlobalKeeps == ASSUME TypeOK, SetGlobal  PROVE TypeOK'
<1>. DEFINE v == Last(stack)
            s == Push(Pop(stack), v, FALSE)
<1>1. /\ Fetched("SETGLOBAL") /\ status = "run" /\ Following \in Int
      /\ StackOK(stack) /\ stack.size \in Nat
  BY FetchedOperand DEF SetGlobal, Fetched, TypeOK, StackOK
<1>2. CASE Crash
  BY <1>1, <1>2, CrashKeeps DEF Crash
<1>3. CASE ~Crash
  <2>1. /\ ~(stack.size < 1)
        /\ globals' = [globals EXCEPT ![NameAt(Operand)] = v]
        /\ stack' = s /\ frames' = Advanced(Following) /\ wide' = FALSE
        /\ functions' = functions /\ status' = status
    BY <1>3, Zenon DEF SetGlobal
  <2>2. StackOK(Pop(stack)) /\ Known(v)
    BY <1>1, <2>1, DroppedStack, LastKnown DEF Pop
  <2>3. StackOK(s)  BY <2>2, PushedStack
  <2>4. FunctionsOK'  BY <2>1 DEF TypeOK, FunctionsOK, Constants
  <2>5. StackOK(stack)'  BY <2>1, <2>3 DEF StackOK, IsStack
  <2>6. frames' \in Seq(FrameType) /\ Len(frames') <= FrameLimit /\ frames' # <<>>
    BY <1>1, <2>1, AdvancedFrames DEF TypeOK
  <2>7. /\ DOMAIN globals' = Strings
        /\ \A n \in Strings : Known(globals'[n]) \/ globals'[n] = Absent
    BY <2>1, <2>2 DEF TypeOK
  <2>. QED  BY <1>1, <2>1, <2>4, <2>5, <2>6, <2>7, Zenon DEF TypeOK
<1>. QED  BY <1>2, <1>3

(* LOADGLOBAL preserves the types.                                         *)
LEMMA LoadGlobalKeeps == ASSUME TypeOK, LoadGlobal  PROVE TypeOK'
<1>. DEFINE v == globals[NameAt(Operand)]
<1>1. /\ Fetched("LOADGLOBAL") /\ status = "run" /\ Following \in Int
      /\ StackOK(stack) /\ Operand \in Nat
  BY FetchedOperand DEF LoadGlobal, Fetched, TypeOK, NamedOps
<1>2. CASE ~IsName(Operand)
  BY <1>1, <1>2, CrashKeeps DEF Crash, LoadGlobal
<1>3. CASE IsName(Operand) /\ v = Absent
  BY <1>1, <1>3, RaiseKeeps DEF LoadGlobal
<1>4. CASE IsName(Operand) /\ v # Absent
  <2>1. PICK moved \in Moves : Continue(Push(stack, v, moved))
    BY <1>4 DEF LoadGlobal
  <2>2. moved \in BOOLEAN  BY VmAssumption
  <2>3. NameAt(Operand) \in Strings
    <3>1. ConstantAt(Operand).type = "str"  BY <1>4 DEF IsName, IsString
    <3>2. ConstantAt(Operand) # Undefined  BY <3>1 DEF Undefined
    <3>. QED  BY <1>1, <3>1, <3>2, ConstantKnown DEF Known, NameAt
  <2>4. Known(v)  BY <1>4, <2>3 DEF TypeOK
  <2>5. StackOK(Push(stack, v, moved))  BY <1>1, <2>2, <2>4, PushedStack
  <2>. QED  BY <1>1, <2>1, <2>5, GotoKeeps DEF Continue
<1>. QED  BY <1>2, <1>3, <1>4

(* Storing a value in a cell keeps the stack well formed.                  *)
LEMMA WrittenStack ==
  ASSUME NEW s, StackOK(s), NEW at \in DOMAIN s.items, NEW v, Known(v)
  PROVE  StackOK([s EXCEPT !.items[at] = v])
<1>. DEFINE w == [s EXCEPT !.items[at] = v]
<1>1. /\ w.items = [s.items EXCEPT ![at] = v] /\ w.size = s.size /\ w.cap = s.cap
      /\ w.gen = s.gen /\ w.top = s.top /\ w.topGen = s.topGen
      /\ IsStack(w)
  <2>1. IsStack(s)  BY DEF StackOK
  <2>. QED  BY <2>1 DEF IsStack, StackFields
<1>2. w.items \in [0 .. w.cap - 1 -> TValue] /\ \A i \in 0 .. w.cap - 1 : Known(w.items[i])
  BY <1>1 DEF StackOK, Known
<1>. HIDE DEF w
<1>3. StackOK(w)  BY <1>1, <1>2 DEF StackOK
<1>. QED  BY <1>3 DEF w

(* SETLOCAL preserves the types: it writes inside the block or crashes.    *)
LEMMA SetLocalKeeps == ASSUME TypeOK, SetLocal  PROVE TypeOK'
<1>. DEFINE at == Frame.base + Operand
<1>1. /\ Fetched("SETLOCAL") /\ status = "run" /\ Following \in Int
      /\ StackOK(stack) /\ stack.size \in Nat
  BY FetchedOperand DEF SetLocal, Fetched, TypeOK, StackOK
<1>2. CASE Crash
  BY <1>1, <1>2, CrashKeeps DEF Crash
<1>3. CASE ~Crash
  <2>1. /\ ~(stack.size < 1) /\ at \in DOMAIN stack.items
        /\ Continue([stack EXCEPT !.items[at] = Last(stack)])
    BY <1>3, Zenon DEF SetLocal, Points
  <2>2. StackOK([stack EXCEPT !.items[at] = Last(stack)])
    BY <1>1, <2>1, LastKnown, WrittenStack
  <2>. QED  BY <1>1, <2>1, <2>2, GotoKeeps DEF Continue
<1>. QED  BY <1>2, <1>3

(* LOADLOCAL preserves the types.                                          *)
LEMMA LoadLocalKeeps == ASSUME TypeOK, LoadLocal  PROVE TypeOK'
<1>. DEFINE at == Frame.base + Operand
<1>1. /\ Fetched("LOADLOCAL") /\ status = "run" /\ Following \in Int
      /\ StackOK(stack)
  BY FetchedOperand DEF LoadLocal, Fetched, TypeOK
<1>2. PICK moved \in Moves :
        LET grown == EnsureCapacity(stack, 1, Junk, moved)
        IN  IF ~Points(grown, at, Frame.gen) \/ Cell(grown, at) = Junk
            THEN CrashWith(grown)
            ELSE Continue(Push(stack, Cell(grown, at), moved))
  BY DEF LoadLocal
<1>. DEFINE grown == EnsureCapacity(stack, 1, Junk, moved)
<1>3. moved \in BOOLEAN  BY VmAssumption
<1>4. StackOK(grown)  BY <1>1, <1>3, GrownStack
<1>5. CASE CrashWith(grown)  BY <1>4, <1>5, CrashKeeps
<1>6. CASE at \in DOMAIN grown.items /\ Continue(Push(stack, grown.items[at], moved))
  <2>1. Known(grown.items[at])  BY <1>4, <1>6 DEF StackOK
  <2>2. StackOK(Push(stack, grown.items[at], moved))
    BY <1>1, <1>3, <2>1, PushedStack
  <2>. QED  BY <1>1, <1>6, <2>2, GotoKeeps DEF Continue
<1>. QED  BY <1>2, <1>5, <1>6 DEF Points, Cell

(* Jumps preserve the types.                                               *)
LEMMA JumpKeeps == ASSUME TypeOK, Jump  PROVE TypeOK'
<1>. DEFINE distance == ShortAt(Code, Frame.ip + 1)
<1>1. PICK op \in JumpOps : Fetched(op)
  BY DEF Jump, JumpOps
<1>2. /\ status = "run" /\ Following \in Int /\ distance \in Nat
      /\ StackOK(stack) /\ stack.size \in Nat
  BY <1>1, FetchedOperand DEF Fetched, TypeOK, StackOK
<1>3. \/ Goto(Following + distance, stack) \/ Goto(Following - distance, stack)
      \/ Crash
      \/ /\ stack.size >= 1
         /\ Goto(IF IsTruth(Last(stack)) THEN Following ELSE Following + distance,
                 Pop(stack))
  BY <1>2 DEF Jump
<1>4. CASE Goto(Following + distance, stack) \/ Goto(Following - distance, stack)
  <2>1. Following + distance \in Int /\ Following - distance \in Int  BY <1>2
  <2>. QED  BY <1>2, <1>4, <2>1, GotoKeeps
<1>5. CASE Crash  BY <1>2, <1>5, CrashKeeps DEF Crash
<1>6. ASSUME NEW ip \in {Following, Following + distance}, stack.size >= 1,
             Goto(ip, Pop(stack))
      PROVE  TypeOK'
  BY <1>1, <1>2, <1>6, PoppingKeeps
<1>. QED  BY <1>3, <1>4, <1>5, <1>6

(* A frame more, for a function that is not refused.                       *)
LEMMA EnterFunctionKeeps ==
  ASSUME TypeOK, status = "run", Following \in Int,
         NEW fn \in FunctionIds, NEW argc \in Nat, EnterFunction(fn, argc)
  PROVE  TypeOK'
<1>1. StackOK(stack) /\ stack.size \in Int /\ stack.gen \in Nat
  BY DEF TypeOK, StackOK
<1>2. CASE argc # functions[fn].argc \/ Len(frames) = FrameLimit
  BY <1>1, <1>2, RaiseKeeps DEF EnterFunction
<1>3. CASE ~(argc # functions[fn].argc \/ Len(frames) = FrameLimit)
  <2>. DEFINE frame == [fn |-> fn, ip |-> 0, base |-> stack.size - argc - 1,
                        gen |-> stack.gen]
  <2>1. /\ frames' = Append(Advanced(Following), frame) /\ wide' = FALSE
        /\ functions' = functions /\ stack' = stack /\ globals' = globals
        /\ status' = status
    BY <1>3 DEF EnterFunction
  <2>2. frame \in FrameType  BY <1>1 DEF FrameType
  <2>3. Advanced(Following) \in Seq(FrameType) /\ Len(Advanced(Following)) = Len(frames)
    BY AdvancedFrames
  <2>. HIDE DEF frame
  <2>4. frames' \in Seq(FrameType) /\ Len(frames') = Len(frames) + 1 /\ frames' # <<>>
    BY <2>1, <2>2, <2>3
  <2>5. Len(frames') <= FrameLimit
    <3>1. Len(frames) <= FrameLimit /\ Len(frames) # FrameLimit /\ Len(frames) \in Nat
      BY <1>3 DEF TypeOK
    <3>. QED  BY <2>4, <3>1, VmAssumption
  <2>6. FunctionsOK'  BY <2>1 DEF TypeOK, FunctionsOK, Constants
  <2>7. StackOK(stack)'  BY <1>1, <2>1 DEF StackOK, IsStack
  <2>. QED  BY <2>1, <2>4, <2>5, <2>6, <2>7, Zenon DEF TypeOK
<1>. QED  BY <1>2, <1>3

(* The stack after v.stack_top was moved down by n.                        *)
LEMMA LoweredStack ==
  ASSUME NEW s, StackOK(s), NEW n \in Int
  PROVE  LET l == [s EXCEPT !.top = @ - n]
         IN  StackOK(l) /\ l.size = s.size /\ l.top = s.top - n
<1>. DEFINE l == [s EXCEPT !.top = @ - n]
<1>1. /\ l.items = s.items /\ l.size = s.size /\ l.cap = s.cap
      /\ l.gen = s.gen /\ l.top = s.top - n /\ l.topGen = s.topGen
      /\ IsStack(l)
  <2>1. IsStack(s)  BY DEF StackOK
  <2>. QED  BY <2>1 DEF IsStack, StackFields
<1>. HIDE DEF l
<1>2. StackOK(l)  BY <1>1 DEF StackOK
<1>. QED  BY <1>1, <1>2 DEF l

(* The call of a native preserves the types.                               *)
LEMMA CallNativeKeeps ==
  ASSUME TypeOK, status = "run", Following \in Int, NEW argc \in Nat,
         CallNative(argc)
  PROVE  TypeOK'
<1>. DEFINE l == [stack EXCEPT !.top = @ - (argc + 1)]
<1>1. PICK moved \in Moves : Continue(Push(l, IntV(0), moved))
  BY DEF CallNative
<1>2. moved \in BOOLEAN /\ StackOK(stack) /\ argc + 1 \in Int
  BY VmAssumption DEF TypeOK
<1>3. StackOK(l)  BY <1>2, LoweredStack
<1>4. Known(IntV(0))  BY ResultsKnown
<1>5. StackOK(Push(l, IntV(0), moved))  BY <1>2, <1>3, <1>4, PushedStack
<1>. QED  BY <1>1, <1>5, GotoKeeps DEF Continue

(* CALL preserves the types: no more frames than FrameLimit.               *)
LEMMA CallKeeps == ASSUME TypeOK, Call  PROVE TypeOK'
<1>. DEFINE at == stack.top - 1 - Operand
            callee == Cell(stack, at)
<1>1. /\ Fetched("CALL") /\ status = "run" /\ Following \in Int
      /\ StackOK(stack) /\ Operand \in Nat
  BY FetchedOperand DEF Call, Fetched, TypeOK, NamedOps
<1>2. CASE ~Points(stack, at, stack.topGen) \/ callee = Junk
  BY <1>1, <1>2, CrashKeeps DEF Call, Crash
<1>3. CASE ~(~Points(stack, at, stack.topGen) \/ callee = Junk)
  <2>1. Known(callee)  BY <1>1, <1>3 DEF StackOK, Points, Cell
  <2>2. CASE callee.type = "fun"
    <3>1. EnterFunction(callee.val, Operand)  BY <1>3, <2>2 DEF Call
    <3>2. callee.val \in FunctionIds  BY <2>1, <2>2 DEF Known
    <3>. QED  BY <1>1, <3>1, <3>2, EnterFunctionKeeps
  <2>3. CASE callee.type = "native"
    <3>1. CallNative(Operand)  BY <1>3, <2>3 DEF Call
    <3>. QED  BY <1>1, <3>1, CallNativeKeeps
  <2>4. CASE callee.type \notin {"fun", "native"}
    <3>1. Raise(stack)  BY <1>3, <2>4 DEF Call
    <3>. QED  BY <1>1, <3>1, RaiseKeeps
  <2>. QED  BY <2>2, <2>3, <2>4
<1>. QED  BY <1>2, <1>3

(* The script's return leaves an empty stack and no frame.                 *)
LEMMA ReturnFromScriptKeeps == ASSUME TypeOK, ReturnFromScript  PROVE TypeOK'
<1>. DEFINE e == [stack EXCEPT !.size = 0, !.top = 0, !.topGen = stack.gen]
<1>1. StackOK(stack)  BY DEF TypeOK
<1>2. CASE stack.size < 1
  BY <1>1, <1>2, CrashKeeps DEF ReturnFromScript, Crash
<1>3. CASE ~(stack.size < 1)
  <2>1. /\ stack' = e /\ frames' = <<>> /\ status' = "returned"
        /\ functions' = functions /\ wide' = wide /\ globals' = globals
    BY <1>3 DEF ReturnFromScript
  <2>2. /\ e.items = stack.items /\ e.size = 0 /\ e.cap = stack.cap
        /\ e.gen = stack.gen /\ e.top = 0 /\ e.topGen = stack.gen
        /\ IsStack(e)
    <3>1. IsStack(stack)  BY <1>1 DEF StackOK
    <3>. QED  BY <3>1 DEF IsStack, StackFields
  <2>. HIDE DEF e
  <2>3. StackOK(e)  BY <1>1, <2>2 DEF StackOK
  <2>4. StackOK(stack)'  BY <2>1, <2>3 DEF StackOK, IsStack
  <2>5. FunctionsOK'  BY <2>1 DEF TypeOK, FunctionsOK, Constants
  <2>6. frames' \in Seq(FrameType) /\ Len(frames') <= FrameLimit
    BY <2>1, VmAssumption
  <2>. QED  BY <2>1, <2>4, <2>5, <2>6, Zenon DEF TypeOK
<1>. QED  BY <1>2, <1>3

(* Another return: v.stack_top moves to the frame's slots, the values       *)
(* above them are popped, and the result is pushed.                         *)
LEMMA ReturnKeeps == ASSUME TypeOK, Return  PROVE TypeOK'
<1>. DEFINE above == stack.top - 1 - Frame.base
            diff == IF above > 0 THEN above ELSE 0
            left == [stack EXCEPT !.size = @ - 1 - diff, !.top = Frame.base,
                                  !.topGen = Frame.gen]
<1>1. /\ StackOK(stack) /\ status = "run" /\ Frame \in FrameType
      /\ stack.size \in Nat /\ stack.top \in Int
      /\ frames \in Seq(FrameType) /\ Len(frames) <= FrameLimit
  BY RunningFrame DEF Return, Fetched, TypeOK, StackOK
<1>2. Frame.base \in Int /\ Frame.gen \in Nat  BY <1>1 DEF FrameType
<1>3. diff \in Nat  BY <1>1, <1>2
<1>. HIDE DEF diff
<1>4. CASE stack.size < 1 + diff \/ stack.topGen # Frame.gen
  BY <1>1, <1>4, CrashKeeps DEF Return, Crash, diff
<1>5. CASE ~(stack.size < 1 + diff \/ stack.topGen # Frame.gen)
  <2>1. /\ stack' = Push(left, Last(stack), FALSE)
        /\ frames' = SubSeq(frames, 1, Len(frames) - 1) /\ wide' = FALSE
        /\ functions' = functions /\ globals' = globals /\ status' = status
        /\ Len(frames) > 1
    BY <1>5 DEF Return, diff
  <2>2. /\ left.items = stack.items /\ left.size = stack.size - 1 - diff
        /\ left.cap = stack.cap /\ left.gen = stack.gen
        /\ left.top = Frame.base /\ left.topGen = Frame.gen
        /\ IsStack(left)
    <3>1. IsStack(stack)  BY <1>1 DEF StackOK
    <3>. QED  BY <3>1 DEF IsStack, StackFields
  <2>. HIDE DEF left
  <2>3. StackOK(left)
    <3>1. /\ stack.cap \in Nat /\ stack.cap >= 2 /\ stack.size \in 0 .. stack.cap
          /\ stack.items \in [0 .. stack.cap - 1 -> TValue]
          /\ \A i \in 0 .. stack.cap - 1 : Known(stack.items[i])
          /\ stack.gen \in Nat /\ stack.topGen \in 0 .. stack.gen
      BY <1>1 DEF StackOK
    <3>2. left.size \in 0 .. left.cap
      BY <1>1, <1>3, <1>5, <2>2, <3>1
    <3>3. left.topGen \in 0 .. left.gen /\ left.top \in Int
      BY <1>2, <1>5, <2>2, <3>1
    <3>. QED  BY <2>2, <3>1, <3>2, <3>3, Zenon DEF StackOK
  <2>4. Known(Last(stack))  BY <1>1, <1>3, <1>5, LastKnown
  <2>5. StackOK(Push(left, Last(stack), FALSE))  BY <2>3, <2>4, PushedStack
  <2>6. StackOK(stack)'  BY <2>1, <2>5 DEF StackOK, IsStack
  <2>7. FunctionsOK'  BY <2>1 DEF TypeOK, FunctionsOK, Constants
  <2>8. /\ frames' \in Seq(FrameType) /\ Len(frames') = Len(frames) - 1
        /\ frames' # <<>>
    <3>1. /\ Len(frames) - 1 \in Nat /\ 1 <= Len(frames) - 1
          /\ \A i \in 1 .. Len(frames) - 1 : frames[i] \in FrameType
      BY <1>1, <2>1
    <3>2. /\ frames' \in Seq(FrameType)
          /\ Len(frames') = IF 1 <= Len(frames) - 1 THEN Len(frames) - 1 - 1 + 1 ELSE 0
      BY <2>1, <3>1, SubSeqProperties
    <3>. QED  BY <3>1, <3>2
  <2>9. Len(frames') <= FrameLimit  BY <1>1, <2>8, VmAssumption
  <2>. QED  BY <1>1, <2>1, <2>6, <2>7, <2>8, <2>9, Zenon DEF TypeOK
<1>. QED  BY <1>4, <1>5

(* WIDE preserves the types.                                               *)
LEMMA WideKeeps == ASSUME TypeOK, Wide  PROVE TypeOK'
<1>1. /\ status = "run" /\ Following \in Int
  BY FetchedOperand DEF Wide, Fetched
<1>2. /\ stack' = stack /\ frames' = Advanced(Following) /\ wide' = TRUE
      /\ functions' = functions /\ globals' = globals /\ status' = status
  BY DEF Wide
<1>3. StackOK(stack)'  BY <1>2 DEF TypeOK, StackOK, IsStack
<1>4. FunctionsOK'  BY <1>2 DEF TypeOK, FunctionsOK, Constants
<1>5. frames' \in Seq(FrameType) /\ Len(frames') <= FrameLimit /\ frames' # <<>>
  BY <1>1, <1>2, AdvancedFrames DEF TypeOK
<1>. QED  BY <1>1, <1>2, <1>3, <1>4, <1>5, Zenon DEF TypeOK

(* HALT preserves the types.                                               *)
LEMMA HaltKeeps == ASSUME TypeOK, Halt  PROVE TypeOK'
<1>1. status = "run" /\ NoIp \in Int  BY DEF Halt, Fetched, NoIp
<1>2. /\ stack' = stack /\ frames' = Advanced(NoIp) /\ wide' = wide
      /\ functions' = functions /\ globals' = globals /\ status' = "halted"
  BY DEF Halt
<1>3. StackOK(stack)'  BY <1>2 DEF TypeOK, StackOK, IsStack
<1>4. FunctionsOK'  BY <1>2 DEF TypeOK, FunctionsOK, Constants
<1>5. frames' \in Seq(FrameType) /\ Len(frames') <= FrameLimit
  BY <1>1, <1>2, AdvancedFrames DEF TypeOK
<1>. QED  BY <1>1, <1>2, <1>3, <1>4, <1>5, Zenon DEF TypeOK

(* The instructions together. *)
LEMMA StepKeeps == ASSUME TypeOK, Step  PROVE TypeOK'
<1>1. CASE Constant  BY <1>1, ConstantKeeps
<1>2. CASE BinaryOperator  BY <1>2, BinaryOperatorKeeps
<1>3. CASE UnaryOperator  BY <1>3, UnaryOperatorKeeps
<1>4. CASE PrintValue  BY <1>4, PrintKeeps
<1>5. CASE PopValue  BY <1>5, PopValueKeeps
<1>6. CASE SetGlobal  BY <1>6, SetGlobalKeeps
<1>7. CASE LoadGlobal  BY <1>7, LoadGlobalKeeps
<1>8. CASE SetLocal  BY <1>8, SetLocalKeeps
<1>9. CASE LoadLocal  BY <1>9, LoadLocalKeeps
<1>10. CASE Jump  BY <1>10, JumpKeeps
<1>11. CASE Call  BY <1>11, CallKeeps
<1>12. CASE ReturnFromScript  BY <1>12, ReturnFromScriptKeeps
<1>13. CASE Return  BY <1>13, ReturnKeeps
<1>14. CASE Wide  BY <1>14, WideKeeps
<1>15. CASE Halt  BY <1>15, HaltKeeps
<1>16. CASE Overrun
  BY <1>16, CrashKeeps DEF Overrun, Crash, TypeOK
<1>. QED  BY <1>1, <1>2, <1>3, <1>4, <1>5, <1>6, <1>7, <1>8, <1>9, <1>10, <1>11,
             <1>12, <1>13, <1>14, <1>15, <1>16 DEF Step

(* A line is interpreted. *)
LEMMA InterpretKeeps == ASSUME TypeOK, Interpret  PROVE TypeOK'
<1>0. PICK fs \in Programs : InterpretFunction(fs)  BY DEF Interpret
<1>1. /\ functions' \in Programs /\ wide' = FALSE /\ globals' = globals
      /\ StackOK(stack)
  BY <1>0 DEF InterpretFunction, TypeOK
<1>2. PICK moved \in Moves : stack' = Push(stack, FunV(Script), moved)
  BY <1>0 DEF InterpretFunction
<1>3. FunctionsOK'
  BY <1>1, VmAssumption DEF FunctionsOK, Constants
<1>4. StackOK(stack')
  <2>1. Known(FunV(Script))  BY VmAssumption DEF Known, FunV, TValue
  <2>2. moved \in BOOLEAN  BY VmAssumption
  <2>. QED  BY <1>1, <1>2, <2>1, <2>2, PushedStack
<1>5. StackOK(stack)'  BY <1>4 DEF StackOK, IsStack
<1>6. CASE Len(frames) = FrameLimit
  <2>1. status' = "error" /\ frames' = frames  BY <1>0, <1>6 DEF InterpretFunction
  <2>. QED  BY <1>1, <1>3, <1>5, <2>1, Zenon DEF TypeOK
<1>7. CASE Len(frames) # FrameLimit
  <2>. DEFINE frame == [fn |-> Script, ip |-> 0, base |-> stack'.size - 1,
                        gen |-> stack'.gen]
  <2>1. status' = "run" /\ frames' = Append(frames, frame)
    BY <1>0, <1>7 DEF InterpretFunction
  <2>2. frame \in FrameType
    BY <1>4, VmAssumption DEF FrameType, StackOK
  <2>. HIDE DEF frame
  <2>3. /\ frames \in Seq(FrameType) /\ Len(frames) <= FrameLimit
        /\ Len(frames) \in Nat /\ FrameLimit \in Nat
    BY VmAssumption DEF TypeOK
  <2>4. frames' \in Seq(FrameType) /\ Len(frames') = Len(frames) + 1 /\ frames' # <<>>
    BY <2>1, <2>2, <2>3
  <2>5. Len(frames') <= FrameLimit  BY <1>7, <2>3, <2>4
  <2>. QED  BY <1>1, <1>3, <1>5, <2>1, <2>4, <2>5, Zenon DEF TypeOK
<1>. QED  BY <1>6, <1>7

(* What vm_init leaves is well typed.                                      *)
LEMMA InitTyped == ASSUME Init  PROVE TypeOK
<1>1. /\ functions = [fn \in FunctionIds |-> EmptyFunction]
      /\ stack = NewStack /\ frames = <<>> /\ wide = FALSE /\ status = "idle"
      /\ globals = [s \in Strings |-> IF s = Clock THEN NativeV(0) ELSE Absent]
  BY DEF Init
<1>2. FunctionsOK
  <2>1. EmptyFunction \in FunctionObject /\ EmptyFunction.constants = <<>>
    BY DEF EmptyFunction, FunctionObject
  <2>. QED  BY <1>1, <2>1, VmAssumption DEF FunctionsOK, Constants
<1>3. StackOK(stack)
  <2>1. Known(Void) /\ Void \in TValue  BY ResultsKnown DEF Known
  <2>2. INITIAL_CAPACITY \in Nat /\ INITIAL_CAPACITY >= 2
    BY InitialCapacityAssumption
  <2>3. /\ stack.items = [i \in 0 .. INITIAL_CAPACITY - 1 |-> Void]
        /\ stack.size = 0 /\ stack.cap = INITIAL_CAPACITY /\ stack.gen = 0
        /\ stack.top = 0 /\ stack.topGen = 0
        /\ IsStack(stack)
    BY <1>1 DEF NewStack, NewArray, IsStack, StackFields
  <2>. QED  BY <2>1, <2>2, <2>3 DEF StackOK
<1>4. frames \in Seq(FrameType) /\ Len(frames) <= FrameLimit
  BY <1>1, VmAssumption
<1>5. /\ DOMAIN globals = Strings
      /\ \A s \in Strings : Known(globals[s]) \/ globals[s] = Absent
  <2>1. Known(NativeV(0))  BY DEF Known, NativeV, TValue
  <2>. QED  BY <1>1, <2>1
<1>. QED  BY <1>1, <1>2, <1>3, <1>4, <1>5, Zenon DEF TypeOK

(* Whatever programs are interpreted, valid or not: the stack's size stays *)
(* within its capacity, every cell holds a value or is known to be junk,   *)
(* there are never more than FrameLimit frames, and a machine that runs    *)
(* has one (vm.c:86, array.c:35-61).                                       *)
THEOREM TypeCorrect == Spec => []TypeOK
<1>1. Init => TypeOK  BY InitTyped
<1>2. TypeOK /\ [Next]_vars => TypeOK'
  <2>1. ASSUME TypeOK, UNCHANGED vars  PROVE TypeOK'
    BY <2>1 DEF vars, TypeOK, FunctionsOK, Constants, StackOK, IsStack
  <2>. QED  BY <2>1, InterpretKeeps, StepKeeps DEF Next
<1>. QED  BY <1>1, <1>2, PTL DEF Spec

-----------------------------------------------------------------------------
(* How far v.stack_top may fall behind the array's size. *)

LagOf(s) == s.size - s.top

(* Pushing, dropping and growing keep the two together.                    *)
LEMMA LagKept ==
  ASSUME NEW s, StackOK(s)
  PROVE  /\ LagOf(s) \in Int
         /\ \A n \in Nat : n <= s.size => LagOf(Drop(s, n)) = LagOf(s)
         /\ \A v : \A moved \in BOOLEAN : LagOf(Push(s, v, moved)) = LagOf(s)
<1>1. s.size \in Nat /\ s.top \in Int  BY DEF StackOK
<1>2. ASSUME NEW n \in Nat, n <= s.size  PROVE LagOf(Drop(s, n)) = LagOf(s)
  <2>1. Drop(s, n).size = s.size - n /\ Drop(s, n).top = s.top - n
    BY <1>2, DroppedStack
  <2>. QED  BY <1>1, <2>1 DEF LagOf
<1>3. ASSUME NEW v, NEW moved \in BOOLEAN
      PROVE  LagOf(Push(s, v, moved)) = LagOf(s)
  <2>. DEFINE r == [s EXCEPT !.top = @ + 1]
              g == EnsureCapacity(r, 1, Junk, moved)
              p == Push(s, v, moved)
  <2>1. StackOK(r) /\ r.size = s.size /\ r.top = s.top + 1
    BY RaisedStack
  <2>2. StackOK(g) /\ g.size = r.size /\ g.top = r.top
    BY <2>1, GrownStack
  <2>3. p = [g EXCEPT !.items[g.size] = v, !.size = @ + 1]
    BY DEF Push, Stored
  <2>4. p.size = g.size + 1 /\ p.top = g.top
    <3>1. IsStack(g)  BY <2>2 DEF StackOK
    <3>. QED  BY <2>3, <3>1 DEF IsStack, StackFields
  <2>. QED  BY <1>1, <2>1, <2>2, <2>4 DEF LagOf
<1>. QED  BY <1>1, <1>2, <1>3 DEF LagOf

(* What an instruction leaves that drops n values and may push one.        *)
Plain(n, s) ==
  \/ s = stack
  \/ ~(stack.size < n) /\ s = Drop(stack, n)
  \/ \E v : \E moved \in BOOLEAN : s = Push(stack, v, moved)
  \/ ~(stack.size < n) /\ \E v : s = Push(Drop(stack, n), v, FALSE)

(* A step that pops and pushes keeps the lag of v.stack_top.               *)
LEMMA PlainLag ==
  ASSUME TypeOK, NEW n \in Nat, NEW s, Plain(n, s)
  PROVE  LagOf(s) = LagOf(stack)
<1>1. StackOK(stack) /\ stack.size \in Nat  BY DEF TypeOK, StackOK
<1>2. CASE ~(stack.size < n) /\ s = Drop(stack, n)
  BY <1>1, <1>2, LagKept
<1>3. ASSUME NEW v, NEW moved \in BOOLEAN, s = Push(stack, v, moved)
      PROVE  LagOf(s) = LagOf(stack)
  BY <1>1, <1>3, LagKept
<1>4. ASSUME ~(stack.size < n), NEW v, s = Push(Drop(stack, n), v, FALSE)
      PROVE  LagOf(s) = LagOf(stack)
  <2>1. n <= stack.size  BY <1>1, <1>4
  <2>2. StackOK(Drop(stack, n))  BY <1>1, <2>1, DroppedStack
  <2>3. LagOf(Drop(stack, n)) = LagOf(stack)  BY <1>1, <2>1, LagKept
  <2>. QED  BY <1>4, <2>2, <2>3, LagKept
<1>. QED  BY <1>2, <1>3, <1>4 DEF Plain

(* An operator's end. *)
LEMMA YieldPlain ==
  ASSUME NEW n \in Nat, ~(stack.size < n), NEW r, Yield(r, Drop(stack, n))
  PROVE  Plain(n, stack')
<1>1. CASE r = Undefined
  <2>1. Crash  BY <1>1 DEF Yield, Undefined, Error
  <2>. QED  BY <2>1 DEF Crash, CrashWith, Plain
<1>2. CASE r = Error
  <2>1. Raise(Drop(stack, n))  BY <1>2 DEF Yield, Undefined, Error
  <2>. QED  BY <2>1 DEF Raise, Plain
<1>3. CASE r # Undefined /\ r # Error
  <2>1. Continue(Push(Drop(stack, n), r, FALSE))  BY <1>3 DEF Yield
  <2>. QED  BY <2>1 DEF Continue, Goto, Plain
<1>. QED  BY <1>1, <1>2, <1>3

(* The instructions other than CALL and RETURN.                            *)
LEMMA PlainStepLag ==
  ASSUME TypeOK,
         \/ Constant \/ BinaryOperator \/ UnaryOperator \/ PrintValue \/ PopValue
         \/ SetGlobal \/ LoadGlobal \/ SetLocal \/ LoadLocal
         \/ Jump \/ Wide \/ Halt \/ Overrun
  PROVE  LagOf(stack') = LagOf(stack)
<1>0. /\ StackOK(stack) /\ stack.size \in Nat /\ FALSE \in BOOLEAN
      /\ \A moved \in Moves : moved \in BOOLEAN
  BY VmAssumption DEF TypeOK, StackOK
<1>. USE DEF Continue, Goto, Raise, Crash, CrashWith
<1>1. CASE Constant
  <2>1. Plain(0, stack')  BY <1>0, <1>1 DEF Constant, ConstantBy, Plain
  <2>. QED  BY <2>1, PlainLag
<1>2. CASE BinaryOperator
  <2>1. CASE stack.size < 2
    BY <1>2, <2>1 DEF BinaryOperator
  <2>2. CASE ~(stack.size < 2)
    <3>1. PICK r : Yield(r, Drop(stack, 2))
      BY <1>2, <2>2 DEF BinaryOperator
    <3>. QED  BY <2>2, <3>1, YieldPlain, PlainLag
  <2>. QED  BY <2>1, <2>2
<1>3. CASE UnaryOperator
  <2>1. CASE stack.size < 1
    BY <1>3, <2>1 DEF UnaryOperator
  <2>2. CASE ~(stack.size < 1)
    <3>1. PICK r : Yield(r, Drop(stack, 1))
      BY <1>3, <2>2 DEF UnaryOperator, Pop
    <3>. QED  BY <2>2, <3>1, YieldPlain, PlainLag
  <2>. QED  BY <2>1, <2>2
<1>4. CASE PrintValue \/ PopValue
  <2>1. Plain(1, stack')  BY <1>0, <1>4 DEF PrintValue, PopValue, Pop, Plain
  <2>. QED  BY <2>1, PlainLag
<1>5. CASE SetGlobal
  <2>1. Plain(1, stack')  BY <1>0, <1>5 DEF SetGlobal, Pop, Plain
  <2>. QED  BY <2>1, PlainLag
<1>6. CASE LoadGlobal
  <2>1. Plain(0, stack')  BY <1>0, <1>6 DEF LoadGlobal, Plain
  <2>. QED  BY <2>1, PlainLag
<1>7. CASE SetLocal
  <2>1. stack' = stack \/ \E at, v : stack' = [stack EXCEPT !.items[at] = v]
    BY <1>7 DEF SetLocal
  <2>2. ASSUME NEW at, NEW v, stack' = [stack EXCEPT !.items[at] = v]
        PROVE  stack'.size = stack.size /\ stack'.top = stack.top
    <3>1. IsStack(stack)  BY <1>0 DEF StackOK
    <3>. QED  BY <2>2, <3>1 DEF IsStack, StackFields
  <2>. QED  BY <2>1, <2>2 DEF LagOf
<1>8. CASE LoadLocal
  <2>1. PICK moved \in Moves :
          \/ stack' = EnsureCapacity(stack, 1, Junk, moved)
          \/ \E v : stack' = Push(stack, v, moved)
    BY <1>8 DEF LoadLocal
  <2>2. LagOf(EnsureCapacity(stack, 1, Junk, moved)) = LagOf(stack)
    BY <1>0, GrownStack DEF LagOf
  <2>3. ASSUME NEW v, stack' = Push(stack, v, moved)
        PROVE  LagOf(stack') = LagOf(stack)
    BY <1>0, <2>3, LagKept
  <2>. QED  BY <2>1, <2>2, <2>3
<1>9. CASE Jump
  <2>1. Plain(1, stack')  BY <1>0, <1>9 DEF Jump, Pop, Plain
  <2>. QED  BY <2>1, PlainLag
<1>10. CASE Wide \/ Halt \/ Overrun
  BY <1>10 DEF Wide, Halt, Overrun
<1>. QED  BY <1>1, <1>2, <1>3, <1>4, <1>5, <1>6, <1>7, <1>8, <1>9, <1>10

(* A call leaves the stack alone, unless a native is called: its arguments *)
(* and the native itself are taken off the pointer only.                   *)
LEMMA CallLag == ASSUME TypeOK, Call  PROVE LagStep
<1>. DEFINE at == stack.top - 1 - Operand
            callee == Cell(stack, at)
<1>1. /\ Fetched("CALL") /\ Operand \in Nat /\ StackOK(stack)
      /\ stack.size \in Int /\ stack.top \in Int /\ Op = "CALL"
  BY FetchedOperand DEF Call, Fetched, TypeOK, NamedOps, StackOK
<1>2. CASE stack' = stack
  BY <1>2 DEF LagStep, Lag
<1>3. CASE stack' # stack
  <2>1. callee.type = "native" /\ CallNative(Operand)
    BY <1>3, Zenon DEF Call, Crash, CrashWith, EnterFunction, Raise
  <2>. DEFINE l == [stack EXCEPT !.top = @ - (Operand + 1)]
  <2>2. PICK moved \in BOOLEAN : stack' = Push(l, IntV(0), moved)
    BY <2>1, VmAssumption DEF CallNative, Continue, Goto
  <2>3. StackOK(l) /\ l.size = stack.size /\ l.top = stack.top - (Operand + 1)
    <3>1. Operand + 1 \in Int  BY <1>1
    <3>. QED  BY <1>1, <3>1, LoweredStack
  <2>4. LagOf(stack') = LagOf(l)  BY <2>2, <2>3, LagKept
  <2>5. Lag' = Lag + Operand + 1  BY <1>1, <2>3, <2>4 DEF Lag, LagOf
  <2>. QED  BY <1>1, <2>1, <2>5 DEF LagStep
<1>. QED  BY <1>2, <1>3

(* A return brings the pointer closer to the size, if it changes anything. *)
LEMMA ReturnLag == ASSUME TypeOK, Return  PROVE LagStep
<1>. DEFINE above == stack.top - 1 - Frame.base
            diff == IF above > 0 THEN above ELSE 0
            left == [stack EXCEPT !.size = @ - 1 - diff, !.top = Frame.base,
                                  !.topGen = Frame.gen]
<1>1. /\ StackOK(stack) /\ status = "run" /\ Frame \in FrameType
      /\ stack.size \in Nat /\ stack.top \in Int /\ Op = "RETURN"
  BY RunningFrame DEF Return, Fetched, TypeOK, StackOK
<1>2. Frame.base \in Int /\ Frame.gen \in Nat  BY <1>1 DEF FrameType
<1>3. /\ diff \in Nat
      /\ \/ diff = stack.top - 1 - Frame.base
         \/ diff = 0 /\ stack.top - 1 - Frame.base <= 0
  BY <1>1, <1>2
<1>. HIDE DEF diff
<1>4. CASE stack.size < 1 + diff \/ stack.topGen # Frame.gen
  BY <1>4 DEF Return, Crash, CrashWith, LagStep, Lag, diff
<1>5. CASE ~(stack.size < 1 + diff \/ stack.topGen # Frame.gen)
  <2>1. stack' = Push(left, Last(stack), FALSE)
    BY <1>5 DEF Return, diff
  <2>2. /\ left.items = stack.items /\ left.size = stack.size - 1 - diff
        /\ left.cap = stack.cap /\ left.gen = stack.gen
        /\ left.top = Frame.base /\ left.topGen = Frame.gen
        /\ IsStack(left)
    <3>1. IsStack(stack)  BY <1>1 DEF StackOK
    <3>. QED  BY <3>1 DEF IsStack, StackFields
  <2>. HIDE DEF left
  <2>3. StackOK(left)
    <3>1. /\ stack.cap \in Nat /\ stack.cap >= 2 /\ stack.size \in 0 .. stack.cap
          /\ stack.items \in [0 .. stack.cap - 1 -> TValue]
          /\ \A i \in 0 .. stack.cap - 1 : Known(stack.items[i])
          /\ stack.gen \in Nat /\ stack.topGen \in 0 .. stack.gen
      BY <1>1 DEF StackOK
    <3>2. left.size \in 0 .. left.cap
      BY <1>1, <1>3, <1>5, <2>2, <3>1
    <3>3. left.topGen \in 0 .. left.gen /\ left.top \in Int
      BY <1>2, <1>5, <2>2, <3>1
    <3>. QED  BY <2>2, <3>1, <3>2, <3>3, Zenon DEF StackOK
  <2>4. LagOf(stack') = LagOf(left)  BY <2>1, <2>3, LagKept
  <2>5. Lag' = stack.size - 1 - diff - Frame.base
    BY <2>2, <2>4 DEF Lag, LagOf
  <2>6. Lag' = Lag \/ Lag' < Lag
    BY <1>1, <1>2, <1>3, <2>5 DEF Lag
  <2>. QED  BY <1>1, <2>6 DEF LagStep
<1>. QED  BY <1>4, <1>5

(* Whatever program is interpreted: only the call of a native lets         *)
(* v.stack_top fall behind the size of the stack, by as many cells as the  *)
(* native had arguments and one more, and only a return lets it come       *)
(* closer (vm.c:107-112, 185, 190-197).                                    *)
THEOREM OnlyNativesLag == Spec => LagSteps
<1>1. TypeOK /\ [Next]_vars => [LagStep]_vars
  <2>1. ASSUME TypeOK, Interpret  PROVE LagStep
    <3>1. PICK moved \in BOOLEAN : stack' = Push(stack, FunV(Script), moved)
      BY <2>1, VmAssumption DEF Interpret, InterpretFunction
    <3>2. LagOf(stack') = LagOf(stack)
      BY <2>1, <3>1, LagKept DEF TypeOK
    <3>. QED  BY <3>2 DEF LagStep, Lag, LagOf
  <2>2. ASSUME TypeOK, ReturnFromScript  PROVE LagStep
    BY <2>2 DEF ReturnFromScript, Crash, CrashWith, Fetched, LagStep, Lag
  <2>3. ASSUME TypeOK, Step  PROVE LagStep
    <3>1. CASE Call  BY <2>3, <3>1, CallLag
    <3>2. CASE Return  BY <2>3, <3>2, ReturnLag
    <3>3. CASE ~(Call \/ Return \/ ReturnFromScript)
      <4>1. LagOf(stack') = LagOf(stack)
        BY <2>3, <3>3, PlainStepLag DEF Step
      <4>. QED  BY <4>1 DEF LagStep, Lag, LagOf
    <3>. QED  BY <2>2, <2>3, <3>1, <3>2, <3>3
  <2>. QED  BY <2>1, <2>3 DEF Next
<1>2. QED  BY <1>1, TypeCorrect, PTL DEF Spec, LagSteps

HIDE DEF Script


-----------------------------------------------------------------------------
(* Cells. *)

(* Growing keeps the cells in use, and moves the block only if realloc may. *)
LEMMA GrownCells ==
  ASSUME NEW s, StackOK(s), NEW moved \in BOOLEAN
  PROVE  LET g == EnsureCapacity(s, 1, Junk, moved)
         IN  /\ \A c \in 0 .. s.size - 1 : g.items[c] = s.items[c]
             /\ g.gen >= s.gen /\ g.gen \in Nat
             /\ ~moved => g.gen = s.gen
<1>. DEFINE c == GrownCapacity(s.cap, s.size + 1)
            g == EnsureCapacity(s, 1, Junk, moved)
<1>0. s.gen \in Nat /\ s.cap \in Nat /\ s.size \in 0 .. s.cap  BY DEF StackOK
<1>1. CASE ~(s.cap < s.size + 1)
  <2>1. g = s  BY <1>1 DEF EnsureCapacity
  <2>. QED  BY <1>0, <2>1
<1>2. CASE s.cap < s.size + 1
  <2>1. c = s.cap * 2  BY <1>2 DEF GrownCapacity, Doubled, StackOK
  <2>2. g = Realloc(s, c, Junk, moved)  BY <1>2 DEF EnsureCapacity
  <2>3. IsStack(s)  BY DEF StackOK
  <2>. HIDE DEF c
  <2>4. /\ g.items = [i \in 0 .. c - 1 |-> IF i < s.cap THEN s.items[i] ELSE Junk]
        /\ g.gen = IF moved THEN s.gen + 1 ELSE s.gen
    BY <2>2, <2>3 DEF Realloc, IsStack, StackFields
  <2>. HIDE DEF g
  <2>5. ASSUME NEW i \in 0 .. s.size - 1  PROVE g.items[i] = s.items[i]
    <3>1. i \in 0 .. c - 1 /\ i < s.cap  BY <1>0, <2>1
    <3>. QED  BY <2>4, <3>1
  <2>. QED  BY <1>0, <2>4, <2>5 DEF g
<1>. QED  BY <1>1, <1>2

(* A push writes the cell above those in use.                              *)
LEMMA PushedCells ==
  ASSUME NEW s, StackOK(s), NEW v, Known(v), NEW moved \in BOOLEAN
  PROVE  LET p == Push(s, v, moved)
         IN  /\ p.items[s.size] = v
             /\ \A c \in 0 .. s.size - 1 : p.items[c] = s.items[c]
             /\ p.gen >= s.gen /\ p.gen \in Nat /\ p.topGen = s.topGen
             /\ ~moved => p.gen = s.gen
<1>. DEFINE r == [s EXCEPT !.top = @ + 1]
            g == EnsureCapacity(r, 1, Junk, moved)
            p == Push(s, v, moved)
<1>1. StackOK(r) /\ r.size = s.size  BY RaisedStack
<1>2. r.items = s.items /\ r.gen = s.gen /\ r.topGen = s.topGen
  <2>1. IsStack(s)  BY DEF StackOK
  <2>. QED  BY <2>1 DEF IsStack, StackFields
<1>3. StackOK(g) /\ g.size = r.size /\ g.size < g.cap /\ g.topGen = r.topGen
  BY <1>1, GrownStack
<1>4. /\ \A c \in 0 .. r.size - 1 : g.items[c] = r.items[c]
      /\ g.gen >= r.gen /\ g.gen \in Nat
      /\ ~moved => g.gen = r.gen
  BY <1>1, GrownCells
<1>5. p = [g EXCEPT !.items[g.size] = v, !.size = @ + 1]
  BY DEF Push, Stored
<1>6. /\ p.gen = g.gen /\ p.topGen = g.topGen
      /\ p.items = [g.items EXCEPT ![g.size] = v]
  <2>1. IsStack(g)  BY <1>3 DEF StackOK
  <2>. QED  BY <1>5, <2>1 DEF IsStack, StackFields
<1>. HIDE DEF r, g, p
<1>7. g.items \in [0 .. g.cap - 1 -> TValue] /\ g.size \in Nat /\ g.cap \in Nat
  BY <1>3 DEF StackOK
<1>8. g.size \in 0 .. g.cap - 1  BY <1>3, <1>7
<1>9. p.items[g.size] = v
      /\ \A c \in 0 .. g.size - 1 : p.items[c] = g.items[c]
  BY <1>6, <1>7, <1>8
<1>. QED  BY <1>1, <1>2, <1>3, <1>4, <1>6, <1>9 DEF p

-----------------------------------------------------------------------------
(* What an instruction may make of the stack: its frame's first cell and   *)
(* what is below it stay, what is above it is clean.                       *)
Local(s) ==
  /\ StackOK(s) /\ s.top = s.size /\ s.size >= Frame.base + 1
  /\ s.gen >= stack.gen
  /\ Moves = {FALSE} => s.gen = stack.gen
  /\ \A c \in 0 .. Frame.base : s.items[c] = stack.items[c]
  /\ \A c \in Frame.base + 1 .. s.size - 1 : Clean(s.items[c])

(* The machine runs, and is in step with its code.                         *)
Running(hs, low) ==
  TypeOK /\ Grounded /\ status = "run" /\ InStep(hs, low)

(* The frame of a running machine.                                         *)
LEMMA RunningTop ==
  ASSUME NEW hs, NEW low, Running(hs, low)
  PROVE  /\ Len(frames) \in Nat /\ DOMAIN frames = 1 .. Len(frames)
         /\ Len(frames) \in low + 1 .. Len(frames) /\ low \in Nat
         /\ frames \in Seq(FrameType) /\ Frame \in FrameType
         /\ Frame.base \in Nat /\ Frame.ip \in Int /\ Frame.fn \in FunctionIds
         /\ stack.size \in Nat /\ Frame.base + 1 <= stack.size
         /\ \A i \in 1 .. Len(frames) : frames[i].base \in 0 .. Frame.base
         /\ frames[low + 1].base \in 0 .. Frame.base
<1>1. /\ Len(frames) \in Nat \ {0} /\ DOMAIN frames = 1 .. Len(frames)
      /\ Frame \in FrameType /\ frames \in Seq(FrameType)
  BY RunningFrame DEF Running, TypeOK
<1>2. low \in Nat /\ low < Len(frames)  BY DEF Running, InStep
<1>3. stack.size \in Nat  BY DEF Running, TypeOK, StackOK
<1>4. Frame.base \in 0 .. stack.size - 1
  BY <1>1 DEF Running, Grounded, CallBinding, Frame
<1>5. \A i \in 1 .. Len(frames) : frames[i].base \in 0 .. Frame.base
  <2>. SUFFICES ASSUME NEW i \in 1 .. Len(frames) PROVE frames[i].base \in 0 .. Frame.base
    OBVIOUS
  <2>1. frames[i].base \in 0 .. stack.size - 1
    BY <1>1 DEF Running, Grounded, CallBinding
  <2>2. \A k, j \in 1 .. Len(frames) : k < j => frames[k].base < frames[j].base
    <3>1. FramesNested /\ DOMAIN frames = 1 .. Len(frames)
      BY <1>1, Zenon DEF Running, Grounded
    <3>. QED  BY <3>1 DEF FramesNested
  <2>3. (i = Len(frames) \/ i < Len(frames)) /\ Len(frames) \in 1 .. Len(frames)
    <3>1. Len(frames) \in Nat \ {0}  BY <1>1
    <3>. QED  BY <3>1
  <2>5. frames[i].base = Frame.base \/ frames[i].base < Frame.base
    BY <2>2, <2>3, Zenon DEF Frame
  <2>. QED  BY <1>3, <1>4, <2>1, <2>5
<1>6. Frame.base \in Nat /\ Frame.base + 1 <= stack.size  BY <1>3, <1>4
<1>7. Frame.ip \in Int /\ Frame.fn \in FunctionIds  BY <1>1 DEF FrameType
<1>8. low + 1 \in 1 .. Len(frames) /\ Len(frames) \in low + 1 .. Len(frames)
  BY <1>1, <1>2
<1>. QED  BY <1>1, <1>2, <1>3, <1>5, <1>6, <1>7, <1>8

(* The place where a running machine stands, in the map of its code.       *)
Here(hs) == hs[Frame.fn][<<Frame.ip, wide>>]

(* The place is mapped, and the stack ends where the map says.              *)
LEMMA HereMapped ==
  ASSUME NEW hs, NEW low, Running(hs, low)
  PROVE  /\ IsMap(functions, Frame.fn, hs[Frame.fn])
         /\ <<Frame.ip, wide>> \in DOMAIN hs[Frame.fn]
         /\ Here(hs) \in Nat \ {0} /\ Frame.ip \in Nat
         /\ stack.size = Frame.base + Here(hs)
         /\ Frame.fn = Script <=> Len(frames) = low + 1
<1>1. Len(frames) \in low + 1 .. Len(frames) /\ Frame.fn \in FunctionIds
  BY RunningTop
<1>2. wide \in BOOLEAN  BY DEF Running, TypeOK
<1>3. Place(Len(frames)) = <<Frame.ip, wide>>
  BY <1>2 DEF Place, Frame
<1>4. /\ Place(Len(frames)) \in DOMAIN hs[Frame.fn]
      /\ End(Len(frames)) = Frame.base + hs[Frame.fn][Place(Len(frames))]
      /\ Frame.fn = Script <=> Len(frames) = low + 1
  BY <1>1, Zenon DEF Running, InStep, Frame
<1>5. End(Len(frames)) = stack.size  BY DEF End
<1>6. IsMap(functions, Frame.fn, hs[Frame.fn])  BY <1>1 DEF Running, InStep
<1>7. Here(hs) \in Nat \ {0} /\ Frame.ip \in Nat
  BY <1>3, <1>4, <1>6 DEF IsMap, Here
<1>. QED  BY <1>3, <1>4, <1>5, <1>6, <1>7 DEF Here

(* What a map says of the instruction at which the machine stands.         *)
LEMMA PlaceFlows ==
  ASSUME TypeOK, NEW hs, IsMap(functions, Frame.fn, hs[Frame.fn]),
         <<Frame.ip, wide>> \in DOMAIN hs[Frame.fn], NEW op, Fetched(op)
  PROVE  LET code == functions[Frame.fn].code
             p    == <<Frame.ip, wide>>
         IN  /\ Flows(functions, Frame.fn, hs[Frame.fn], p)
             /\ OpAt(code, p[1]) = op
             /\ NextAt(code, p) = Following
             /\ ArgAt(code, p) = Operand
             /\ IndexAt(code, p) = IndexOf(op)
             /\ DistAt(code, p) = ShortAt(Code, Frame.ip + 1)
             /\ hs[Frame.fn][p] = Here(hs)
<1>. DEFINE h == hs[Frame.fn]
            p == <<Frame.ip, wide>>
<1>1. p \in DOMAIN h /\ IsMap(functions, Frame.fn, h) /\ Frame.ip \in Nat
  BY DEF IsMap
<1>2. InCode(1) /\ Op = op /\ Len(Code) \in Nat
  BY RunningFrame DEF Fetched
<1>3. p[1] # Len(functions[Frame.fn].code)
  BY <1>1, <1>2 DEF InCode, Code
<1>4. Flows(functions, Frame.fn, h, p)
  BY <1>1, <1>3 DEF IsMap, Code
<1>5. p[1] = Frame.ip /\ p[2] = wide /\ functions[Frame.fn].code = Code
  BY DEF Code
<1>6. OpAt(Code, p[1]) = op  BY <1>2, <1>5 DEF Op
<1>. HIDE DEF p
<1>7. /\ NextAt(Code, p) = Following
      /\ ArgAt(Code, p) = Operand
      /\ IndexAt(Code, p) = IndexOf(op)
      /\ DistAt(Code, p) = ShortAt(Code, Frame.ip + 1)
      /\ h[p] = Here(hs)
  BY <1>2, <1>5, <1>6
     DEF NextAt, Length, Following, ArgAt, Operand, IndexAt, IndexOf, DistAt, Here, p
<1>. QED  BY <1>4, <1>5, <1>6, <1>7 DEF p

(* The same of a machine in step.                                          *)
LEMMA HereFlows ==
  ASSUME NEW hs, NEW low, Running(hs, low), NEW op, Fetched(op)
  PROVE  LET code == functions[Frame.fn].code
             p    == <<Frame.ip, wide>>
         IN  /\ Flows(functions, Frame.fn, hs[Frame.fn], p)
             /\ OpAt(code, p[1]) = op
             /\ NextAt(code, p) = Following
             /\ ArgAt(code, p) = Operand
             /\ IndexAt(code, p) = IndexOf(op)
             /\ DistAt(code, p) = ShortAt(Code, Frame.ip + 1)
             /\ hs[Frame.fn][p] = Here(hs)
<1>1. TypeOK /\ IsMap(functions, Frame.fn, hs[Frame.fn])
      /\ <<Frame.ip, wide>> \in DOMAIN hs[Frame.fn]
  BY HereMapped DEF Running
<1>. QED  BY <1>1, PlaceFlows, Zenon

-----------------------------------------------------------------------------
(* What instructions make of the stack.                                    *)

(* The stack as it is.                                                     *)
LEMMA LocalStack ==
  ASSUME NEW hs, NEW low, Running(hs, low)
  PROVE  Local(stack) /\ StackOK(stack) /\ stack.gen \in Nat
<1>1. StackOK(stack) /\ OneStack  BY DEF Running, TypeOK, Grounded
<1>2. \A c \in Frame.base + 1 .. stack.size - 1 : Clean(stack.items[c])
  <2>. SUFFICES ASSUME NEW c \in Frame.base + 1 .. stack.size - 1
                PROVE  Clean(stack.items[c])
    OBVIOUS
  <2>1. c \in frames[low + 1].base + 1 .. stack.size - 1
    <3>1. frames[low + 1].base \in 0 .. Frame.base /\ Frame.base \in Nat /\ stack.size \in Nat
      BY RunningTop
    <3>. QED  BY <3>1
  <2>. QED  BY <2>1 DEF Running, InStep, Cell
<1>3. stack.gen \in Nat  BY <1>1 DEF StackOK
<1>4. stack.size >= Frame.base + 1  BY RunningTop
<1>. QED  BY <1>1, <1>2, <1>3, <1>4 DEF Local, OneStack

(* Values are dropped that are above the frame's first cell.               *)
LEMMA LocalDropped ==
  ASSUME NEW hs, NEW low, Running(hs, low), NEW s, Local(s), NEW n \in Nat,
         n <= s.size - Frame.base - 1
  PROVE  Local(Drop(s, n)) /\ Drop(s, n).size = s.size - n
<1>. DEFINE d == Drop(s, n)
<1>1. s.size \in Nat /\ Frame.base \in Nat /\ StackOK(s)
  BY RunningTop DEF Local, StackOK
<1>2. n <= s.size  BY <1>1
<1>3. StackOK(d) /\ d.size = s.size - n /\ d.top = s.top - n
  BY <1>1, <1>2, DroppedStack
<1>4. d.items = s.items /\ d.gen = s.gen
  <2>1. IsStack(s)  BY <1>1 DEF StackOK
  <2>. QED  BY <2>1 DEF IsStack, StackFields, Drop
<1>. HIDE DEF d
<1>5. d.size >= Frame.base + 1  BY <1>1, <1>3
<1>6. \A c \in Frame.base + 1 .. d.size - 1 : c \in Frame.base + 1 .. s.size - 1
  BY <1>1, <1>3
<1>. QED  BY <1>3, <1>4, <1>5, <1>6 DEF Local, d

(* A clean value is pushed.                                                *)
LEMMA LocalPushed ==
  ASSUME NEW hs, NEW low, Running(hs, low), NEW s, Local(s),
         NEW v, Known(v), Clean(v), NEW moved \in Moves \cup {FALSE}
  PROVE  Local(Push(s, v, moved)) /\ Push(s, v, moved).size = s.size + 1
<1>. DEFINE p == Push(s, v, moved)
<1>1. s.size \in Nat /\ Frame.base \in Nat /\ StackOK(s) /\ s.gen \in Nat
  BY RunningTop DEF Local, StackOK
<1>2. moved \in BOOLEAN /\ (Moves = {FALSE} => ~moved)  BY VmAssumption
<1>3. StackOK(p) /\ p.size = s.size + 1 /\ p.top = s.top + 1
  BY <1>1, <1>2, PushedStack
<1>4. /\ p.items[s.size] = v
      /\ \A c \in 0 .. s.size - 1 : p.items[c] = s.items[c]
      /\ p.gen >= s.gen /\ p.gen \in Nat
      /\ ~moved => p.gen = s.gen
  BY <1>1, <1>2, PushedCells
<1>. HIDE DEF p
<1>5. s.size >= Frame.base + 1 /\ s.gen >= stack.gen /\ s.top = s.size
      /\ stack.gen \in Nat
  BY LocalStack DEF Local
<1>6. \A c \in 0 .. Frame.base : p.items[c] = stack.items[c]
  <2>1. \A c \in 0 .. Frame.base : c \in 0 .. s.size - 1  BY <1>1, <1>5
  <2>. QED  BY <1>4, <2>1 DEF Local
<1>7. \A c \in Frame.base + 1 .. p.size - 1 : Clean(p.items[c])
  <2>1. \A c \in Frame.base + 1 .. p.size - 1 :
          c = s.size \/ (c \in Frame.base + 1 .. s.size - 1 /\ c \in 0 .. s.size - 1)
    BY <1>1, <1>3
  <2>. QED  BY <1>4, <2>1 DEF Local
<1>8. p.size >= Frame.base + 1 /\ p.gen >= stack.gen /\ p.top = p.size
  BY <1>1, <1>3, <1>4, <1>5
<1>9. Moves = {FALSE} => p.gen = stack.gen  BY <1>2, <1>4 DEF Local
<1>. QED  BY <1>3, <1>6, <1>7, <1>8, <1>9 DEF Local, p

(* The last value, above the frame's first cell.                           *)
LEMMA LocalLast ==
  ASSUME NEW hs, NEW low, Running(hs, low), NEW s, Local(s), s.size >= Frame.base + 2
  PROVE  Clean(Last(s)) /\ Known(Last(s)) /\ Last(s) \in TValue
<1>1. s.size \in Nat /\ Frame.base \in Nat /\ StackOK(s)
  BY RunningTop DEF Local, StackOK
<1>2. s.size - 1 \in Frame.base + 1 .. s.size - 1 /\ s.size >= 1  BY <1>1
<1>. QED  BY <1>1, <1>2, LastKnown DEF Local, Last

-----------------------------------------------------------------------------
(* How the machine stays in step. *)

(* The frames are those there were, but for where the last one stands.     *)
SameFrames ==
  /\ Len(frames') = Len(frames) /\ DOMAIN frames' = DOMAIN frames
  /\ \A i \in DOMAIN frames :
       /\ frames'[i].base = frames[i].base /\ frames'[i].fn = frames[i].fn
       /\ frames'[i].gen = frames[i].gen
       /\ i # Len(frames) => frames'[i].ip = frames[i].ip

GlobalsClean == \A s \in Readable : globals[s] = Absent \/ Clean(globals[s])

(* Moving the ip is all that happens to the frames.                        *)
LEMMA AdvancedSame ==
  ASSUME TypeOK, status = "run", NEW ip \in Int, frames' = Advanced(ip)
  PROVE  SameFrames /\ frames'[Len(frames')].ip = ip
<1>1. frames \in Seq(FrameType) /\ Len(frames) \in Nat \ {0}
      /\ DOMAIN frames = 1 .. Len(frames)
  BY RunningFrame DEF TypeOK
<1>2. Len(frames') = Len(frames)  BY AdvancedFrames
<1>3. frames' = [frames EXCEPT ![Len(frames)].ip = ip]  BY DEF Advanced
<1>4. DOMAIN frames' = DOMAIN frames  BY <1>3
<1>5. Len(frames) \in DOMAIN frames
  <2>1. Len(frames) \in Nat \ {0} /\ DOMAIN frames = 1 .. Len(frames)  BY <1>1
  <2>. QED  BY <2>1
<1>6. /\ frames'[Len(frames)] = [frames[Len(frames)] EXCEPT !.ip = ip]
      /\ \A i \in DOMAIN frames : i # Len(frames) => frames'[i] = frames[i]
  BY <1>3, <1>5
<1>7. frames[Len(frames)] \in FrameType  BY <1>1, RunningFrame DEF Frame
<1>8. LET f == frames[Len(frames)]
          g == [f EXCEPT !.ip = ip]
      IN  g.base = f.base /\ g.fn = f.fn /\ g.gen = f.gen /\ g.ip = ip
  BY <1>7 DEF FrameType
<1>. QED  BY <1>2, <1>4, <1>6, <1>8 DEF SameFrames

(* The calls stay bound and the frames nested.                             *)
LEMMA GroundKept ==
  ASSUME NEW hs, NEW low, Running(hs, low), NEW s, Local(s), stack' = s,
         SameFrames, GlobalsClean'
  PROVE  Grounded'
<1>1. /\ StackOK(s) /\ s.top = s.size /\ s.size >= Frame.base + 1 /\ s.gen >= stack.gen
      /\ s.size \in Nat /\ s.gen \in Nat /\ stack.gen \in Nat
      /\ \A c \in 0 .. Frame.base : s.items[c] = stack.items[c]
  BY LocalStack DEF Local, StackOK
<1>2. /\ DOMAIN frames = 1 .. Len(frames) /\ Len(frames) \in Nat \ {0}
      /\ Frame.base \in Nat
      /\ \A i \in 1 .. Len(frames) : frames[i].base \in 0 .. Frame.base
  BY RunningTop, RunningFrame DEF Running
<1>3. /\ DOMAIN frames' = DOMAIN frames /\ frames # <<>>
      /\ \A i \in DOMAIN frames :
           /\ frames'[i].base = frames[i].base /\ frames'[i].fn = frames[i].fn
           /\ frames'[i].gen = frames[i].gen
  BY <1>2 DEF SameFrames
<1>4. CallBinding'
  <2>. SUFFICES ASSUME NEW i \in DOMAIN frames
                PROVE  /\ frames[i].base \in 0 .. s.size - 1
                       /\ s.items[frames[i].base] = FunV(frames[i].fn)
    BY <1>3 DEF CallBinding, Cell
  <2>1. frames[i].base \in 0 .. Frame.base  BY <1>2
  <2>2. stack.items[frames[i].base] = FunV(frames[i].fn)
    BY DEF Running, Grounded, CallBinding, Cell
  <2>3. frames[i].base \in 0 .. s.size - 1  BY <1>1, <1>2, <2>1
  <2>. QED  BY <1>1, <2>1, <2>2, <2>3
<1>5. FramesNested'
  BY <1>3 DEF Running, Grounded, FramesNested
<1>6. frames' # <<>> /\ frames'[1].base = 0
  <2>1. frames[1].base = 0  BY <1>3 DEF Running, Grounded
  <2>2. 1 \in DOMAIN frames  BY <1>2
  <2>. QED  BY <1>2, <1>3, <2>1, <2>2
<1>7. \A i \in DOMAIN frames' : frames'[i].gen <= stack'.gen
  <2>. SUFFICES ASSUME NEW i \in DOMAIN frames PROVE frames[i].gen <= s.gen
    BY <1>3
  <2>1. frames[i].gen <= stack.gen  BY DEF Running, Grounded
  <2>2. frames[i].gen \in Nat
    <3>1. frames \in Seq(FrameType) /\ i \in 1 .. Len(frames)
      BY <1>2 DEF Running, TypeOK
    <3>2. frames[i] \in FrameType  BY <3>1
    <3>. QED  BY <3>2 DEF FrameType
  <2>. QED  BY <1>1, <2>1, <2>2
<1>8. OneStack'  BY <1>1 DEF OneStack
<1>. QED  BY <1>4, <1>5, <1>6, <1>7, <1>8 DEF Grounded, GlobalsClean

(* The frame has as many cells as the map says of the place it goes on at. *)
LEMMA StepKept ==
  ASSUME NEW hs, NEW low, Running(hs, low), NEW s, Local(s), stack' = s,
         SameFrames, functions' = functions, wide' \in BOOLEAN,
         LET h == hs[Frame.fn]
             p == <<frames'[Len(frames')].ip, wide'>>
         IN  p \in DOMAIN h /\ h[p] = s.size - Frame.base
  PROVE  InStep(hs, low)'
<1>. DEFINE top == Len(frames)
<1>1. /\ DOMAIN frames = 1 .. top /\ top \in Nat /\ low \in Nat /\ low + 1 \in 1 .. top
      /\ top \in low + 1 .. top
  BY RunningTop
<1>2. /\ Len(frames') = top
      /\ \A i \in 1 .. top :
           /\ frames'[i].base = frames[i].base /\ frames'[i].fn = frames[i].fn
           /\ i # top => frames'[i].ip = frames[i].ip
  BY <1>1 DEF SameFrames
<1>3. s.size \in Nat /\ Frame.base \in Nat
  <2>1. StackOK(s)  BY DEF Local
  <2>. QED  BY <2>1, RunningTop DEF StackOK
<1>4. low \in Nat /\ low < Len(frames')
  <2>1. low < top  BY DEF Running, InStep
  <2>. QED  BY <1>1, <1>2, <2>1
<1>5. \A f \in FunctionIds : IsMap(functions', f, hs[f])
  BY DEF Running, InStep
<1>6. ASSUME NEW i \in low + 1 .. top
      PROVE  /\ Place(i)' \in DOMAIN hs[frames'[i].fn]
             /\ End(i)' = frames'[i].base + hs[frames'[i].fn][Place(i)']
             /\ frames'[i].fn = Script <=> i = low + 1
  <2>1. i \in 1 .. top /\ (i # top => i + 1 \in 1 .. top)
    <3>. HIDE DEF top
    <3>1. top \in Nat /\ low \in Nat  BY <1>1
    <3>. QED  BY <3>1
  <2>2. /\ Place(i) \in DOMAIN hs[frames[i].fn]
        /\ End(i) = frames[i].base + hs[frames[i].fn][Place(i)]
        /\ frames[i].fn = Script <=> i = low + 1
    BY DEF Running, InStep
  <2>3. CASE i # top
    <3>1. Place(i)' = Place(i)  BY <1>2, <2>1, <2>3 DEF Place
    <3>2. End(i)' = End(i)  BY <1>2, <2>1, <2>3 DEF End
    <3>. QED  BY <1>2, <2>1, <2>2, <3>1, <3>2
  <2>4. CASE i = top
    <3>1. Place(i)' = <<frames'[Len(frames')].ip, wide'>>
      BY <1>2, <2>4 DEF Place
    <3>2. End(i)' = s.size  BY <1>2, <2>4 DEF End
    <3>3. frames'[i].fn = Frame.fn /\ frames'[i].base = Frame.base
      BY <1>2, <2>1, <2>4 DEF Frame
    <3>. HIDE DEF top
    <3>4. s.size = Frame.base + (s.size - Frame.base)  BY <1>3
    <3>. QED  BY <1>2, <2>1, <2>2, <3>1, <3>2, <3>3, <3>4
  <2>. QED  BY <2>3, <2>4
<1>7. \A c \in frames'[low + 1].base + 1 .. stack'.size - 1 : Clean(Cell(stack, c)')
  <2>. SUFFICES ASSUME NEW c \in frames[low + 1].base + 1 .. s.size - 1
                PROVE  Clean(s.items[c])
    BY <1>1, <1>2 DEF Cell
  <2>1. frames[low + 1].base \in 0 .. Frame.base /\ stack.size \in Nat
        /\ Frame.base + 1 <= stack.size
    BY RunningTop
  <2>2. CASE c <= Frame.base
    <3>1. c \in 0 .. Frame.base /\ c \in frames[low + 1].base + 1 .. stack.size - 1
      BY <1>3, <2>1, <2>2
    <3>2. Clean(stack.items[c])  BY <3>1 DEF Running, InStep, Cell
    <3>. QED  BY <3>1, <3>2 DEF Local
  <2>3. CASE ~(c <= Frame.base)
    <3>1. c \in Frame.base + 1 .. s.size - 1  BY <1>3, <2>1, <2>3
    <3>. QED  BY <3>1 DEF Local
  <2>. QED  BY <2>2, <2>3
<1>. HIDE DEF top
<1>. QED  BY <1>2, <1>4, <1>5, <1>6, <1>7 DEF InStep

-----------------------------------------------------------------------------
(* The ways an instruction ends. *)

(* What the code cannot know.                                              *)
Excused ==
  \/ stack'.gen > 0
  \/ InCode(1) /\ Op = "PRINT" /\ Last(stack).type = "native"
  \/ Frame.ip = Len(Code)
  \/ Overflows

Kept(hs, low) ==
  /\ Grounded'
  /\ status' = "run" /\ Len(frames') > low => InStep(hs, low)'
  /\ status' = "undefined" => Excused
  /\ status' = "halted" /\ low = 0 => stack'.size = Len(frames')
  /\ Moves = {FALSE} => stack'.gen = stack.gen

(* The globals are as they were.                                           *)
LEMMA GlobalsKept ==
  ASSUME Grounded, globals' = globals
  PROVE  GlobalsClean'
BY DEF Grounded, GlobalsClean

(* The loop goes on, at a place that the map knows.                        *)
LEMMA GotoKept ==
  ASSUME NEW hs, NEW low, Running(hs, low), NEW s, Local(s), NEW ip \in Int,
         Goto(ip, s), GoesTo(hs[Frame.fn], ip, s.size - Frame.base)
  PROVE  Kept(hs, low)
<1>1. /\ stack' = s /\ frames' = Advanced(ip) /\ wide' = FALSE
      /\ functions' = functions /\ globals' = globals /\ status' = "run"
  BY DEF Goto, Running
<1>2. SameFrames /\ frames'[Len(frames')].ip = ip
  BY <1>1, AdvancedSame DEF Running
<1>3. Grounded'  BY <1>1, <1>2, GroundKept, GlobalsKept DEF Running
<1>4. InStep(hs, low)'
  <2>. DEFINE h == hs[Frame.fn]
              p == <<frames'[Len(frames')].ip, wide'>>
  <2>1. p \in DOMAIN h /\ h[p] = s.size - Frame.base
    BY <1>1, <1>2 DEF GoesTo
  <2>. HIDE DEF h, p
  <2>2. LET l == hs[Frame.fn]
            q == <<frames'[Len(frames')].ip, wide'>>
        IN  q \in DOMAIN l /\ l[q] = s.size - Frame.base
    BY <2>1 DEF h, p
  <2>. QED  BY <1>1, <1>2, <2>2, StepKept
<1>. QED  BY <1>1, <1>3, <1>4 DEF Kept, Local

(* errorf() is raised.                                                     *)
LEMMA RaiseKept ==
  ASSUME NEW hs, NEW low, Running(hs, low), NEW s, Local(s), Following \in Int, Raise(s)
  PROVE  Kept(hs, low)
<1>1. /\ stack' = s /\ frames' = Advanced(Following) /\ globals' = globals
      /\ status' = "error"
  BY DEF Raise
<1>2. SameFrames  BY <1>1, AdvancedSame DEF Running
<1>3. Grounded'  BY <1>1, <1>2, GroundKept, GlobalsKept DEF Running
<1>. QED  BY <1>1, <1>3 DEF Kept, Local

(* The behaviour is undefined, for a reason.                               *)
LEMMA CrashKept ==
  ASSUME NEW hs, NEW low, Running(hs, low), NEW s, Local(s), CrashWith(s), Excused,
         s = stack \/ s.gen > 0
  PROVE  Kept(hs, low)
<1>1. /\ stack' = s /\ frames' = frames /\ globals' = globals /\ functions' = functions
      /\ status' = "undefined"
  BY DEF CrashWith
<1>2. SameFrames  BY <1>1 DEF SameFrames
<1>3. Grounded'  BY <1>1, <1>2, GroundKept, GlobalsKept DEF Running
<1>. QED  BY <1>1, <1>3 DEF Kept, Local

-----------------------------------------------------------------------------
(* Instructions. *)

(* Constants.                                                              *)
LEMMA ConstantInStep ==
  ASSUME NEW hs, NEW low, Running(hs, low), Constant
  PROVE  Kept(hs, low)
<1>1. PICK op \in {"CONSTANT", "CONSTANT_LONG"} : ConstantBy(op)  BY DEF Constant
<1>. DEFINE v == ConstantAt(IndexOf(op))
<1>2. Fetched(op)  BY <1>1 DEF ConstantBy
<1>3. /\ IsConstant(functions, IndexOf(op)) /\ Loadable(ConstantOf(functions, IndexOf(op)))
      /\ GoesTo(hs[Frame.fn], Following, Here(hs) + 1)
  BY <1>2, HereFlows DEF Flows
<1>4. TypeOK /\ IndexOf(op) \in Nat /\ Following \in Int
  BY <1>2, FetchedOperand DEF Running
<1>5. v = ConstantOf(functions, IndexOf(op))
  BY <1>3 DEF IsConstant, ConstantOf, ConstantAt, Constants
<1>. HIDE DEF v
<1>6. v # Undefined /\ Clean(v)
  BY <1>3, <1>5 DEF Loadable, Clean, Kinds, Undefined
<1>7. Known(v)  BY <1>4, <1>6, ConstantKnown DEF v
<1>8. PICK moved \in Moves : Continue(Push(stack, v, moved))
  BY <1>1, <1>6 DEF ConstantBy, v
<1>9. /\ Local(Push(stack, v, moved)) /\ Push(stack, v, moved).size = stack.size + 1
      /\ stack.size = Frame.base + Here(hs)
      /\ Frame.base \in Nat /\ Here(hs) \in Nat
  BY <1>6, <1>7, LocalStack, LocalPushed, HereMapped, RunningTop
<1>10. Push(stack, v, moved).size - Frame.base = Here(hs) + 1  BY <1>9
<1>. QED  BY <1>3, <1>4, <1>8, <1>9, <1>10, GotoKept DEF Continue

(* An operator's result is pushed in the place of its operands.            *)
LEMMA YieldKept ==
  ASSUME NEW hs, NEW low, Running(hs, low), NEW n \in Nat, n < Here(hs),
         NEW r, Yield(r, Drop(stack, n)), Following \in Int,
         r # Undefined /\ r # Error => Known(r) /\ Clean(r),
         r = Undefined => Excused,
         GoesTo(hs[Frame.fn], Following, Here(hs) - n + 1)
  PROVE  Kept(hs, low)
<1>. DEFINE d == Drop(stack, n)
<1>1. /\ stack.size = Frame.base + Here(hs) /\ Frame.base \in Nat /\ Here(hs) \in Nat
      /\ Local(stack)
  BY HereMapped, RunningTop, LocalStack
<1>2. n <= stack.size - Frame.base - 1  BY <1>1
<1>3. Local(d) /\ d.size = stack.size - n  BY <1>1, <1>2, LocalDropped
<1>. HIDE DEF d
<1>4. CASE r = Undefined
  <2>1. CrashWith(stack)  BY <1>4 DEF Yield, Undefined, Error, Crash
  <2>. QED  BY <1>1, <1>4, <2>1, CrashKept
<1>5. CASE r = Error
  <2>1. Raise(d)  BY <1>5 DEF Yield, Undefined, Error, d
  <2>. QED  BY <1>3, <2>1, RaiseKept
<1>6. CASE r # Undefined /\ r # Error
  <2>1. Continue(Push(d, r, FALSE))  BY <1>6 DEF Yield, d
  <2>2. Local(Push(d, r, FALSE)) /\ Push(d, r, FALSE).size = d.size + 1
    BY <1>3, <1>6, LocalPushed
  <2>3. Push(d, r, FALSE).size - Frame.base = Here(hs) - n + 1
    <3>. DEFINE p == Push(d, r, FALSE).size
                b == Frame.base
                m == Here(hs)
    <3>1. p = d.size + 1 /\ d.size = stack.size - n /\ stack.size = b + m
      BY <1>1, <1>3, <2>2
    <3>0. b \in Nat /\ m \in Nat  BY <1>1
    <3>. HIDE DEF p, b, m
    <3>2. p - b = m - n + 1  BY <3>0, <3>1
    <3>. QED  BY <3>2 DEF p, b, m
  <2>. QED  BY <2>1, <2>2, <2>3, GotoKept DEF Continue
<1>. QED  BY <1>4, <1>5, <1>6

-----------------------------------------------------------------------------
(* The values that operators yield. *)

(* What is no function and no native is clean.                             *)
LEMMA PlainClean ==
  ASSUME NEW r, r.type \in {"int", "num", "str"}
  PROVE  Clean(r)
BY DEF Clean, Kinds, FunV

(* The same operations as in Overflows.                                    *)
Exceeds(op, i, j) ==
  \/ op = "ADD" /\ i + j \notin IntMin .. IntMax
  \/ op = "SUB" /\ i - j \notin IntMin .. IntMax
  \/ op = "MUL" /\ i * j \notin IntMin .. IntMax
  \/ /\ op \in {"DIV", "IDIV", "MOD"}
     /\ \A q \in IntMin .. IntMax, r \in IntMin .. IntMax :
          i = q * j + r => Magnitude(r) >= Magnitude(j) \/ r * i < 0

(* No quotient and remainder go with a divisor of 0, or with -1 and the    *)
(* least integer.                                                          *)
LEMMA NoQuotient ==
  ASSUME NEW i \in Int, NEW j \in Int, j = 0 \/ (i = IntMin /\ j = -1),
         NEW q \in IntMin .. IntMax, NEW r \in IntMin .. IntMax, i = q * j + r
  PROVE  Magnitude(r) >= Magnitude(j)
<1>1. IntMax \in Nat /\ IntMin = -IntMax - 1  BY ValuesAssumption DEF IntMin
<1>2. q \in Int /\ r \in Int /\ q <= IntMax  BY <1>1
<1>3. CASE j = 0  BY <1>2, <1>3 DEF Magnitude
<1>4. CASE i = IntMin /\ j = -1
  <2>1. q * j = -q  BY <1>2, <1>4
  <2>2. r = q - IntMax - 1  BY <1>1, <1>2, <1>4, <2>1
  <2>3. r <= -1  BY <1>1, <1>2, <2>2
  <2>. QED  BY <1>2, <1>4, <2>3 DEF Magnitude
<1>. QED  BY <1>3, <1>4

(* Integer arithmetic yields an integer unless its exact result is none.   *)
LEMMA IntArithmeticClean ==
  ASSUME NEW op \in ArithmeticOps \ {"POW"}, NEW i \in Int, NEW j \in Int,
         NEW r \in IntArithmetic(op, i, j)
  PROVE  r.type = "int" \/ Exceeds(op, i, j)
<1>1. ASSUME NEW k, NEW q \in IntResult(k)
      PROVE  q.type = "int" \/ k \notin IntMin .. IntMax
  BY <1>1 DEF IntResult, IntV
<1>2. CASE op = "ADD"
  <2>1. r \in IntResult(i + j)  BY <1>2 DEF IntArithmetic
  <2>. QED  BY <1>1, <1>2, <2>1 DEF Exceeds
<1>3. CASE op = "SUB"
  <2>1. r \in IntResult(i - j)  BY <1>3 DEF IntArithmetic
  <2>. QED  BY <1>1, <1>3, <2>1 DEF Exceeds
<1>4. CASE op = "MUL"
  <2>1. r \in IntResult(i * j)  BY <1>4 DEF IntArithmetic
  <2>. QED  BY <1>1, <1>4, <2>1 DEF Exceeds
<1>5. CASE op \in {"DIV", "IDIV", "MOD"}
  <2>1. CASE j = 0 \/ (i = IntMin /\ j = -1)
    BY <1>5, <2>1, NoQuotient DEF Exceeds
  <2>2. CASE ~(j = 0 \/ (i = IntMin /\ j = -1))
    BY <1>5, <2>2 DEF IntArithmetic, IntV
  <2>. QED  BY <2>1, <2>2
<1>. QED  BY <1>2, <1>3, <1>4, <1>5 DEF ArithmeticOps

(* A binary operator of clean values yields a clean value, raises an error *)
(* or exceeds the integers.                                                *)
LEMMA BinaryClean ==
  ASSUME NEW op \in BinaryOps, NEW a, Known(a), Clean(a), NEW b, Known(b), Clean(b),
         NEW r \in Binary(op, a, b)
  PROVE  \/ r = Error \/ Clean(r)
         \/ IsInt(a) /\ IsInt(b) /\ Exceeds(op, a.val, b.val)
<1>0. /\ \A q \in SomeNumber \cup SomeString : Clean(q)
      /\ \A t : Clean(Bool(t))
  BY PlainClean DEF SomeNumber, SomeString, NumV, StrV, Bool, IntV
<1>1. CASE op \in ArithmeticOps
  <2>1. r \in Arithmetic(op, a, b)
    BY <1>1 DEF Binary, ArithmeticOps, ComparisonOps, LogicOps
  <2>2. CASE IsInt(a) /\ IsInt(b) /\ op # "POW"
    <3>1. a.val \in Int /\ b.val \in Int  BY DEF Known, TValue
    <3>2. r \in IntArithmetic(op, a.val, b.val)
      BY <2>1, <2>2 DEF Arithmetic, IsInt, IsRational, IsString
    <3>3. r.type = "int" \/ Exceeds(op, a.val, b.val)
      BY <1>1, <2>2, <3>1, <3>2, IntArithmeticClean
    <3>. QED  BY <2>2, <3>3, PlainClean
  <2>3. CASE ~(IsInt(a) /\ IsInt(b) /\ op # "POW")
    <3>1. r \in SomeNumber \cup SomeString \cup {Error}
      BY <2>1, <2>3 DEF Arithmetic, IsInt, IsRational, IsString
    <3>. QED  BY <1>0, <3>1
  <2>. QED  BY <2>2, <2>3
<1>2. CASE op \in ComparisonOps
  <2>1. r \in Comparison(op, a, b)
    BY <1>2 DEF Binary, ComparisonOps, ArithmeticOps
  <2>2. HasEquality(a)  BY DEF HasEquality, Clean, Kinds
  <2>3. r = Error \/ \E q : r = Bool(q)
    BY <2>1, <2>2 DEF Comparison
  <2>. QED  BY <1>0, <2>3
<1>3. CASE op \in LogicOps
  <2>1. \E q : r = Bool(q)
    BY <1>3 DEF Binary, LogicOps, ComparisonOps, ArithmeticOps
  <2>. QED  BY <1>0, <2>1
<1>4. CASE op = "CONCAT"
  <2>1. r \in SomeString \cup {Error}
    BY <1>4 DEF Binary, LogicOps, ComparisonOps, ArithmeticOps
  <2>. QED  BY <1>0, <2>1
<1>. QED  BY <1>1, <1>2, <1>3, <1>4 DEF BinaryOps

(* So does a unary one.                                                    *)
LEMMA UnaryClean ==
  ASSUME NEW op \in {"NEG", "NOT"}, NEW a, Known(a), Clean(a), NEW r \in Unary(op, a)
  PROVE  \/ r = Error \/ Clean(r)
         \/ op = "NEG" /\ IsInt(a) /\ -a.val \notin IntMin .. IntMax
<1>1. CASE op = "NOT"
  <2>1. r = Bool(~IsTruth(a))  BY <1>1 DEF Unary
  <2>. QED  BY <2>1, PlainClean DEF Bool, IntV
<1>2. CASE op = "NEG" /\ IsInt(a)
  <2>1. r \in IntResult(-a.val)  BY <1>2 DEF Unary, IsInt, IsRational
  <2>. QED  BY <1>2, <2>1, PlainClean DEF IntResult, IntV
<1>3. CASE op = "NEG" /\ ~IsInt(a)
  <2>1. CASE a.type = "num"
    <3>1. r \in SomeNumber  BY <1>3, <2>1 DEF Unary, IsInt, IsRational
    <3>. QED  BY <3>1, PlainClean DEF SomeNumber, NumV
  <2>2. CASE ~IsRational(a)
    <3>1. r = Error  BY <1>3, <2>2 DEF Unary, IsInt, IsRational
    <3>. QED  BY <3>1
  <2>. QED  BY <1>3, <2>1, <2>2 DEF IsInt, IsRational
<1>. QED  BY <1>1, <1>2, <1>3

(* What binary operators make of clean values: without a result, the       *)
(* operands exceed the integers.                                           *)
LEMMA BinaryResult ==
  ASSUME NEW op \in BinaryOps, NEW a, Known(a), Clean(a), NEW b, Known(b), Clean(b),
         NEW r \in Binary(op, a, b)
  PROVE  /\ r = Undefined \/ r = Error \/ Clean(r)
         /\ r = Undefined => IsInt(a) /\ IsInt(b) /\ Exceeds(op, a.val, b.val)
         /\ r # Undefined /\ r # Error => Known(r)
<1>1. \/ r = Error \/ Clean(r)
      \/ IsInt(a) /\ IsInt(b) /\ Exceeds(op, a.val, b.val)
  BY BinaryClean
<1>2. Outcome(r)  BY BinaryOutcome
<1>3. ~Clean(Undefined) /\ Undefined # Error
  BY DEF Clean, Kinds, Undefined, Error
<1>4. r = Undefined \/ r = Error \/ Clean(r)
  <2>. SUFFICES ASSUME r # Error, ~Clean(r)  PROVE r = Undefined
    OBVIOUS
  <2>1. IsInt(a) /\ IsInt(b) /\ op \in ArithmeticOps \ {"POW"}
        /\ Exceeds(op, a.val, b.val)
    BY <1>1 DEF Exceeds, ArithmeticOps
  <2>2. Binary(op, a, b) = IntArithmetic(op, a.val, b.val)
    BY <2>1 DEF Binary, Arithmetic, ArithmeticOps, ComparisonOps, IsInt, IsRational, IsString
  <2>3. r = Undefined \/ r.type = "int"
    BY <2>1, <2>2 DEF IntArithmetic, IntResult, IntV, ArithmeticOps
  <2>. QED  BY <2>3, PlainClean
<1>. QED  BY <1>1, <1>2, <1>3, <1>4 DEF Outcome

(* The same of unary ones.                                                 *)
LEMMA UnaryResult ==
  ASSUME NEW op \in {"NEG", "NOT"}, NEW a, Known(a), Clean(a), NEW r \in Unary(op, a)
  PROVE  /\ r = Undefined \/ r = Error \/ Clean(r)
         /\ r = Undefined => op = "NEG" /\ IsInt(a) /\ -a.val \notin IntMin .. IntMax
         /\ r # Undefined /\ r # Error => Known(r)
<1>1. \/ r = Error \/ Clean(r)
      \/ op = "NEG" /\ IsInt(a) /\ -a.val \notin IntMin .. IntMax
  BY UnaryClean
<1>2. Outcome(r)  BY UnaryOutcome
<1>3. ~Clean(Undefined) /\ Undefined # Error
  BY DEF Clean, Kinds, Undefined, Error
<1>4. r = Undefined \/ r = Error \/ Clean(r)
  <2>1. CASE op = "NEG" /\ IsInt(a) /\ -a.val \notin IntMin .. IntMax
    <3>1. Unary(op, a) = {Undefined}
      BY <2>1 DEF Unary, IntResult, IsInt, IsRational
    <3>. QED  BY <3>1
  <2>. QED  BY <1>1, <2>1
<1>. QED  BY <1>1, <1>2, <1>3, <1>4 DEF Outcome

-----------------------------------------------------------------------------
(* The other instructions. *)

(* Binary operators.                                                       *)
LEMMA BinaryInStep ==
  ASSUME NEW hs, NEW low, Running(hs, low), BinaryOperator
  PROVE  Kept(hs, low)
<1>. DEFINE b == Last(stack)
            a == Last(Pop(stack))
<1>1. PICK op \in BinaryOps :
        /\ Fetched(op)
        /\ IF stack.size < 2 THEN Crash
           ELSE \E r \in Binary(op, a, b) : Yield(r, Drop(stack, 2))
  BY DEF BinaryOperator
<1>2. Here(hs) >= 3 /\ GoesTo(hs[Frame.fn], Following, Here(hs) - 1)
  BY <1>1, HereFlows DEF Flows
<1>3. /\ stack.size = Frame.base + Here(hs) /\ Frame.base \in Nat /\ Here(hs) \in Nat
      /\ Local(stack) /\ stack.size \in Nat
  BY HereMapped, RunningTop, LocalStack
<1>4. ~(stack.size < 2) /\ stack.size >= Frame.base + 2
      /\ 1 <= stack.size - Frame.base - 1
  BY <1>2, <1>3
<1>5. Local(Pop(stack)) /\ Pop(stack).size >= Frame.base + 2
  <2>1. Local(Pop(stack)) /\ Pop(stack).size = stack.size - 1
    BY <1>3, <1>4, LocalDropped DEF Pop
  <2>. QED  BY <1>2, <1>3, <2>1
<1>6. Clean(a) /\ Known(a) /\ Clean(b) /\ Known(b)
  BY <1>3, <1>4, <1>5, LocalLast
<1>. HIDE DEF a, b
<1>7. PICK r \in Binary(op, a, b) : Yield(r, Drop(stack, 2))  BY <1>1, <1>4
<1>8. Following \in Int /\ InCode(1) /\ Op = op
  BY <1>1, FetchedOperand DEF Running, Fetched
<1>9. /\ r = Undefined \/ r = Error \/ Clean(r)
      /\ r = Undefined => IsInt(a) /\ IsInt(b) /\ Exceeds(op, a.val, b.val)
      /\ r # Undefined /\ r # Error => Known(r)
  BY <1>6, <1>7, BinaryResult
<1>10. ASSUME IsInt(a), IsInt(b), Exceeds(op, a.val, b.val)  PROVE Overflows
  <2>1. stack.size >= 1 /\ stack.size >= 2  BY <1>3, <1>4
  <2>. QED  BY <1>8, <1>10, <2>1 DEF Overflows, Exceeds, a, b
<1>11. r = Undefined => Excused  BY <1>9, <1>10 DEF Excused
<1>12. 2 \in Nat /\ 2 < Here(hs) /\ Here(hs) - 2 + 1 = Here(hs) - 1
  BY <1>2, <1>3
<1>13. GoesTo(hs[Frame.fn], Following, Here(hs) - 2 + 1)  BY <1>2, <1>12
<1>. QED  BY <1>7, <1>8, <1>9, <1>11, <1>12, <1>13, YieldKept

(* Unary operators.                                                        *)
LEMMA UnaryInStep ==
  ASSUME NEW hs, NEW low, Running(hs, low), UnaryOperator
  PROVE  Kept(hs, low)
<1>. DEFINE a == Last(stack)
<1>1. PICK op \in {"NEG", "NOT"} :
        /\ Fetched(op)
        /\ IF stack.size < 1 THEN Crash
           ELSE \E r \in Unary(op, a) : Yield(r, Pop(stack))
  BY DEF UnaryOperator
<1>2. Here(hs) >= 2 /\ GoesTo(hs[Frame.fn], Following, Here(hs))
  BY <1>1, HereFlows DEF Flows
<1>3. /\ stack.size = Frame.base + Here(hs) /\ Frame.base \in Nat /\ Here(hs) \in Nat
      /\ Local(stack) /\ stack.size \in Nat
  BY HereMapped, RunningTop, LocalStack
<1>4. ~(stack.size < 1) /\ stack.size >= Frame.base + 2 /\ stack.size >= 1
  BY <1>2, <1>3
<1>6. Clean(a) /\ Known(a)  BY <1>3, <1>4, LocalLast
<1>. HIDE DEF a
<1>7. PICK r \in Unary(op, a) : Yield(r, Pop(stack))  BY <1>1, <1>4
<1>8. Following \in Int /\ InCode(1) /\ Op = op
  BY <1>1, FetchedOperand DEF Running, Fetched
<1>9. /\ r = Undefined \/ r = Error \/ Clean(r)
      /\ r = Undefined => op = "NEG" /\ IsInt(a) /\ -a.val \notin IntMin .. IntMax
      /\ r # Undefined /\ r # Error => Known(r)
  BY <1>6, <1>7, UnaryResult
<1>10. r = Undefined => Excused
  <2>. SUFFICES ASSUME op = "NEG", IsInt(a), -a.val \notin IntMin .. IntMax
                PROVE  Overflows
    BY <1>9 DEF Excused
  <2>. QED  BY <1>4, <1>8 DEF Overflows, a
<1>11. 1 \in Nat /\ 1 < Here(hs) /\ Here(hs) - 1 + 1 = Here(hs)
  BY <1>2, <1>3
<1>12. GoesTo(hs[Frame.fn], Following, Here(hs) - 1 + 1) /\ Yield(r, Drop(stack, 1))
  BY <1>2, <1>7, <1>11 DEF Pop
<1>. QED  BY <1>8, <1>9, <1>10, <1>11, <1>12, YieldKept

(* What an instruction that takes the last value finds.                    *)
LEMMA TakesOne ==
  ASSUME NEW hs, NEW low, Running(hs, low), Here(hs) >= 2
  PROVE  /\ ~(stack.size < 1) /\ stack.size >= 1
         /\ Clean(Last(stack)) /\ Known(Last(stack))
         /\ Local(Pop(stack)) /\ Pop(stack).size = stack.size - 1
         /\ Pop(stack).size - Frame.base = Here(hs) - 1
<1>1. /\ stack.size = Frame.base + Here(hs) /\ Frame.base \in Nat /\ Here(hs) \in Nat
      /\ Local(stack) /\ stack.size \in Nat
  BY HereMapped, RunningTop, LocalStack
<1>2. ~(stack.size < 1) /\ stack.size >= Frame.base + 2 /\ stack.size >= 1
      /\ 1 <= stack.size - Frame.base - 1
  BY <1>1
<1>3. Clean(Last(stack)) /\ Known(Last(stack))  BY <1>1, <1>2, LocalLast
<1>4. Local(Pop(stack)) /\ Pop(stack).size = stack.size - 1
  BY <1>1, <1>2, LocalDropped DEF Pop
<1>5. stack.size - 1 - Frame.base = Here(hs) - 1  BY <1>1
<1>. QED  BY <1>2, <1>3, <1>4, <1>5

(* PRINT.                                                                  *)
LEMMA PrintInStep ==
  ASSUME NEW hs, NEW low, Running(hs, low), PrintValue
  PROVE  Kept(hs, low)
<1>1. Fetched("PRINT")  BY DEF PrintValue
<1>2. Here(hs) >= 2 /\ GoesTo(hs[Frame.fn], Following, Here(hs) - 1)
  BY <1>1, HereFlows DEF Flows
<1>3. Following \in Int /\ InCode(1) /\ Op = "PRINT"
  BY <1>1, FetchedOperand DEF Running, Fetched
<1>4. CASE Last(stack).type = "native"
  <2>1. CrashWith(stack)  BY <1>2, <1>4, TakesOne DEF PrintValue, Printable, Crash
  <2>2. Excused  BY <1>3, <1>4 DEF Excused
  <2>. QED  BY <2>1, <2>2, LocalStack, CrashKept
<1>5. CASE Last(stack).type # "native"
  <2>1. Continue(Pop(stack))
    BY <1>2, <1>5, TakesOne DEF PrintValue, Printable, Clean
  <2>. QED  BY <1>2, <1>3, <2>1, TakesOne, GotoKept DEF Continue
<1>. QED  BY <1>4, <1>5

(* POP.                                                                    *)
LEMMA PopInStep ==
  ASSUME NEW hs, NEW low, Running(hs, low), PopValue
  PROVE  Kept(hs, low)
<1>1. Fetched("POP")  BY DEF PopValue
<1>2. Here(hs) >= 2 /\ GoesTo(hs[Frame.fn], Following, Here(hs) - 1)
  BY <1>1, HereFlows DEF Flows
<1>3. Following \in Int  BY <1>1, FetchedOperand DEF Running
<1>4. Continue(Pop(stack))  BY <1>2, TakesOne DEF PopValue
<1>. QED  BY <1>2, <1>3, <1>4, TakesOne, GotoKept DEF Continue

(* SETGLOBAL: what is stored is clean.                                     *)
LEMMA SetGlobalInStep ==
  ASSUME NEW hs, NEW low, Running(hs, low), SetGlobal
  PROVE  Kept(hs, low)
<1>. DEFINE v == Last(stack)
            s == Push(Pop(stack), v, FALSE)
<1>1. Fetched("SETGLOBAL")  BY DEF SetGlobal
<1>2. /\ Here(hs) >= 2 /\ GoesTo(hs[Frame.fn], Following, Here(hs))
      /\ Names(functions, Operand)
  BY <1>1, HereFlows DEF Flows
<1>3. Following \in Int  BY <1>1, FetchedOperand DEF Running
<1>4. IsName(Operand)
  BY <1>2 DEF Names, IsConstant, ConstantOf, IsName, ConstantAt, Constants
<1>5. /\ globals' = [globals EXCEPT ![NameAt(Operand)] = v]
      /\ stack' = s /\ frames' = Advanced(Following) /\ wide' = FALSE
      /\ functions' = functions /\ status' = "run"
  BY <1>2, <1>4, TakesOne DEF SetGlobal, Running
<1>6. Clean(v) /\ Known(v)  BY <1>2, TakesOne
<1>. HIDE DEF v
<1>7. Local(s) /\ s.size = Pop(stack).size + 1
  BY <1>2, <1>6, TakesOne, LocalPushed
<1>. HIDE DEF s
<1>8. s.size - Frame.base = Here(hs)
  <2>. DEFINE b == Frame.base
              m == Here(hs)
              z == Pop(stack).size
  <2>1. b \in Nat /\ m \in Nat /\ stack.size \in Nat /\ stack.size = b + m
        /\ z = stack.size - 1 /\ s.size = z + 1
    BY <1>2, <1>7, TakesOne, HereMapped, RunningTop
  <2>. HIDE DEF b, m, z
  <2>2. s.size - b = m  BY <2>1
  <2>. QED  BY <2>2 DEF b, m
<1>9. SameFrames /\ frames'[Len(frames')].ip = Following
  BY <1>3, <1>5, AdvancedSame DEF Running
<1>10. GlobalsClean'
  <2>. SUFFICES ASSUME NEW n \in Readable PROVE globals'[n] = Absent \/ Clean(globals'[n])
    BY DEF GlobalsClean
  <2>1. n \in DOMAIN globals /\ (globals[n] = Absent \/ Clean(globals[n]))
    BY ReadableAssumption DEF Running, TypeOK, Grounded
  <2>2. globals'[n] = v \/ globals'[n] = globals[n]  BY <1>5, <2>1
  <2>. QED  BY <1>6, <2>1, <2>2
<1>11. Grounded'  BY <1>5, <1>7, <1>9, <1>10, GroundKept
<1>12. InStep(hs, low)'
  <2>. DEFINE h == hs[Frame.fn]
              p == <<frames'[Len(frames')].ip, wide'>>
  <2>1. p \in DOMAIN h /\ h[p] = s.size - Frame.base
    BY <1>2, <1>5, <1>8, <1>9 DEF GoesTo
  <2>. HIDE DEF h, p
  <2>2. LET l == hs[Frame.fn]
            q == <<frames'[Len(frames')].ip, wide'>>
        IN  q \in DOMAIN l /\ l[q] = s.size - Frame.base
    BY <2>1 DEF h, p
  <2>. QED  BY <1>5, <1>7, <1>9, <2>2, StepKept
<1>. QED  BY <1>5, <1>7, <1>11, <1>12 DEF Kept, Local

(* LOADGLOBAL: a global that may be read is clean.                         *)
LEMMA LoadGlobalInStep ==
  ASSUME NEW hs, NEW low, Running(hs, low), LoadGlobal
  PROVE  Kept(hs, low)
<1>. DEFINE v == globals[NameAt(Operand)]
<1>1. Fetched("LOADGLOBAL")  BY DEF LoadGlobal
<1>2. /\ GoesTo(hs[Frame.fn], Following, Here(hs) + 1)
      /\ Names(functions, Operand) /\ ConstantOf(functions, Operand).val \in Readable
  BY <1>1, HereFlows DEF Flows
<1>3. Following \in Int  BY <1>1, FetchedOperand DEF Running
<1>4. IsName(Operand) /\ NameAt(Operand) \in Readable
  BY <1>2 DEF Names, IsConstant, ConstantOf, IsName, NameAt, ConstantAt, Constants
<1>5. /\ v = Absent \/ Clean(v)
      /\ v = Absent \/ Known(v)
  BY <1>4, ReadableAssumption DEF Running, Grounded, TypeOK
<1>. HIDE DEF v
<1>6. CASE v = Absent
  <2>1. Raise(stack)  BY <1>4, <1>6 DEF LoadGlobal, v
  <2>. QED  BY <1>3, <2>1, LocalStack, RaiseKept
<1>7. CASE v # Absent
  <2>1. PICK moved \in Moves : Continue(Push(stack, v, moved))
    BY <1>4, <1>7 DEF LoadGlobal, v
  <2>2. /\ Local(Push(stack, v, moved)) /\ Push(stack, v, moved).size = stack.size + 1
        /\ stack.size = Frame.base + Here(hs)
        /\ Frame.base \in Nat /\ Here(hs) \in Nat
    BY <1>5, <1>7, LocalStack, LocalPushed, HereMapped, RunningTop
  <2>3. Push(stack, v, moved).size - Frame.base = Here(hs) + 1  BY <2>2
  <2>. QED  BY <1>2, <1>3, <2>1, <2>2, <2>3, GotoKept DEF Continue
<1>. QED  BY <1>6, <1>7

(* Jumps.                                                                  *)
LEMMA JumpInStep ==
  ASSUME NEW hs, NEW low, Running(hs, low), Jump
  PROVE  Kept(hs, low)
<1>. DEFINE d == ShortAt(Code, Frame.ip + 1)
            h == hs[Frame.fn]
            F == Following
<1>0. /\ stack.size = Frame.base + Here(hs) /\ Frame.base \in Nat /\ Here(hs) \in Nat
      /\ Local(stack)
  BY HereMapped, RunningTop, LocalStack
<1>1. stack.size - Frame.base = Here(hs)  BY <1>0
<1>. HIDE DEF d, h, F
<1>2. CASE Fetched("JMP") /\ Goto(Following + d, stack)
  <2>1. GoesTo(h, F + d, Here(hs))  BY <1>2, HereFlows DEF Flows, d, h, F
  <2>2. F \in Int /\ d \in Nat  BY <1>2, FetchedOperand DEF Running, JumpOps, d, F
  <2>3. F + d \in Int  BY <2>2
  <2>. QED  BY <1>0, <1>1, <1>2, <2>1, <2>3, GotoKept DEF h, F
<1>3. CASE Fetched("NJMP") /\ Goto(Following - d, stack)
  <2>1. GoesTo(h, F - d, Here(hs))  BY <1>3, HereFlows DEF Flows, d, h, F
  <2>2. F \in Int /\ d \in Nat  BY <1>3, FetchedOperand DEF Running, JumpOps, d, F
  <2>3. F - d \in Int  BY <2>2
  <2>. QED  BY <1>0, <1>1, <1>3, <2>1, <2>3, GotoKept DEF h, F
<1>4. CASE /\ Fetched("JMPF")
           /\ IF stack.size < 1 THEN Crash
              ELSE Goto(IF IsTruth(Last(stack)) THEN F ELSE F + d, Pop(stack))
  <2>1. Here(hs) >= 2 /\ GoesTo(h, F, Here(hs) - 1) /\ GoesTo(h, F + d, Here(hs) - 1)
    BY <1>4, HereFlows DEF Flows, d, h, F
  <2>2. F \in Int /\ d \in Nat  BY <1>4, FetchedOperand DEF Running, JumpOps, d, F
  <2>3. F + d \in Int  BY <2>2
  <2>4. Goto(F, Pop(stack)) \/ Goto(F + d, Pop(stack))
    BY <1>4, <2>1, TakesOne
  <2>. QED  BY <2>1, <2>2, <2>3, <2>4, TakesOne, GotoKept DEF h
<1>. QED  BY <1>2, <1>3, <1>4 DEF Jump, d, F

(* A pointer of a frame fails to reach a cell in use only once the stack   *)
(* has moved.                                                              *)
LEMMA FramePoints ==
  ASSUME NEW hs, NEW low, Running(hs, low), NEW g, StackOK(g),
         g.gen >= stack.gen, g.size = stack.size,
         NEW at \in 0 .. stack.size - 1
  PROVE  /\ at \in DOMAIN g.items
         /\ Frame.gen # g.gen \/ g.topGen # g.gen \/ g.topGen # Frame.gen
              => g.gen > 0
         /\ ~Points(g, at, Frame.gen) => g.gen > 0
         /\ ~Points(g, at, g.topGen) => g.gen > 0
<1>1. /\ g.cap \in Nat /\ g.size \in 0 .. g.cap /\ DOMAIN g.items = 0 .. g.cap - 1
      /\ g.gen \in Nat /\ g.topGen \in 0 .. g.gen
  BY DEF StackOK
<1>2. stack.gen \in Nat  BY LocalStack
<1>3. Frame.gen \in Nat /\ Frame.gen <= stack.gen
  <2>1. Frame.gen \in Nat  BY RunningTop DEF FrameType
  <2>2. Len(frames) \in DOMAIN frames
    <3>1. Len(frames) \in 1 .. Len(frames)
      BY RunningFrame DEF Running
    <3>. QED  BY <3>1, RunningFrame DEF Running
  <2>. QED  BY <2>1, <2>2 DEF Running, Grounded, Frame
<1>4. at \in DOMAIN g.items  BY <1>1
<1>5. Frame.gen # g.gen \/ g.topGen # g.gen \/ g.topGen # Frame.gen => g.gen > 0
  BY <1>1, <1>2, <1>3
<1>. QED  BY <1>4, <1>5 DEF Points

(* SETLOCAL: a clean value is stored above the frame's first cell.         *)
LEMMA SetLocalInStep ==
  ASSUME NEW hs, NEW low, Running(hs, low), SetLocal
  PROVE  Kept(hs, low)
<1>. DEFINE at == Frame.base + Operand
            v == Last(stack)
            w == [stack EXCEPT !.items[at] = v]
<1>1. Fetched("SETLOCAL")  BY DEF SetLocal
<1>2. Operand \in 1 .. Here(hs) - 1 /\ GoesTo(hs[Frame.fn], Following, Here(hs))
  BY <1>1, HereFlows DEF Flows
<1>3. Following \in Int  BY <1>1, FetchedOperand DEF Running
<1>4. /\ stack.size = Frame.base + Here(hs) /\ Frame.base \in Nat /\ Here(hs) \in Nat
      /\ Local(stack) /\ stack.size \in Nat /\ StackOK(stack) /\ stack.gen \in Nat
  BY HereMapped, RunningTop, LocalStack
<1>5. Here(hs) >= 2 /\ at \in Frame.base + 1 .. stack.size - 1
      /\ at \in 0 .. stack.size - 1 /\ at > Frame.base
      /\ stack.size - Frame.base = Here(hs)
  BY <1>2, <1>4
<1>6. Clean(v) /\ Known(v) /\ ~(stack.size < 1)  BY <1>5, TakesOne
<1>. HIDE DEF at, v
<1>7. at \in DOMAIN stack.items /\ (~Points(stack, at, Frame.gen) => stack.gen > 0)
  BY <1>4, <1>5, FramePoints
<1>8. CASE ~Points(stack, at, Frame.gen)
  <2>1. Crash  BY <1>8, Zenon DEF SetLocal, at
  <2>2. Excused  BY <1>7, <1>8, <2>1 DEF Excused, Crash, CrashWith
  <2>. QED  BY <1>4, <2>1, <2>2, CrashKept DEF Crash
<1>9. CASE Points(stack, at, Frame.gen)
  <2>1. Continue(w)  BY <1>6, <1>9, Zenon DEF SetLocal, at, v
  <2>2. /\ w.items = [stack.items EXCEPT ![at] = v] /\ w.size = stack.size
        /\ w.gen = stack.gen /\ w.top = stack.top
    <3>1. IsStack(stack)  BY <1>4 DEF StackOK
    <3>. QED  BY <3>1 DEF IsStack, StackFields
  <2>3. StackOK(w)  BY <1>4, <1>6, <1>7, WrittenStack
  <2>. HIDE DEF w
  <2>4. \A c \in 0 .. Frame.base : w.items[c] = stack.items[c]
    <3>1. \A c \in 0 .. Frame.base : c # at  BY <1>4, <1>5
    <3>2. \A c : c # at /\ c \in DOMAIN stack.items => w.items[c] = stack.items[c]
      BY <2>2
    <3>3. \A c \in 0 .. Frame.base : c \in DOMAIN stack.items
      BY <1>4, <1>5 DEF StackOK
    <3>. QED  BY <3>1, <3>2, <3>3
  <2>5. \A c \in Frame.base + 1 .. w.size - 1 : Clean(w.items[c])
    <3>1. \A c \in Frame.base + 1 .. stack.size - 1 : c \in DOMAIN stack.items
      BY <1>4 DEF StackOK
    <3>2. \A c \in DOMAIN stack.items : w.items[c] = v \/ w.items[c] = stack.items[c]
      BY <2>2
    <3>. QED  BY <1>4, <1>6, <2>2, <3>1, <3>2 DEF Local
  <2>6. Local(w)  BY <1>4, <2>2, <2>3, <2>4, <2>5 DEF Local
  <2>. QED  BY <1>2, <1>3, <1>5, <2>1, <2>2, <2>6, GotoKept DEF Continue
<1>. QED  BY <1>8, <1>9

(* LOADLOCAL.                                                              *)
LEMMA LoadLocalInStep ==
  ASSUME NEW hs, NEW low, Running(hs, low), LoadLocal
  PROVE  Kept(hs, low)
<1>. DEFINE at == Frame.base + Operand
<1>1. Fetched("LOADLOCAL")  BY DEF LoadLocal
<1>2. Operand \in 1 .. Here(hs) - 1 /\ GoesTo(hs[Frame.fn], Following, Here(hs) + 1)
  BY <1>1, HereFlows DEF Flows
<1>3. Following \in Int  BY <1>1, FetchedOperand DEF Running
<1>4. /\ stack.size = Frame.base + Here(hs) /\ Frame.base \in Nat /\ Here(hs) \in Nat
      /\ Local(stack) /\ stack.size \in Nat /\ StackOK(stack) /\ stack.gen \in Nat
  BY HereMapped, RunningTop, LocalStack
<1>5. at \in Frame.base + 1 .. stack.size - 1 /\ at \in 0 .. stack.size - 1
  BY <1>2, <1>4
<1>. HIDE DEF at
<1>6. PICK moved \in Moves :
        LET grown == EnsureCapacity(stack, 1, Junk, moved)
        IN  IF ~Points(grown, at, Frame.gen) \/ Cell(grown, at) = Junk
            THEN CrashWith(grown)
            ELSE Continue(Push(stack, Cell(grown, at), moved))
  BY DEF LoadLocal, at
<1>. DEFINE grown == EnsureCapacity(stack, 1, Junk, moved)
            v == Cell(grown, at)
<1>7. moved \in BOOLEAN /\ (Moves = {FALSE} => ~moved)  BY VmAssumption
<1>8. StackOK(grown) /\ grown.size = stack.size /\ grown.top = stack.top
  BY <1>4, <1>7, GrownStack
<1>9. /\ \A c \in 0 .. stack.size - 1 : grown.items[c] = stack.items[c]
      /\ grown.gen >= stack.gen /\ grown.gen \in Nat
      /\ ~moved => grown.gen = stack.gen
  BY <1>4, <1>7, GrownCells
<1>10. IF ~Points(grown, at, Frame.gen) \/ v = Junk
       THEN CrashWith(grown)
       ELSE Continue(Push(stack, v, moved))
  BY <1>6
<1>. HIDE DEF grown
<1>11. Local(grown)
  <2>1. \A c \in 0 .. Frame.base : c \in 0 .. stack.size - 1
    BY <1>4, <1>5
  <2>2. \A c \in Frame.base + 1 .. stack.size - 1 : c \in 0 .. stack.size - 1
    BY <1>4
  <2>. QED  BY <1>4, <1>7, <1>8, <1>9, <2>1, <2>2 DEF Local
<1>12. Clean(v)  BY <1>4, <1>5, <1>9 DEF Local, Cell
<1>13. at \in DOMAIN grown.items /\ (~Points(grown, at, Frame.gen) => grown.gen > 0)
  BY <1>5, <1>8, <1>9, FramePoints
<1>14. Known(v)  BY <1>8, <1>13 DEF StackOK, Cell
<1>. HIDE DEF v
<1>15. v # Junk  BY <1>12 DEF Clean, Kinds, Junk
<1>16. CASE ~Points(grown, at, Frame.gen)
  <2>1. CrashWith(grown)  BY <1>10, <1>16
  <2>2. Excused  BY <1>13, <1>16, <2>1 DEF Excused, CrashWith
  <2>. QED  BY <1>11, <1>13, <1>16, <2>1, <2>2, CrashKept
<1>17. CASE Points(grown, at, Frame.gen)
  <2>1. Continue(Push(stack, v, moved))  BY <1>10, <1>15, <1>17
  <2>2. /\ Local(Push(stack, v, moved)) /\ Push(stack, v, moved).size = stack.size + 1
    BY <1>4, <1>12, <1>14, LocalPushed
  <2>3. Push(stack, v, moved).size - Frame.base = Here(hs) + 1  BY <1>4, <2>2
  <2>. QED  BY <1>2, <1>3, <2>1, <2>2, <2>3, GotoKept DEF Continue
<1>. QED  BY <1>16, <1>17

(* WIDE.                                                                   *)
LEMMA WideInStep ==
  ASSUME NEW hs, NEW low, Running(hs, low), Wide
  PROVE  Kept(hs, low)
<1>. DEFINE h == hs[Frame.fn]
            p == <<Following, TRUE>>
<1>1. Fetched("WIDE")  BY DEF Wide
<1>2. p \in DOMAIN h /\ h[p] = Here(hs)  BY <1>1, HereFlows DEF Flows
<1>3. Following \in Int  BY <1>1, FetchedOperand DEF Running
<1>4. /\ stack.size = Frame.base + Here(hs) /\ Frame.base \in Nat /\ Here(hs) \in Nat
      /\ Local(stack)
  BY HereMapped, RunningTop, LocalStack
<1>5. stack.size - Frame.base = Here(hs)  BY <1>4
<1>6. /\ stack' = stack /\ frames' = Advanced(Following) /\ wide' = TRUE
      /\ functions' = functions /\ globals' = globals /\ status' = "run"
  BY DEF Wide, Running
<1>7. SameFrames /\ frames'[Len(frames')].ip = Following
  BY <1>3, <1>6, AdvancedSame DEF Running
<1>8. Grounded'  BY <1>4, <1>6, <1>7, GroundKept, GlobalsKept DEF Running
<1>9. InStep(hs, low)'
  <2>1. <<frames'[Len(frames')].ip, wide'>> = p  BY <1>6, <1>7
  <2>. HIDE DEF p
  <2>2. LET l == hs[Frame.fn]
            q == <<frames'[Len(frames')].ip, wide'>>
        IN  q \in DOMAIN l /\ l[q] = stack.size - Frame.base
    BY <1>2, <1>5, <2>1
  <2>. QED  BY <1>4, <1>6, <1>7, <2>2, StepKept
<1>. QED  BY <1>6, <1>8, <1>9 DEF Kept

(* HALT: the script's frame has nothing in it but the script.              *)
LEMMA HaltInStep ==
  ASSUME NEW hs, NEW low, Running(hs, low), Halt
  PROVE  Kept(hs, low)
<1>1. Fetched("HALT")  BY DEF Halt
<1>2. Frame.fn = Script /\ Here(hs) = 1  BY <1>1, HereFlows DEF Flows
<1>3. /\ stack.size = Frame.base + 1 /\ Local(stack) /\ Len(frames) = low + 1
  BY <1>2, HereMapped, LocalStack
<1>4. /\ stack' = stack /\ frames' = Advanced(NoIp) /\ globals' = globals
      /\ status' = "halted"
  BY DEF Halt
<1>5. SameFrames  BY <1>4, AdvancedSame DEF Running, NoIp
<1>6. Grounded'  BY <1>3, <1>4, <1>5, GroundKept, GlobalsKept DEF Running
<1>7. low = 0 => stack'.size = Len(frames')
  <2>. SUFFICES ASSUME low = 0 PROVE stack'.size = Len(frames')
    OBVIOUS
  <2>1. Len(frames) = 1 /\ frames # <<>>
    <3>1. Len(frames) = low + 1  BY <1>3
    <3>2. frames # <<>>  BY DEF Running, TypeOK
    <3>. QED  BY <3>1, <3>2
  <2>2. Frame.base = 0  BY <2>1 DEF Running, Grounded, Frame
  <2>. QED  BY <1>3, <1>4, <1>5, <2>1, <2>2 DEF SameFrames
<1>. QED  BY <1>4, <1>6, <1>7 DEF Kept

(* Code that ends without a return.                                        *)
LEMMA OverrunInStep ==
  ASSUME NEW hs, NEW low, Running(hs, low), Overrun
  PROVE  Kept(hs, low)
<1>. DEFINE p == <<Frame.ip, wide>>
<1>1. ~(InCode(1) /\ InCode(Length)) /\ Crash  BY DEF Overrun
<1>2. /\ IsMap(functions, Frame.fn, hs[Frame.fn]) /\ p \in DOMAIN hs[Frame.fn]
      /\ Frame.ip \in Nat
  BY HereMapped
<1>3. Frame.ip = Len(Code)
  <2>1. \/ Frame.ip = Len(Code)
        \/ Frame.ip + 1 <= Len(Code) /\ NextAt(Code, p) <= Len(Code)
    BY <1>2 DEF IsMap, Code
  <2>2. NextAt(Code, p) = Frame.ip + Length  BY DEF NextAt, Length, Op
  <2>. QED  BY <1>1, <1>2, <2>1, <2>2 DEF InCode
<1>4. Excused  BY <1>3 DEF Excused
<1>. QED  BY <1>1, <1>4, LocalStack, CrashKept DEF Crash

(* What a sequence holds to which an element is appended.                  *)
LEMMA Appended ==
  ASSUME NEW S, NEW A \in Seq(S), NEW e
  PROVE  LET B == Append(A, e)
             n == Len(A)
         IN  /\ n \in Nat /\ Len(B) = n + 1 /\ DOMAIN B = 1 .. n + 1 /\ B[n + 1] = e
             /\ \A i \in 1 .. n : B[i] = A[i]
             /\ \A i \in 1 .. n + 1 : i = n + 1 \/ i \in 1 .. n
<1>1. Len(A) \in Nat  OBVIOUS
<1>2. \A i \in 1 .. Len(A) + 1 : i = Len(A) + 1 \/ i \in 1 .. Len(A)  BY <1>1
<1>3. Append(A, e)[Len(A) + 1] = e  OBVIOUS
<1>4. \A i \in 1 .. Len(A) : Append(A, e)[i] = A[i]  OBVIOUS
<1>5. Len(Append(A, e)) = Len(A) + 1 /\ DOMAIN Append(A, e) = 1 .. Len(A) + 1
  OBVIOUS
<1>. QED  BY <1>1, <1>2, <1>3, <1>4, <1>5

(* A call that is not refused: the new frame begins at the callee, where   *)
(* the caller's cells end, and holds the callee and the arguments.         *)
LEMMA EnterInStep ==
  ASSUME NEW hs, NEW low, Running(hs, low), NEW argc \in Nat, NEW f \in FunctionIds,
         f # Script, EnterFunction(f, argc), Following \in Int,
         argc + 2 <= Here(hs), GoesTo(hs[Frame.fn], Following, Here(hs) - argc),
         Cell(stack, stack.size - argc - 1) = FunV(f)
  PROVE  Kept(hs, low)
<1>. DEFINE at == stack.size - argc - 1
            top == Len(frames)
            new == [fn |-> f, ip |-> 0, base |-> at, gen |-> stack.gen]
<1>1. /\ stack.size = Frame.base + Here(hs) /\ Frame.base \in Nat /\ Here(hs) \in Nat
      /\ Local(stack) /\ stack.size \in Nat /\ stack.gen \in Nat
  BY HereMapped, RunningTop, LocalStack
<1>2. at \in Int /\ at > Frame.base /\ at \in 0 .. stack.size - 1 /\ stack.size = at + argc + 1
      /\ at + 1 = Frame.base + (Here(hs) - argc)
  BY <1>1
<1>3. /\ top \in Nat /\ DOMAIN frames = 1 .. top /\ low \in Nat /\ low < top
      /\ low + 1 \in 1 .. top /\ frames \in Seq(FrameType)
      /\ \A i \in 1 .. top : frames[i].base \in 0 .. Frame.base
  <2>1. low < top  BY DEF Running, InStep
  <2>. QED  BY <2>1, RunningTop
<1>4. CASE argc # functions[f].argc \/ Len(frames) = FrameLimit
  <2>1. Raise(stack)  BY <1>4 DEF EnterFunction
  <2>. QED  BY <1>1, <2>1, RaiseKept
<1>5. CASE ~(argc # functions[f].argc \/ Len(frames) = FrameLimit)
  <2>. DEFINE A == Advanced(Following)
  <2>1. /\ frames' = Append(A, new) /\ wide' = FALSE /\ functions' = functions
        /\ stack' = stack /\ globals' = globals /\ status' = "run"
        /\ argc = functions[f].argc
    BY <1>5 DEF EnterFunction, Running
  <2>2. A \in Seq(FrameType) /\ Len(A) = top  BY AdvancedFrames DEF Running
  <2>3. A = [frames EXCEPT ![top].ip = Following]  BY DEF Advanced
  <2>4. /\ \A i \in 1 .. top : A[i].base = frames[i].base /\ A[i].fn = frames[i].fn
                               /\ A[i].gen = frames[i].gen
                               /\ (i # top => A[i].ip = frames[i].ip)
        /\ A[top].ip = Following
    <3>1. \A i \in 1 .. top : frames[i] \in FrameType  BY <1>3
    <3>. HIDE DEF A
    <3>2. /\ \A i \in 1 .. top : i # top => A[i] = frames[i]
          /\ A[top] = [frames[top] EXCEPT !.ip = Following]
      BY <1>3, <2>3
    <3>3. LET g == frames[top]
              q == [g EXCEPT !.ip = Following]
          IN  q.base = g.base /\ q.fn = g.fn /\ q.gen = g.gen /\ q.ip = Following
      <4>1. top \in 1 .. top  BY <1>3
      <4>2. frames[top] \in FrameType  BY <3>1, <4>1
      <4>. QED  BY <4>2 DEF FrameType
    <3>. QED  BY <3>2, <3>3
  <2>. HIDE DEF A
  <2>5. /\ Len(frames') = top + 1 /\ DOMAIN frames' = 1 .. top + 1
        /\ frames'[top + 1] = new
        /\ \A i \in 1 .. top : frames'[i] = A[i]
        /\ \A i \in 1 .. top + 1 : i = top + 1 \/ i \in 1 .. top
    <3>. HIDE DEF new, top
    <3>. QED  BY <2>1, <2>2, Appended
  <2>6. new.fn = f /\ new.ip = 0 /\ new.base = at /\ new.gen = stack.gen
    OBVIOUS
  <2>. HIDE DEF new, at, top
  <2>7. \A i \in 1 .. top + 1 : i = top + 1 \/ i \in 1 .. top  BY <2>5
  <2>8. CallBinding'
    <3>. SUFFICES ASSUME NEW i \in 1 .. top + 1
                  PROVE  /\ frames'[i].base \in 0 .. stack.size - 1
                         /\ stack.items[frames'[i].base] = FunV(frames'[i].fn)
      BY <2>1, <2>5 DEF CallBinding, Cell
    <3>1. CASE i = top + 1  BY <1>2, <2>5, <2>6, <3>1 DEF Cell, at
    <3>2. CASE i \in 1 .. top
      <4>1. i \in DOMAIN frames /\ frames'[i].base = frames[i].base
            /\ frames'[i].fn = frames[i].fn
        BY <1>3, <2>4, <2>5, <3>2
      <4>. QED  BY <4>1 DEF Running, Grounded, CallBinding, Cell
    <3>. QED  BY <2>7, <3>1, <3>2
  <2>9. FramesNested'
    <3>. SUFFICES ASSUME NEW i \in 1 .. top + 1, NEW j \in 1 .. top + 1, i < j
                  PROVE  frames'[i].base < frames'[j].base
      BY <2>5 DEF FramesNested
    <3>0. i \in 1 .. top  BY <1>3
    <3>1. CASE j = top + 1
      <4>1. frames[i].base \in 0 .. Frame.base  BY <1>3, <3>0
      <4>2. frames'[i].base = frames[i].base /\ frames'[j].base = at
        BY <2>4, <2>5, <2>6, <3>0, <3>1
      <4>. QED  BY <1>1, <1>2, <4>1, <4>2
    <3>2. CASE j \in 1 .. top
      <4>1. frames'[i].base = frames[i].base /\ frames'[j].base = frames[j].base
        BY <2>4, <2>5, <3>0, <3>2
      <4>2. i \in DOMAIN frames /\ j \in DOMAIN frames  BY <1>3, <3>0, <3>2
      <4>. QED  BY <4>1, <4>2 DEF Running, Grounded, FramesNested
    <3>. QED  BY <2>7, <3>1, <3>2
  <2>10. frames' # <<>> /\ frames'[1].base = 0
    <3>1. 1 \in 1 .. top /\ frames # <<>>  BY <1>3
    <3>2. frames[1].base = 0  BY <3>1 DEF Running, Grounded
    <3>3. frames'[1].base = frames[1].base  BY <2>4, <2>5, <3>1
    <3>4. frames' # <<>>  BY <1>3, <2>5
    <3>. QED  BY <3>2, <3>3, <3>4
  <2>11. \A i \in DOMAIN frames' : frames'[i].gen <= stack'.gen
    <3>. SUFFICES ASSUME NEW i \in 1 .. top + 1 PROVE frames'[i].gen <= stack.gen
      BY <2>1, <2>5
    <3>1. CASE i = top + 1  BY <1>1, <2>5, <2>6, <3>1
    <3>2. CASE i \in 1 .. top
      <4>1. i \in DOMAIN frames /\ frames'[i].gen = frames[i].gen
        BY <1>3, <2>4, <2>5, <3>2
      <4>. QED  BY <4>1 DEF Running, Grounded
    <3>. QED  BY <2>7, <3>1, <3>2
  <2>12. Grounded'
    <3>1. OneStack'  BY <2>1 DEF Running, Grounded, OneStack
    <3>2. GlobalsClean'  BY <2>1, GlobalsKept DEF Running
    <3>. QED  BY <2>8, <2>9, <2>10, <2>11, <3>1, <3>2 DEF Grounded, GlobalsClean
  <2>13. ASSUME NEW i \in low + 1 .. top + 1
         PROVE  /\ Place(i)' \in DOMAIN hs[frames'[i].fn]
                /\ End(i)' = frames'[i].base + hs[frames'[i].fn][Place(i)']
                /\ frames'[i].fn = Script <=> i = low + 1
    <3>1. CASE i = top + 1
      <4>1. frames'[i] = new /\ i # low + 1 /\ i = Len(frames')
        BY <1>3, <2>5, <3>1
      <4>2. Place(i)' = <<0, FALSE>>  BY <2>1, <2>6, <4>1 DEF Place
      <4>3. End(i)' = stack.size  BY <2>1, <4>1 DEF End
      <4>4. GoesTo(hs[f], 0, argc + 1)
        <5>1. IsMap(functions, f, hs[f])  BY DEF Running, InStep
        <5>. QED  BY <2>1, <5>1 DEF IsMap
      <4>5. stack.size = at + (argc + 1)  BY <1>2
      <4>. QED  BY <2>6, <4>1, <4>2, <4>3, <4>4, <4>5 DEF GoesTo
    <3>2. CASE i = top
      <4>1. i \in 1 .. top /\ i # top + 1 /\ i + 1 = top + 1  BY <1>3, <3>2
      <4>2. /\ frames'[i].ip = Following /\ frames'[i].base = Frame.base
            /\ frames'[i].fn = Frame.fn
        BY <2>4, <2>5, <3>2, <4>1 DEF Frame, top
      <4>3. Place(i)' = <<Following, FALSE>>  BY <2>5, <4>1, <4>2 DEF Place
      <4>4. End(i)' = at + 1  BY <2>5, <2>6, <4>1 DEF End
      <4>5. Frame.fn = Script <=> i = low + 1  BY <3>2, HereMapped DEF top
      <4>. QED  BY <1>2, <4>2, <4>3, <4>4, <4>5 DEF GoesTo
    <3>3. CASE i # top /\ i # top + 1
      <4>1. i \in 1 .. top /\ i + 1 \in 1 .. top /\ i \in low + 1 .. top
        BY <1>3, <3>3
      <4>2. /\ frames'[i].ip = frames[i].ip /\ frames'[i].base = frames[i].base
            /\ frames'[i].fn = frames[i].fn /\ frames'[i + 1].base = frames[i + 1].base
        BY <2>4, <2>5, <3>3, <4>1
      <4>3. Place(i)' = Place(i)  BY <2>5, <3>3, <4>2 DEF Place, top
      <4>4. End(i)' = End(i)  BY <2>5, <3>3, <4>2 DEF End, top
      <4>5. /\ Place(i) \in DOMAIN hs[frames[i].fn]
            /\ End(i) = frames[i].base + hs[frames[i].fn][Place(i)]
            /\ frames[i].fn = Script <=> i = low + 1
        BY <4>1 DEF Running, InStep, top
      <4>. QED  BY <4>2, <4>3, <4>4, <4>5
    <3>. QED  BY <3>1, <3>2, <3>3
  <2>14. InStep(hs, low)'
    <3>1. low \in Nat /\ low < Len(frames')  BY <1>3, <2>5
    <3>2. \A g \in FunctionIds : IsMap(functions', g, hs[g])
      BY <2>1 DEF Running, InStep
    <3>3. frames'[low + 1].base = frames[low + 1].base  BY <1>3, <2>4, <2>5
    <3>4. \A c \in frames'[low + 1].base + 1 .. stack'.size - 1 : Clean(Cell(stack, c)')
      BY <2>1, <3>3 DEF Running, InStep, Cell
    <3>. QED  BY <2>5, <2>13, <3>1, <3>2, <3>4 DEF InStep
  <2>. QED  BY <2>1, <2>12, <2>14 DEF Kept
<1>. QED  BY <1>4, <1>5

(* A native's call leaves v.stack_top behind.                              *)
LEMMA NativeLags ==
  ASSUME StackOK(stack), OneStack, NEW argc \in Nat, CallNative(argc)
  PROVE  stack'.top < stack'.size
<1>. DEFINE l == [stack EXCEPT !.top = @ - (argc + 1)]
<1>1. PICK moved \in Moves : Continue(Push(l, IntV(0), moved))  BY DEF CallNative
<1>2. moved \in BOOLEAN  BY VmAssumption
<1>3. stack' = Push(l, IntV(0), moved)  BY <1>1 DEF Continue, Goto
<1>4. argc + 1 \in Int  OBVIOUS
<1>5. StackOK(l) /\ l.size = stack.size /\ l.top = stack.top - (argc + 1)
  BY <1>4, LoweredStack
<1>6. Known(IntV(0))  BY ResultsKnown
<1>. HIDE DEF l
<1>7. stack'.size = l.size + 1 /\ stack'.top = l.top + 1
  BY <1>2, <1>3, <1>5, <1>6, PushedStack
<1>8. stack.size \in Nat /\ stack.top = stack.size  BY DEF StackOK, OneStack
<1>. QED  BY <1>5, <1>7, <1>8

(* CALL, of anything but a native.                                         *)
LEMMA CallInStep ==
  ASSUME NEW hs, NEW low, Running(hs, low), Call, OneStack' \/ Clock \notin Readable
  PROVE  Kept(hs, low)
<1>. DEFINE argc == Operand
            at == stack.top - 1 - argc
            v == Cell(stack, at)
<1>1. Fetched("CALL")  BY DEF Call
<1>2. Here(hs) >= argc + 2 /\ GoesTo(hs[Frame.fn], Following, Here(hs) - argc)
  BY <1>1, HereFlows DEF Flows
<1>3. Following \in Int /\ argc \in Nat
  BY <1>1, FetchedOperand DEF Running, NamedOps
<1>4. /\ stack.size = Frame.base + Here(hs) /\ Frame.base \in Nat /\ Here(hs) \in Nat
      /\ Local(stack) /\ stack.size \in Nat /\ StackOK(stack) /\ stack.gen \in Nat
      /\ stack.top = stack.size
  BY HereMapped, RunningTop, LocalStack DEF Local
<1>. HIDE DEF argc
<1>5. /\ at = stack.size - argc - 1
      /\ at \in Frame.base + 1 .. stack.size - 1 /\ at \in 0 .. stack.size - 1
  BY <1>2, <1>3, <1>4
<1>6. Clean(v)  BY <1>4, <1>5 DEF Local, Cell
<1>7. at \in DOMAIN stack.items /\ (~Points(stack, at, stack.topGen) => stack.gen > 0)
  BY <1>4, <1>5, FramePoints
<1>8. Known(v)  BY <1>4, <1>7 DEF StackOK, Cell
<1>9. IF ~Points(stack, at, stack.topGen) \/ v = Junk
      THEN Crash
      ELSE CASE v.type = "fun"    -> EnterFunction(v.val, argc)
             [] v.type = "native" -> CallNative(argc)
             [] OTHER             -> Raise(stack)
  BY DEF Call, argc
<1>. HIDE DEF v, at
<1>10. v # Junk  BY <1>6 DEF Clean, Kinds, Junk
<1>11. CASE ~Points(stack, at, stack.topGen)
  <2>1. Crash  BY <1>9, <1>11
  <2>2. Excused  BY <1>7, <1>11, <2>1 DEF Excused, Crash, CrashWith
  <2>. QED  BY <1>4, <2>1, <2>2, CrashKept DEF Crash
<1>12. CASE Points(stack, at, stack.topGen)
  <2>1. CASE v.type = "fun"
    <3>1. EnterFunction(v.val, argc)  BY <1>9, <1>10, <1>12, <2>1
    <3>2. v.val \in FunctionIds /\ v = FunV(v.val) /\ v.val # Script
      BY <1>6, <1>8, <2>1 DEF Known, TValue, FunV, Clean
    <3>3. Cell(stack, stack.size - argc - 1) = FunV(v.val)
      BY <1>5, <3>2 DEF v
    <3>4. argc + 2 <= Here(hs)  BY <1>2, <1>3, <1>4
    <3>. QED  BY <1>2, <1>3, <3>1, <3>2, <3>3, <3>4, EnterInStep
  <2>2. CASE v.type = "native"
    <3>1. Clock \in Readable  BY <1>6, <2>2 DEF Clean, Kinds
    <3>2. CallNative(argc)  BY <1>9, <1>10, <1>12, <2>2
    <3>3. stack'.top < stack'.size
      BY <1>3, <1>4, <3>2, NativeLags DEF OneStack
    <3>4. StackOK(stack')
      BY <1>3, <3>2, CallNativeKeeps DEF Running, TypeOK, StackOK, IsStack
    <3>5. FALSE  BY <3>1, <3>3, <3>4 DEF OneStack, StackOK
    <3>. QED  BY <3>5
  <2>3. CASE v.type \notin {"fun", "native"}
    <3>1. Raise(stack)  BY <1>9, <1>10, <1>12, <2>3
    <3>. QED  BY <1>3, <1>4, <3>1, RaiseKept
  <2>. QED  BY <2>1, <2>2, <2>3
<1>. QED  BY <1>11, <1>12

(* The script's return, which ends the run.                                *)
LEMMA ReturnFromScriptInStep ==
  ASSUME NEW hs, NEW low, Running(hs, low), ReturnFromScript
  PROVE  Kept(hs, low)
<1>1. Fetched("RETURN") /\ Len(frames) = 1  BY DEF ReturnFromScript
<1>2. Here(hs) >= 2  BY <1>1, HereFlows DEF Flows
<1>3. /\ stack' = [stack EXCEPT !.size = 0, !.top = 0, !.topGen = stack.gen]
      /\ frames' = <<>> /\ status' = "returned" /\ globals' = globals
  BY <1>2, TakesOne DEF ReturnFromScript
<1>4. stack'.size = 0 /\ stack'.top = 0
  <2>1. IsStack(stack)  BY DEF Running, TypeOK, StackOK
  <2>. QED  BY <1>3, <2>1 DEF IsStack, StackFields
<1>5. Grounded'
  <2>1. GlobalsClean'  BY <1>3, GlobalsKept DEF Running
  <2>2. DOMAIN frames' = {}  BY <1>3
  <2>. QED  BY <1>3, <1>4, <2>1, <2>2
            DEF Grounded, OneStack, CallBinding, FramesNested, GlobalsClean
<1>6. ~(Len(frames') > low)
  <2>1. low \in Nat  BY RunningTop
  <2>. QED  BY <1>3, <2>1
<1>. QED  BY <1>3, <1>5, <1>6 DEF Kept

(* What a return makes of the stack: the callee's cells are taken off, and *)
(* the result is where the callee was.                                     *)
Restored ==
  /\ StackOK(stack') /\ stack'.size = Frame.base + 1 /\ stack'.top = stack'.size
  /\ stack'.gen = stack.gen
  /\ stack'.items[Frame.base] = Last(stack)
  /\ \A c \in 0 .. Frame.base - 1 : stack'.items[c] = stack.items[c]

(* A return to a frame below restores the stack, unless the stack has      *)
(* moved since the call.                                                   *)
LEMMA ReturnedStack ==
  ASSUME NEW hs, NEW low, Running(hs, low), Return
  PROVE  \/ Crash /\ stack.gen > 0
         \/ /\ Restored
            /\ frames' = SubSeq(frames, 1, Len(frames) - 1) /\ wide' = FALSE
            /\ functions' = functions /\ globals' = globals /\ status' = "run"
<1>. DEFINE above == stack.top - 1 - Frame.base
            diff == IF above > 0 THEN above ELSE 0
            left == [stack EXCEPT !.size = @ - 1 - diff, !.top = Frame.base,
                                  !.topGen = Frame.gen]
            v == Last(stack)
<1>1. Fetched("RETURN")  BY DEF Return
<1>2. Here(hs) >= 2  BY <1>1, HereFlows DEF Flows
<1>3. /\ stack.size = Frame.base + Here(hs) /\ Frame.base \in Nat /\ Here(hs) \in Nat
      /\ stack.size \in Nat /\ StackOK(stack) /\ stack.gen \in Nat
      /\ stack.top = stack.size
  BY HereMapped, RunningTop, LocalStack DEF Local
<1>4. diff = stack.size - 1 - Frame.base /\ diff \in Nat
      /\ ~(stack.size < 1 + diff) /\ stack.size - 1 - diff = Frame.base
      /\ Frame.base \in 0 .. stack.size - 1
  BY <1>2, <1>3
<1>. HIDE DEF diff
<1>5. IF stack.size < 1 + diff \/ stack.topGen # Frame.gen
      THEN Crash
      ELSE /\ stack' = Push(left, v, FALSE)
           /\ frames' = SubSeq(frames, 1, Len(frames) - 1) /\ wide' = FALSE
           /\ functions' = functions /\ globals' = globals /\ status' = status
  BY DEF Return, diff
<1>6. stack.topGen # Frame.gen => stack.gen > 0
  BY <1>3, <1>4, FramePoints
<1>7. CASE stack.topGen # Frame.gen
  BY <1>5, <1>6, <1>7
<1>8. CASE stack.topGen = Frame.gen
  <2>1. /\ stack' = Push(left, v, FALSE)
        /\ frames' = SubSeq(frames, 1, Len(frames) - 1) /\ wide' = FALSE
        /\ functions' = functions /\ globals' = globals /\ status' = status
    BY <1>4, <1>5, <1>8
  <2>2. /\ left.items = stack.items /\ left.size = stack.size - 1 - diff
        /\ left.cap = stack.cap /\ left.gen = stack.gen
        /\ left.top = Frame.base /\ left.topGen = Frame.gen
        /\ IsStack(left)
    <3>1. IsStack(stack)  BY <1>3 DEF StackOK
    <3>. QED  BY <3>1 DEF IsStack, StackFields
  <2>. HIDE DEF left, v
  <2>3. left.size = Frame.base  BY <1>4, <2>2
  <2>4. StackOK(left)
    <3>1. /\ stack.cap \in Nat /\ stack.cap >= 2 /\ stack.size \in 0 .. stack.cap
          /\ stack.items \in [0 .. stack.cap - 1 -> TValue]
          /\ \A i \in 0 .. stack.cap - 1 : Known(stack.items[i])
          /\ stack.gen \in Nat /\ stack.topGen \in 0 .. stack.gen
      BY <1>3 DEF StackOK
    <3>2. left.size \in 0 .. left.cap
      <4>1. Frame.base \in 0 .. stack.cap  BY <1>4, <3>1
      <4>. QED  BY <2>2, <2>3, <4>1
    <3>3. left.topGen \in 0 .. left.gen /\ left.top \in Int
      BY <1>3, <1>8, <2>2, <3>1
    <3>. QED  BY <2>2, <3>1, <3>2, <3>3, Zenon DEF StackOK
  <2>5. Known(v)  BY <1>2, TakesOne DEF v
  <2>6. StackOK(stack') /\ stack'.size = Frame.base + 1 /\ stack'.top = Frame.base + 1
    BY <2>1, <2>2, <2>3, <2>4, <2>5, PushedStack
  <2>7. /\ stack'.items[Frame.base] = v /\ stack'.gen = stack.gen
        /\ \A c \in 0 .. Frame.base - 1 : stack'.items[c] = stack.items[c]
    <3>. DEFINE q == Push(left, v, FALSE)
    <3>1. /\ q.items[left.size] = v
          /\ \A c \in 0 .. left.size - 1 : q.items[c] = left.items[c]
          /\ q.gen = left.gen
      <4>1. \A moved \in BOOLEAN :
              LET r == Push(left, v, moved)
              IN  /\ r.items[left.size] = v
                  /\ \A c \in 0 .. left.size - 1 : r.items[c] = left.items[c]
                  /\ ~moved => r.gen = left.gen
        BY <2>4, <2>5, PushedCells
      <4>2. FALSE \in BOOLEAN  OBVIOUS
      <4>. QED  BY <4>1, <4>2
    <3>2. stack' = q  BY <2>1
    <3>. HIDE DEF q
    <3>. QED  BY <2>2, <2>3, <3>1, <3>2
  <2>. QED  BY <2>1, <2>6, <2>7 DEF Restored, v, Running
<1>. QED  BY <1>7, <1>8

(* RETURN to a frame below.                                                *)
LEMMA ReturnInStep ==
  ASSUME NEW hs, NEW low, Running(hs, low), Return
  PROVE  Kept(hs, low)
<1>. DEFINE top == Len(frames)
<1>1. Fetched("RETURN") /\ top > 1  BY DEF Return
<1>2. Here(hs) >= 2  BY <1>1, HereFlows DEF Flows
<1>3. Clean(Last(stack)) /\ Local(stack)  BY <1>2, TakesOne, LocalStack
<1>4. CASE Crash /\ stack.gen > 0
  <2>1. Excused  BY <1>4 DEF Excused, Crash, CrashWith
  <2>. QED  BY <1>3, <1>4, <2>1, CrashKept DEF Crash
<1>5. CASE /\ Restored
           /\ frames' = SubSeq(frames, 1, top - 1) /\ wide' = FALSE
           /\ functions' = functions /\ globals' = globals /\ status' = "run"
  <2>1. /\ top \in Nat /\ DOMAIN frames = 1 .. top /\ low \in Nat
        /\ frames \in Seq(FrameType) /\ Frame.base \in Nat
        /\ \A i \in 1 .. top : frames[i].base \in 0 .. Frame.base
    BY RunningTop
  <2>2. top - 1 \in Nat /\ top \in 1 .. top /\ 1 \in 1 .. top - 1
        /\ \A i \in 1 .. top - 1 : i \in 1 .. top /\ i < top
    <3>. HIDE DEF top
    <3>. QED  BY <1>1, <2>1
  <2>3. /\ Len(frames') = top - 1 /\ DOMAIN frames' = 1 .. top - 1
        /\ \A i \in 1 .. top - 1 : frames'[i] = frames[i]
    <3>. HIDE DEF top
    <3>1. Len(SubSeq(frames, 1, top - 1)) = top - 1
      BY <1>1, <2>1
    <3>2. SubSeq(frames, 1, top - 1) = [i \in 1 .. top - 1 |-> frames[i]]
      BY <1>1, <2>1
    <3>. QED  BY <1>5, <3>1, <3>2
  <2>4. /\ stack'.size = Frame.base + 1 /\ stack'.top = stack'.size /\ StackOK(stack')
        /\ stack'.items[Frame.base] = Last(stack) /\ stack'.gen = stack.gen
        /\ \A c \in 0 .. Frame.base - 1 : stack'.items[c] = stack.items[c]
    BY <1>5 DEF Restored
  <2>5. \A i, j \in DOMAIN frames : i < j => frames[i].base < frames[j].base
    BY DEF Running, Grounded, FramesNested
  <2>6. \A i \in 1 .. top - 1 : frames[i].base < Frame.base
    BY <2>1, <2>2, <2>5 DEF Frame
  <2>7. CallBinding'
    <3>. SUFFICES ASSUME NEW i \in 1 .. top - 1
                  PROVE  /\ frames[i].base \in 0 .. stack'.size - 1
                         /\ stack'.items[frames[i].base] = FunV(frames[i].fn)
      BY <2>3 DEF CallBinding, Cell
    <3>1. i \in 1 .. top /\ frames[i].base < Frame.base /\ frames[i].base \in 0 .. Frame.base
      BY <2>1, <2>2, <2>6
    <3>2. frames[i].base \in 0 .. Frame.base - 1 /\ frames[i].base \in 0 .. stack'.size - 1
      BY <2>1, <2>4, <3>1
    <3>3. stack.items[frames[i].base] = FunV(frames[i].fn)
      BY <2>1, <3>1 DEF Running, Grounded, CallBinding, Cell
    <3>. QED  BY <2>4, <3>2, <3>3
  <2>8. FramesNested'
    <3>. SUFFICES ASSUME NEW i \in 1 .. top - 1, NEW j \in 1 .. top - 1, i < j
                  PROVE  frames[i].base < frames[j].base
      BY <2>3 DEF FramesNested
    <3>1. i \in DOMAIN frames /\ j \in DOMAIN frames  BY <2>1, <2>2
    <3>. QED  BY <2>5, <3>1
  <2>9. frames' # <<>> /\ frames'[1].base = 0
    <3>1. frames # <<>>  BY DEF Running, TypeOK
    <3>2. frames[1].base = 0  BY <3>1 DEF Running, Grounded
    <3>3. frames'[1].base = 0  BY <2>2, <2>3, <3>2
    <3>4. DOMAIN frames' # {}  BY <2>2, <2>3
    <3>. QED  BY <3>3, <3>4
  <2>10. \A i \in DOMAIN frames' : frames'[i].gen <= stack'.gen
    BY <2>1, <2>2, <2>3, <2>4 DEF Running, Grounded
  <2>11. Grounded'
    <3>1. GlobalsClean'  BY <1>5, GlobalsKept DEF Running
    <3>. QED  BY <2>4, <2>7, <2>8, <2>9, <2>10, <3>1 DEF Grounded, GlobalsClean, OneStack
  <2>12. ASSUME Len(frames') > low  PROVE InStep(hs, low)'
    <3>0. low < top - 1 /\ low + 1 \in 1 .. top - 1
          /\ \A i \in low + 1 .. top - 1 :
               /\ i \in low + 1 .. top /\ i \in 1 .. top - 1 /\ i # top
               /\ i # top - 1 => i + 1 \in 1 .. top - 1
      <4>1. top - 1 > low /\ top \in Nat /\ low \in Nat  BY <2>1, <2>3, <2>12
      <4>. HIDE DEF top
      <4>. QED  BY <4>1
    <3>1. low \in Nat /\ low < Len(frames')  BY <2>1, <2>3, <3>0
    <3>2. \A f \in FunctionIds : IsMap(functions', f, hs[f])
      BY <1>5 DEF Running, InStep
    <3>3. ASSUME NEW i \in low + 1 .. top - 1
          PROVE  /\ Place(i)' \in DOMAIN hs[frames'[i].fn]
                 /\ End(i)' = frames'[i].base + hs[frames'[i].fn][Place(i)']
                 /\ frames'[i].fn = Script <=> i = low + 1
      <4>1. i \in low + 1 .. top /\ i \in 1 .. top - 1 /\ i # top
            /\ (i # top - 1 => i + 1 \in 1 .. top - 1)
        BY <3>0
      <4>2. frames'[i] = frames[i]  BY <2>3, <4>1
      <4>3. Place(i)' = Place(i)  BY <1>5, <4>1, <4>2 DEF Place
      <4>4. End(i)' = End(i)
        <5>1. CASE i = top - 1
          <6>1. i + 1 = top  BY <2>1, <5>1
          <6>2. End(i) = Frame.base + 1  BY <4>1, <6>1 DEF End, Frame
          <6>3. End(i)' = stack'.size  BY <2>3, <5>1 DEF End
          <6>. QED  BY <2>4, <6>2, <6>3
        <5>2. CASE i # top - 1
          <6>1. frames'[i + 1] = frames[i + 1]  BY <2>3, <4>1, <5>2
          <6>. QED  BY <2>3, <4>1, <5>2, <6>1 DEF End
        <5>. QED  BY <5>1, <5>2
      <4>5. /\ Place(i) \in DOMAIN hs[frames[i].fn]
            /\ End(i) = frames[i].base + hs[frames[i].fn][Place(i)]
            /\ frames[i].fn = Script <=> i = low + 1
        BY <4>1 DEF Running, InStep
      <4>. QED  BY <4>2, <4>3, <4>4, <4>5
    <3>4. \A c \in frames'[low + 1].base + 1 .. stack'.size - 1 : Clean(Cell(stack, c)')
      <4>. SUFFICES ASSUME NEW c \in frames[low + 1].base + 1 .. Frame.base
                    PROVE  Clean(stack'.items[c])
        <5>1. frames'[low + 1] = frames[low + 1]  BY <2>3, <3>0
        <5>2. stack'.size - 1 = Frame.base  BY <2>1, <2>4
        <5>. QED  BY <5>1, <5>2 DEF Cell
      <4>1. frames[low + 1].base \in Nat /\ Frame.base \in Nat /\ stack.size \in Nat
            /\ Frame.base + 1 <= stack.size
        BY RunningTop
      <4>2. CASE c = Frame.base  BY <1>3, <2>4, <4>2
      <4>3. CASE c # Frame.base
        <5>1. c \in 0 .. Frame.base - 1
              /\ c \in frames[low + 1].base + 1 .. stack.size - 1
          BY <4>1, <4>3
        <5>2. Clean(stack.items[c])  BY <5>1 DEF Running, InStep, Cell
        <5>. QED  BY <2>4, <5>1, <5>2
      <4>. QED  BY <4>2, <4>3
    <3>. HIDE DEF top
    <3>. QED  BY <2>3, <3>1, <3>2, <3>3, <3>4 DEF InStep
  <2>. QED  BY <1>5, <2>4, <2>11, <2>12 DEF Kept
<1>. QED  BY <1>4, <1>5, ReturnedStack

(* Every step but a native's call.                                         *)
LEMMA StepInStep ==
  ASSUME NEW hs, NEW low, Running(hs, low), Step, OneStack' \/ Clock \notin Readable
  PROVE  Kept(hs, low)
BY ConstantInStep, BinaryInStep, UnaryInStep, PrintInStep, PopInStep, SetGlobalInStep,
   LoadGlobalInStep, SetLocalInStep, LoadLocalInStep, JumpInStep, CallInStep,
   ReturnFromScriptInStep, ReturnInStep, WideInStep, HaltInStep, OverrunInStep
   DEF Step

-----------------------------------------------------------------------------
(* What interpret() finds and leaves.                                      *)

(* A program is interpreted: its script's frame begins at the script, above *)
(* everything that is on the stack.                                        *)
LEMMA InterpretInStep ==
  ASSUME TypeOK, Grounded, NEW fs, InterpretFunction(fs), NEW hs,
         NEW low, low = Len(frames),
         \A f \in FunctionIds : IsMap(fs, f, hs[f])
  PROVE  /\ Grounded'
         /\ status' = "run" => InStep(hs, low)'
         /\ status' \in {"run", "error"}
         /\ Moves = {FALSE} => stack'.gen = stack.gen
<1>. DEFINE top == Len(frames)
            size == stack.size
            new == [fn |-> Script, ip |-> 0, base |-> stack'.size - 1, gen |-> stack'.gen]
<1>1. PICK moved \in Moves : stack' = Push(stack, FunV(Script), moved)
  BY DEF InterpretFunction
<1>2. moved \in BOOLEAN /\ (Moves = {FALSE} => ~moved) /\ FrameLimit \in Nat \ {0}
      /\ Script \in FunctionIds
  BY VmAssumption
<1>3. StackOK(stack) /\ size \in Nat /\ stack.gen \in Nat /\ stack.top = size
      /\ top \in Nat /\ DOMAIN frames = 1 .. top /\ frames \in Seq(FrameType)
  BY DEF TypeOK, StackOK, Grounded, OneStack
<1>4. Known(FunV(Script))  BY VmAssumption DEF Known, FunV, TValue
<1>5. StackOK(stack') /\ stack'.size = size + 1 /\ stack'.top = size + 1
  BY <1>1, <1>2, <1>3, <1>4, PushedStack
<1>6. /\ stack'.items[size] = FunV(Script)
      /\ \A c \in 0 .. size - 1 : stack'.items[c] = stack.items[c]
      /\ stack'.gen >= stack.gen /\ stack'.gen \in Nat
      /\ ~moved => stack'.gen = stack.gen
  BY <1>1, <1>2, <1>3, <1>4, PushedCells
<1>7. /\ functions' = fs /\ wide' = FALSE /\ globals' = globals
      /\ top = FrameLimit => status' = "error" /\ frames' = frames
      /\ top # FrameLimit => status' = "run" /\ frames' = Append(frames, new)
  BY DEF InterpretFunction
<1>8. OneStack' /\ GlobalsClean'
  BY <1>5, <1>7, GlobalsKept DEF OneStack
<1>9. \A i \in 1 .. top :
        /\ frames[i].base \in 0 .. size - 1 /\ frames[i].base \in 0 .. stack'.size - 1
        /\ stack'.items[frames[i].base] = FunV(frames[i].fn)
        /\ frames[i].gen <= stack'.gen
  <2>. SUFFICES ASSUME NEW i \in 1 .. top
                PROVE  /\ frames[i].base \in 0 .. size - 1
                       /\ frames[i].base \in 0 .. stack'.size - 1
                       /\ stack'.items[frames[i].base] = FunV(frames[i].fn)
                       /\ frames[i].gen <= stack'.gen
    OBVIOUS
  <2>1. /\ frames[i].base \in 0 .. size - 1 /\ frames[i].gen <= stack.gen
        /\ stack.items[frames[i].base] = FunV(frames[i].fn)
    BY <1>3 DEF Grounded, CallBinding, Cell
  <2>2. frames[i].gen \in Nat
    <3>1. frames[i] \in FrameType  BY <1>3
    <3>. QED  BY <3>1 DEF FrameType
  <2>. QED  BY <1>3, <1>5, <1>6, <2>1, <2>2
<1>10. \A i, j \in 1 .. top : i < j => frames[i].base < frames[j].base
  BY <1>3 DEF Grounded, FramesNested
<1>11. IF frames = <<>> THEN size = 0 ELSE frames[1].base = 0
  BY DEF Grounded
<1>12. Moves = {FALSE} => stack'.gen = stack.gen  BY <1>2, <1>6
<1>13. CASE top = FrameLimit
  <2>1. frames # <<>>  BY <1>2, <1>13
  <2>. QED
    BY <1>3, <1>7, <1>8, <1>9, <1>10, <1>11, <1>12, <1>13, <2>1
       DEF Grounded, GlobalsClean, CallBinding, FramesNested, Cell
<1>14. CASE top # FrameLimit
  <2>1. /\ Len(frames') = top + 1 /\ DOMAIN frames' = 1 .. top + 1
        /\ frames'[top + 1] = new
        /\ \A i \in 1 .. top : frames'[i] = frames[i]
        /\ \A i \in 1 .. top + 1 : i = top + 1 \/ i \in 1 .. top
    <3>. HIDE DEF new
    <3>. QED  BY <1>3, <1>7, <1>14, Appended
  <2>2. new.fn = Script /\ new.ip = 0 /\ new.base = size /\ new.gen = stack'.gen
    BY <1>3, <1>5
  <2>. HIDE DEF new, top, size
  <2>3. CallBinding'
    <3>. SUFFICES ASSUME NEW i \in 1 .. top + 1
                  PROVE  /\ frames'[i].base \in 0 .. stack'.size - 1
                         /\ stack'.items[frames'[i].base] = FunV(frames'[i].fn)
      BY <2>1 DEF CallBinding, Cell
    <3>1. CASE i = top + 1
      <4>1. size \in 0 .. stack'.size - 1  BY <1>3, <1>5
      <4>. QED  BY <1>6, <2>1, <2>2, <3>1, <4>1
    <3>2. CASE i \in 1 .. top  BY <1>9, <2>1, <3>2
    <3>. QED  BY <2>1, <3>1, <3>2
  <2>4. FramesNested'
    <3>. SUFFICES ASSUME NEW i \in 1 .. top + 1, NEW j \in 1 .. top + 1, i < j
                  PROVE  frames'[i].base < frames'[j].base
      BY <2>1 DEF FramesNested
    <3>0. i \in 1 .. top  BY <1>3
    <3>1. CASE j = top + 1
      <4>1. frames[i].base \in 0 .. size - 1  BY <1>9, <3>0
      <4>2. frames[i].base < size  BY <1>3, <4>1
      <4>. QED  BY <2>1, <2>2, <3>0, <3>1, <4>2
    <3>2. CASE j \in 1 .. top  BY <1>10, <2>1, <3>0, <3>2
    <3>. QED  BY <2>1, <3>1, <3>2
  <2>5. frames' # <<>> /\ frames'[1].base = 0
    <3>1. frames' # <<>>  BY <1>3, <2>1
    <3>2. CASE frames = <<>>
      <4>1. top = 0  BY <3>2 DEF top
      <4>. QED  BY <1>11, <2>1, <2>2, <3>1, <3>2, <4>1
    <3>3. CASE frames # <<>>
      <4>1. 1 \in 1 .. top  BY <1>3, <3>3 DEF top
      <4>. QED  BY <1>11, <2>1, <3>1, <3>3, <4>1
    <3>. QED  BY <3>2, <3>3
  <2>6. \A i \in DOMAIN frames' : frames'[i].gen <= stack'.gen
    <3>. SUFFICES ASSUME NEW i \in 1 .. top + 1 PROVE frames'[i].gen <= stack'.gen
      BY <2>1
    <3>1. CASE i = top + 1  BY <1>6, <2>1, <2>2, <3>1
    <3>2. CASE i \in 1 .. top  BY <1>9, <2>1, <3>2
    <3>. QED  BY <2>1, <3>1, <3>2
  <2>7. Grounded'
    BY <1>8, <2>3, <2>4, <2>5, <2>6 DEF Grounded, GlobalsClean
  <2>8. ASSUME NEW i \in top + 1 .. top + 1
        PROVE  /\ Place(i)' \in DOMAIN hs[frames'[i].fn]
               /\ End(i)' = frames'[i].base + hs[frames'[i].fn][Place(i)']
               /\ frames'[i].fn = Script <=> i = top + 1
    <3>1. i = top + 1  BY <1>3
    <3>2. Place(i)' = <<0, FALSE>>  BY <1>7, <2>1, <2>2, <3>1 DEF Place
    <3>3. End(i)' = size + 1  BY <1>5, <2>1, <3>1 DEF End
    <3>4. GoesTo(hs[Script], 0, 0 + 1)
      <4>1. IsMap(fs, Script, hs[Script])  BY <1>2
      <4>. QED  BY <4>1 DEF IsMap
    <3>5. size + 1 = size + (0 + 1)  BY <1>3
    <3>. QED  BY <2>1, <2>2, <3>1, <3>2, <3>3, <3>4, <3>5 DEF GoesTo
  <2>9. InStep(hs, low)'
    <3>0. low = top  BY DEF top
    <3>1. top \in Nat /\ top < Len(frames')  BY <1>3, <2>1
    <3>2. \A f \in FunctionIds : IsMap(functions', f, hs[f])  BY <1>7
    <3>3. \A c \in frames'[top + 1].base + 1 .. stack'.size - 1 : Clean(Cell(stack, c)')
      <4>1. frames'[top + 1].base = size  BY <2>1, <2>2
      <4>2. ~ \E c \in size + 1 .. stack'.size - 1 : TRUE  BY <1>3, <1>5
      <4>. QED  BY <4>1, <4>2
    <3>. QED  BY <2>1, <2>8, <3>0, <3>1, <3>2, <3>3 DEF InStep
  <2>. QED  BY <1>7, <1>12, <1>14, <2>7, <2>9
<1>. QED  BY <1>13, <1>14

-----------------------------------------------------------------------------
(* A machine that lags.  Once a native has been called, v.stack_top stays  *)
(* behind the array's size for the rest of the run: the frames may have    *)
(* more cells than their maps say, but never fewer.                        *)

Enough(hs) ==
  /\ \A f \in FunctionIds : IsMap(functions, f, hs[f])
  /\ \A i \in DOMAIN frames :
       /\ Place(i) \in DOMAIN hs[frames[i].fn]
       /\ End(i) >= frames[i].base + hs[frames[i].fn][Place(i)]
       /\ frames[i].base >= 0

(* Where such a machine stands.                                            *)
LEMMA EnoughHere ==
  ASSUME TypeOK, status = "run", NEW hs, Enough(hs)
  PROVE  /\ IsMap(functions, Frame.fn, hs[Frame.fn])
         /\ <<Frame.ip, wide>> \in DOMAIN hs[Frame.fn]
         /\ Here(hs) \in Nat \ {0} /\ Frame.ip \in Nat /\ Frame.base \in Nat
         /\ stack.size \in Nat /\ stack.size >= Frame.base + Here(hs)
         /\ StackOK(stack)
<1>1. /\ Len(frames) \in DOMAIN frames /\ Frame \in FrameType
  <2>1. Len(frames) \in Nat \ {0} /\ DOMAIN frames = 1 .. Len(frames) /\ Frame \in FrameType
    BY RunningFrame
  <2>. QED  BY <2>1
<1>2. Frame.fn \in FunctionIds /\ Frame.base \in Int  BY <1>1 DEF FrameType
<1>3. Place(Len(frames)) = <<Frame.ip, wide>>  BY DEF Place, Frame, TypeOK
<1>4. End(Len(frames)) = stack.size  BY DEF End
<1>5. /\ <<Frame.ip, wide>> \in DOMAIN hs[Frame.fn]
      /\ stack.size >= Frame.base + Here(hs)
      /\ Frame.base >= 0
  BY <1>1, <1>3, <1>4 DEF Enough, Frame, Here
<1>6. IsMap(functions, Frame.fn, hs[Frame.fn])  BY <1>2 DEF Enough
<1>7. Here(hs) \in Nat \ {0} /\ Frame.ip \in Nat
  BY <1>5, <1>6 DEF IsMap, Here
<1>8. stack.size \in Nat /\ StackOK(stack)  BY DEF TypeOK, StackOK
<1>. QED  BY <1>2, <1>5, <1>6, <1>7, <1>8

(* The last frame goes on elsewhere, with as many cells as the map says.   *)
LEMMA EnoughMoved ==
  ASSUME TypeOK, status = "run", NEW hs, Enough(hs), NEW ip \in Int,
         frames' = Advanced(ip), functions' = functions,
         <<ip, wide'>> \in DOMAIN hs[Frame.fn], wide' \in BOOLEAN,
         stack'.size >= Frame.base + hs[Frame.fn][<<ip, wide'>>]
  PROVE  Enough(hs)'
<1>. DEFINE top == Len(frames)
<1>1. top \in Nat /\ DOMAIN frames = 1 .. top /\ top \in 1 .. top
  <2>1. Len(frames) \in Nat \ {0} /\ DOMAIN frames = 1 .. Len(frames)  BY RunningFrame
  <2>. QED  BY <2>1
<1>2. SameFrames /\ frames'[Len(frames')].ip = ip  BY AdvancedSame
<1>3. /\ Len(frames') = top /\ DOMAIN frames' = 1 .. top
      /\ \A i \in 1 .. top :
           /\ frames'[i].base = frames[i].base /\ frames'[i].fn = frames[i].fn
           /\ i # top => frames'[i].ip = frames[i].ip
  BY <1>1, <1>2 DEF SameFrames
<1>4. ASSUME NEW i \in 1 .. top
      PROVE  /\ Place(i)' \in DOMAIN hs[frames'[i].fn]
             /\ End(i)' >= frames'[i].base + hs[frames'[i].fn][Place(i)']
             /\ frames'[i].base >= 0
  <2>1. i # top => i + 1 \in 1 .. top
    <3>. HIDE DEF top
    <3>. QED  BY <1>1
  <2>2. /\ Place(i) \in DOMAIN hs[frames[i].fn]
        /\ End(i) >= frames[i].base + hs[frames[i].fn][Place(i)]
        /\ frames[i].base >= 0
    BY <1>1 DEF Enough
  <2>3. CASE i # top
    <3>1. Place(i)' = Place(i)  BY <1>3, <2>1, <2>3 DEF Place
    <3>2. End(i)' = End(i)  BY <1>3, <2>1, <2>3 DEF End
    <3>. QED  BY <1>3, <2>2, <3>1, <3>2
  <2>4. CASE i = top
    <3>1. Place(i)' = <<ip, wide'>>  BY <1>2, <1>3, <2>4 DEF Place
    <3>2. End(i)' = stack'.size  BY <1>3, <2>4 DEF End
    <3>3. frames'[i].fn = Frame.fn /\ frames'[i].base = Frame.base
      BY <1>3, <2>4 DEF Frame
    <3>. QED  BY <1>3, <2>2, <3>1, <3>2, <3>3
  <2>. QED  BY <2>3, <2>4
<1>5. \A f \in FunctionIds : IsMap(functions', f, hs[f])  BY DEF Enough
<1>. QED  BY <1>3, <1>4, <1>5 DEF Enough

(* The loop goes on, with enough cells.                                    *)
LEMMA EnoughGoto ==
  ASSUME TypeOK, status = "run", NEW hs, Enough(hs), NEW ip \in Int, NEW s,
         Goto(ip, s), NEW n, GoesTo(hs[Frame.fn], ip, n), s.size >= Frame.base + n
  PROVE  Enough(hs)'
<1>1. /\ stack' = s /\ frames' = Advanced(ip) /\ wide' = FALSE
      /\ functions' = functions
  BY DEF Goto
<1>2. <<ip, wide'>> \in DOMAIN hs[Frame.fn] /\ hs[Frame.fn][<<ip, wide'>>] = n
  BY <1>1 DEF GoesTo
<1>. QED  BY <1>1, <1>2, EnoughMoved

(* The sizes of what pops and pushes leave.                                *)
LEMMA Sizes ==
  ASSUME NEW s, StackOK(s)
  PROVE  /\ s.size \in Nat
         /\ \A v : \A moved \in BOOLEAN : Push(s, v, moved).size = s.size + 1
         /\ \A n \in Nat : n <= s.size =>
              /\ Drop(s, n).size = s.size - n
              /\ \A v : \A moved \in BOOLEAN :
                   Push(Drop(s, n), v, moved).size = s.size - n + 1
<1>1. ASSUME NEW r, StackOK(r), NEW v, NEW moved \in BOOLEAN
      PROVE  Push(r, v, moved).size = r.size + 1
  <2>. DEFINE u == [r EXCEPT !.top = @ + 1]
              g == EnsureCapacity(u, 1, Junk, moved)
              p == Push(r, v, moved)
  <2>1. StackOK(u) /\ u.size = r.size  BY <1>1, RaisedStack
  <2>2. StackOK(g) /\ g.size = u.size  BY <2>1, GrownStack
  <2>3. p = [g EXCEPT !.items[g.size] = v, !.size = @ + 1]
    BY DEF Push, Stored
  <2>4. p.size = g.size + 1
    <3>1. IsStack(g)  BY <2>2 DEF StackOK
    <3>. QED  BY <2>3, <3>1 DEF IsStack, StackFields
  <2>. QED  BY <2>1, <2>2, <2>4
<1>2. s.size \in Nat  BY DEF StackOK
<1>3. ASSUME NEW n \in Nat, n <= s.size
      PROVE  StackOK(Drop(s, n)) /\ Drop(s, n).size = s.size - n
  BY <1>3, DroppedStack
<1>. QED  BY <1>1, <1>2, <1>3

(* The loop goes on only with a Goto.                                      *)
LEMMA YieldGoes ==
  ASSUME NEW r, NEW s, Yield(r, s), status' = "run"
  PROVE  Continue(Push(s, r, FALSE))
BY DEF Yield, Crash, CrashWith, Raise

(* An instruction that takes t cells and leaves t + d.                     *)
LEMMA EnoughChanged ==
  ASSUME TypeOK, status = "run", NEW hs, Enough(hs), NEW ip \in Int, NEW s, Goto(ip, s),
         NEW d \in Int, GoesTo(hs[Frame.fn], ip, Here(hs) + d), s.size = stack.size + d
  PROVE  Enough(hs)'
<1>. DEFINE b == Frame.base
            m == Here(hs)
            z == stack.size
<1>1. b \in Nat /\ m \in Nat /\ z \in Nat /\ z >= b + m  BY EnoughHere
<1>2. s.size >= b + (m + d)
  <2>. HIDE DEF b, m
  <2>. QED  BY <1>1
<1>. QED  BY <1>2, EnoughGoto

(* The instructions other than CALL and RETURN.                            *)
LEMMA PlainEnough ==
  ASSUME TypeOK, NEW hs, Enough(hs), status' = "run",
         \/ Constant \/ BinaryOperator \/ UnaryOperator \/ PrintValue \/ PopValue
         \/ SetGlobal \/ LoadGlobal \/ SetLocal \/ LoadLocal
         \/ Jump \/ Wide \/ Halt \/ Overrun
  PROVE  Enough(hs)'
<1>0. /\ FALSE \in BOOLEAN /\ \A moved \in Moves : moved \in BOOLEAN
      /\ StackOK(stack) /\ stack.size \in Nat
  BY VmAssumption DEF TypeOK, StackOK
<1>a. status = "run"
  BY DEF Constant, ConstantBy, BinaryOperator, UnaryOperator, PrintValue, PopValue,
         SetGlobal, LoadGlobal, SetLocal, LoadLocal, Jump, Wide, Halt, Overrun, Fetched
<1>b. /\ IsMap(functions, Frame.fn, hs[Frame.fn])
      /\ <<Frame.ip, wide>> \in DOMAIN hs[Frame.fn]
      /\ Here(hs) \in Nat /\ Frame.base \in Nat /\ stack.size >= Frame.base + Here(hs)
  BY <1>a, EnoughHere
<1>c. ~CrashWith(stack) /\ \A s : ~CrashWith(s) /\ ~Raise(s)
  BY DEF CrashWith, Raise
<1>d. ASSUME NEW op, Fetched(op)
      PROVE  /\ Following \in Int
             /\ Flows(functions, Frame.fn, hs[Frame.fn], <<Frame.ip, wide>>)
             /\ OpAt(functions[Frame.fn].code, <<Frame.ip, wide>>[1]) = op
             /\ NextAt(functions[Frame.fn].code, <<Frame.ip, wide>>) = Following
             /\ ArgAt(functions[Frame.fn].code, <<Frame.ip, wide>>) = Operand
             /\ IndexAt(functions[Frame.fn].code, <<Frame.ip, wide>>) = IndexOf(op)
             /\ DistAt(functions[Frame.fn].code, <<Frame.ip, wide>>)
                  = ShortAt(Code, Frame.ip + 1)
             /\ hs[Frame.fn][<<Frame.ip, wide>>] = Here(hs)
  BY <1>b, <1>d, PlaceFlows, FetchedOperand
<1>e. ASSUME NEW ip \in Int, NEW d \in Int, GoesTo(hs[Frame.fn], ip, Here(hs) + d),
             NEW s, Goto(ip, s), s.size = stack.size + d
      PROVE  Enough(hs)'
  BY <1>a, <1>e, EnoughChanged
<1>f. Here(hs) + 0 = Here(hs) /\ Here(hs) + (-1) = Here(hs) - 1
      /\ stack.size + 0 = stack.size /\ stack.size + (-1) = stack.size - 1
      /\ stack.size - 2 + 1 = stack.size + (-1) /\ stack.size - 1 + 1 = stack.size + 0
  BY <1>0, <1>b
<1>g. /\ \A v : \A moved \in Moves : Push(stack, v, moved).size = stack.size + 1
      /\ ~(stack.size < 2) =>
           \A v : Push(Drop(stack, 2), v, FALSE).size = stack.size + (-1)
      /\ ~(stack.size < 1) =>
           /\ \A v : Push(Drop(stack, 1), v, FALSE).size = stack.size + 0
           /\ Drop(stack, 1).size = stack.size + (-1)
  <2>1. \A n \in Nat : n <= stack.size =>
          /\ Drop(stack, n).size = stack.size - n
          /\ \A v : Push(Drop(stack, n), v, FALSE).size = stack.size - n + 1
    BY <1>0, Sizes
  <2>2. /\ ~(stack.size < 2) => 2 \in Nat /\ 2 <= stack.size
        /\ ~(stack.size < 1) => 1 \in Nat /\ 1 <= stack.size
    BY <1>0
  <2>. QED  BY <1>0, <1>f, <2>1, <2>2, Sizes
<1>h. ASSUME NEW v, NEW moved \in Moves, Goto(Following, Push(stack, v, moved)),
             Following \in Int, GoesTo(hs[Frame.fn], Following, Here(hs) + 1)
      PROVE  Enough(hs)'
  <2>1. Push(stack, v, moved).size = stack.size + 1  BY <1>g
  <2>. QED  BY <1>e, <1>h, <2>1
<1>1. CASE Constant
  <2>1. PICK op \in {"CONSTANT", "CONSTANT_LONG"} : ConstantBy(op)  BY <1>1 DEF Constant
  <2>2. Following \in Int /\ GoesTo(hs[Frame.fn], Following, Here(hs) + 1)
    BY <2>1, <1>d DEF ConstantBy, Flows
  <2>3. \E v : \E moved \in Moves : Goto(Following, Push(stack, v, moved))
    BY <1>c, <2>1 DEF ConstantBy, Crash, Continue
  <2>. QED  BY <1>h, <2>2, <2>3
<1>2. CASE BinaryOperator
  <2>0. PICK op \in BinaryOps :
          Fetched(op) /\ ~(stack.size < 2) /\ \E r : Yield(r, Drop(stack, 2))
    BY <1>2, <1>c DEF BinaryOperator, Crash
  <2>1. PICK r : Fetched(op) /\ ~(stack.size < 2) /\ Yield(r, Drop(stack, 2))
    BY <2>0
  <2>2. Following \in Int /\ GoesTo(hs[Frame.fn], Following, Here(hs) - 1)
    BY <2>1, <1>d DEF Flows
  <2>3. Goto(Following, Push(Drop(stack, 2), r, FALSE))
    BY <2>1, YieldGoes DEF Continue
  <2>4. Push(Drop(stack, 2), r, FALSE).size = stack.size + (-1)
    BY <1>g, <2>1
  <2>5. GoesTo(hs[Frame.fn], Following, Here(hs) + (-1))  BY <1>f, <2>2
  <2>6. PICK q : q = Push(Drop(stack, 2), r, FALSE)  OBVIOUS
  <2>7. Goto(Following, q) /\ q.size = stack.size + (-1)  BY <2>3, <2>4, <2>6
  <2>. QED  BY <1>e, <2>2, <2>5, <2>7
<1>3. CASE UnaryOperator
  <2>0. PICK op \in {"NEG", "NOT"} :
          Fetched(op) /\ ~(stack.size < 1) /\ \E r : Yield(r, Drop(stack, 1))
    BY <1>3, <1>c DEF UnaryOperator, Crash, Pop
  <2>1. PICK r : Fetched(op) /\ ~(stack.size < 1) /\ Yield(r, Drop(stack, 1))
    BY <2>0
  <2>2. Following \in Int /\ GoesTo(hs[Frame.fn], Following, Here(hs))
    BY <2>1, <1>d DEF Flows
  <2>3. Goto(Following, Push(Drop(stack, 1), r, FALSE))
    BY <2>1, YieldGoes DEF Continue
  <2>4. Push(Drop(stack, 1), r, FALSE).size = stack.size + 0
    BY <1>g, <2>1
  <2>5. GoesTo(hs[Frame.fn], Following, Here(hs) + 0)  BY <1>f, <2>2
  <2>6. PICK q : q = Push(Drop(stack, 1), r, FALSE)  OBVIOUS
  <2>7. Goto(Following, q) /\ q.size = stack.size + 0  BY <2>3, <2>4, <2>6
  <2>. QED  BY <1>e, <2>2, <2>5, <2>7
<1>4. CASE PrintValue \/ PopValue
  <2>1. PICK op \in {"PRINT", "POP"} : Fetched(op) /\ ~(stack.size < 1)
                                       /\ Goto(Following, Drop(stack, 1))
    BY <1>4, <1>c DEF PrintValue, PopValue, Crash, Continue, Pop
  <2>2. Following \in Int /\ GoesTo(hs[Frame.fn], Following, Here(hs) - 1)
    BY <2>1, <1>d DEF Flows
  <2>3. Drop(stack, 1).size = stack.size + (-1)  BY <1>g, <2>1
  <2>. QED  BY <1>e, <1>f, <2>1, <2>2, <2>3
<1>5. CASE SetGlobal
  <2>1. /\ Fetched("SETGLOBAL") /\ ~(stack.size < 1)
        /\ stack' = Push(Drop(stack, 1), Last(stack), FALSE)
        /\ frames' = Advanced(Following) /\ wide' = FALSE /\ functions' = functions
    BY <1>5, <1>c DEF SetGlobal, Crash, Pop
  <2>2. Following \in Int /\ GoesTo(hs[Frame.fn], Following, Here(hs))
    BY <2>1, <1>d DEF Flows
  <2>3. stack'.size = stack.size + 0  BY <1>g, <2>1
  <2>4. stack'.size >= Frame.base + Here(hs)  BY <1>b, <1>f, <2>3
  <2>5. <<Following, wide'>> \in DOMAIN hs[Frame.fn]
        /\ hs[Frame.fn][<<Following, wide'>>] = Here(hs)
    BY <2>1, <2>2 DEF GoesTo
  <2>. QED  BY <1>a, <2>1, <2>2, <2>4, <2>5, EnoughMoved
<1>6. CASE LoadGlobal
  <2>1. Fetched("LOADGLOBAL")  BY <1>6 DEF LoadGlobal
  <2>2. Following \in Int /\ GoesTo(hs[Frame.fn], Following, Here(hs) + 1)
    BY <2>1, <1>d DEF Flows
  <2>3. \E v : \E moved \in Moves : Goto(Following, Push(stack, v, moved))
    BY <1>6, <1>c DEF LoadGlobal, Crash, Continue
  <2>. QED  BY <1>h, <2>2, <2>3
<1>7. CASE SetLocal
  <2>1. PICK at, v : Goto(Following, [stack EXCEPT !.items[at] = v])
    BY <1>7, <1>c DEF SetLocal, Crash, Continue
  <2>2. Following \in Int /\ GoesTo(hs[Frame.fn], Following, Here(hs))
    BY <1>7, <1>d DEF SetLocal, Flows
  <2>3. [stack EXCEPT !.items[at] = v].size = stack.size
    <3>1. IsStack(stack)  BY <1>0 DEF StackOK
    <3>. QED  BY <3>1 DEF IsStack, StackFields
  <2>4. GoesTo(hs[Frame.fn], Following, Here(hs) + 0)  BY <1>f, <2>2
  <2>5. PICK q : q = [stack EXCEPT !.items[at] = v]  OBVIOUS
  <2>6. Goto(Following, q) /\ q.size = stack.size + 0  BY <1>f, <2>1, <2>3, <2>5
  <2>. QED  BY <1>e, <2>2, <2>4, <2>6
<1>8. CASE LoadLocal
  <2>1. Fetched("LOADLOCAL")  BY <1>8 DEF LoadLocal
  <2>2. Following \in Int /\ GoesTo(hs[Frame.fn], Following, Here(hs) + 1)
    BY <2>1, <1>d DEF Flows
  <2>3. \E v : \E moved \in Moves : Goto(Following, Push(stack, v, moved))
    BY <1>8, <1>c DEF LoadLocal, Continue
  <2>. QED  BY <1>h, <2>2, <2>3
<1>9. CASE Jump
  <2>. DEFINE D == ShortAt(Code, Frame.ip + 1)
              F == Following
              h == hs[Frame.fn]
  <2>. HIDE DEF D, F, h
  <2>0. ASSUME NEW op \in JumpOps, Fetched(op)
        PROVE  F \in Int /\ D \in Nat /\ F + D \in Int /\ F - D \in Int
    <3>1. F \in Int /\ D \in Nat  BY <2>0, FetchedOperand DEF F, D
    <3>. QED  BY <3>1
  <2>1. CASE Fetched("JMP") /\ Goto(F + D, stack)
    <3>1. GoesTo(h, F + D, Here(hs))  BY <2>1, <1>d DEF Flows, F, D, h
    <3>2. F + D \in Int  BY <2>0, <2>1 DEF JumpOps
    <3>. QED  BY <1>e, <1>f, <2>1, <3>1, <3>2 DEF h
  <2>2. CASE Fetched("NJMP") /\ Goto(F - D, stack)
    <3>1. GoesTo(h, F - D, Here(hs))  BY <2>2, <1>d DEF Flows, F, D, h
    <3>2. F - D \in Int  BY <2>0, <2>2 DEF JumpOps
    <3>. QED  BY <1>e, <1>f, <2>2, <3>1, <3>2 DEF h
  <2>3. CASE /\ Fetched("JMPF") /\ ~(stack.size < 1)
             /\ Goto(F, Drop(stack, 1)) \/ Goto(F + D, Drop(stack, 1))
    <3>1. GoesTo(h, F, Here(hs) - 1) /\ GoesTo(h, F + D, Here(hs) - 1)
      BY <2>3, <1>d DEF Flows, F, D, h
    <3>2. F \in Int /\ F + D \in Int  BY <2>0, <2>3 DEF JumpOps
    <3>3. Drop(stack, 1).size = stack.size + (-1)  BY <1>g, <2>3
    <3>4. CASE Goto(F, Drop(stack, 1))
      BY <1>e, <1>f, <3>1, <3>2, <3>3, <3>4 DEF h
    <3>5. CASE Goto(F + D, Drop(stack, 1))
      BY <1>e, <1>f, <3>1, <3>2, <3>3, <3>5 DEF h
    <3>. QED  BY <2>3, <3>4, <3>5
  <2>4. \/ Fetched("JMP") /\ Goto(F + D, stack)
        \/ Fetched("NJMP") /\ Goto(F - D, stack)
        \/ /\ Fetched("JMPF") /\ ~(stack.size < 1)
           /\ Goto(IF IsTruth(Last(stack)) THEN F ELSE F + D, Drop(stack, 1))
    BY <1>9, <1>c DEF Jump, Crash, Pop, F, D
  <2>. QED  BY <2>1, <2>2, <2>3, <2>4
<1>10. CASE Wide
  <2>1. /\ Fetched("WIDE") /\ stack' = stack /\ frames' = Advanced(Following)
        /\ wide' = TRUE /\ functions' = functions
    BY <1>10 DEF Wide
  <2>2. /\ Following \in Int
        /\ <<Following, TRUE>> \in DOMAIN hs[Frame.fn]
        /\ hs[Frame.fn][<<Following, TRUE>>] = Here(hs)
    BY <2>1, <1>d DEF Flows
  <2>. QED  BY <1>a, <1>b, <2>1, <2>2, EnoughMoved
<1>11. CASE Halt \/ Overrun
  BY <1>11, <1>c DEF Halt, Overrun, Crash
<1>. QED  BY <1>1, <1>2, <1>3, <1>4, <1>5, <1>6, <1>7, <1>8, <1>9, <1>10, <1>11

(* A call: the caller keeps what is below the callee, the callee's frame   *)
(* has itself and its arguments, and v.stack_top falls behind at most.     *)
LEMMA CallEnough ==
  ASSUME TypeOK, NEW hs, Enough(hs), Call, status' = "run"
  PROVE  Enough(hs)'
<1>. DEFINE argc == Operand
            at == stack.top - 1 - argc
            v == Cell(stack, at)
            base == stack.size - argc - 1
            top == Len(frames)
            new(f) == [fn |-> f, ip |-> 0, base |-> base, gen |-> stack.gen]
<1>1. Fetched("CALL") /\ status = "run"  BY DEF Call, Fetched
<1>2. /\ IsMap(functions, Frame.fn, hs[Frame.fn])
      /\ <<Frame.ip, wide>> \in DOMAIN hs[Frame.fn]
      /\ Here(hs) \in Nat /\ Frame.base \in Nat /\ stack.size \in Nat
      /\ stack.size >= Frame.base + Here(hs) /\ StackOK(stack)
  BY <1>1, EnoughHere
<1>3. Here(hs) >= argc + 2 /\ GoesTo(hs[Frame.fn], Following, Here(hs) - argc)
  BY <1>1, <1>2, PlaceFlows DEF Flows
<1>4. Following \in Int /\ argc \in Nat
  BY <1>1, FetchedOperand DEF NamedOps
<1>5. /\ Points(stack, at, stack.topGen)
      /\ \/ v.type = "fun" /\ EnterFunction(v.val, argc)
         \/ CallNative(argc)
  BY Zenon DEF Call, Crash, CrashWith, Raise
<1>. HIDE DEF argc
<1>6. Known(v)
  BY <1>2, <1>5 DEF StackOK, Points, Cell
<1>. HIDE DEF at, v
<1>7. CASE CallNative(argc)
  <2>. DEFINE l == [stack EXCEPT !.top = @ - (argc + 1)]
  <2>1. PICK moved \in Moves : Goto(Following, Push(l, IntV(0), moved))
    BY <1>7 DEF CallNative, Continue
  <2>2. StackOK(l) /\ l.size = stack.size
    <3>1. argc + 1 \in Int  BY <1>4
    <3>. QED  BY <1>2, <3>1, LoweredStack
  <2>. HIDE DEF l
  <2>3. Push(l, IntV(0), moved).size = l.size + 1  BY <2>2, VmAssumption, Sizes
  <2>4. Push(l, IntV(0), moved).size >= Frame.base + (Here(hs) - argc)
    BY <1>2, <1>4, <2>2, <2>3
  <2>. QED  BY <1>1, <1>3, <1>4, <2>1, <2>4, EnoughGoto
<1>8. CASE v.type = "fun" /\ EnterFunction(v.val, argc)
  <2>. DEFINE f == v.val
  <2>1. f \in FunctionIds  BY <1>6, <1>8 DEF Known
  <2>. HIDE DEF f
  <2>. DEFINE A == Advanced(Following)
  <2>2. /\ frames' = Append(A, new(f)) /\ wide' = FALSE /\ functions' = functions
        /\ stack' = stack /\ argc = functions[f].argc
    BY <1>8 DEF EnterFunction, Raise, f
  <2>3. A \in Seq(FrameType) /\ Len(A) = top /\ top \in Nat /\ top \in 1 .. top
        /\ DOMAIN frames = 1 .. top /\ frames \in Seq(FrameType)
    <3>1. Len(frames) \in Nat \ {0} /\ DOMAIN frames = 1 .. Len(frames)
      BY <1>1, RunningFrame
    <3>2. Len(frames) \in 1 .. Len(frames)  BY <3>1
    <3>. QED  BY <1>1, <1>4, <3>1, <3>2, AdvancedFrames DEF TypeOK
  <2>4. /\ \A i \in 1 .. top : A[i].base = frames[i].base /\ A[i].fn = frames[i].fn
                               /\ (i # top => A[i].ip = frames[i].ip)
        /\ A[top].ip = Following
    <3>1. \A i \in 1 .. top : frames[i] \in FrameType  BY <2>3
    <3>2. A = [frames EXCEPT ![top].ip = Following]  BY DEF Advanced
    <3>. HIDE DEF A
    <3>3. /\ \A i \in 1 .. top : i # top => A[i] = frames[i]
          /\ A[top] = [frames[top] EXCEPT !.ip = Following]
      BY <2>3, <3>2
    <3>4. LET g == frames[top]
              q == [g EXCEPT !.ip = Following]
          IN  q.base = g.base /\ q.fn = g.fn /\ q.ip = Following
      <4>1. frames[top] \in FrameType  BY <2>3, <3>1
      <4>. QED  BY <4>1 DEF FrameType
    <3>. QED  BY <3>3, <3>4
  <2>. HIDE DEF A
  <2>5. /\ Len(frames') = top + 1 /\ DOMAIN frames' = 1 .. top + 1
        /\ frames'[top + 1] = new(f)
        /\ \A i \in 1 .. top : frames'[i] = A[i]
        /\ \A i \in 1 .. top + 1 : i = top + 1 \/ i \in 1 .. top
    <3>. HIDE DEF new, top
    <3>. QED  BY <2>2, <2>3, Appended
  <2>6. new(f).fn = f /\ new(f).ip = 0 /\ new(f).base = base
    OBVIOUS
  <2>7. /\ base \in Nat /\ stack.size = base + (argc + 1)
        /\ base + 1 >= Frame.base + (Here(hs) - argc)
    BY <1>2, <1>3, <1>4
  <2>. HIDE DEF new, top, base
  <2>8. ASSUME NEW i \in 1 .. top + 1
        PROVE  /\ Place(i)' \in DOMAIN hs[frames'[i].fn]
               /\ End(i)' >= frames'[i].base + hs[frames'[i].fn][Place(i)']
               /\ frames'[i].base >= 0
    <3>1. CASE i = top + 1
      <4>1. Place(i)' = <<0, FALSE>>  BY <2>2, <2>5, <2>6, <3>1 DEF Place
      <4>2. End(i)' = stack.size  BY <2>2, <2>5, <3>1 DEF End
      <4>3. GoesTo(hs[f], 0, argc + 1)  BY <2>1, <2>2 DEF Enough, IsMap
      <4>4. frames'[i].fn = f /\ frames'[i].base = base  BY <2>5, <2>6, <3>1
      <4>5. stack.size >= base + (argc + 1)  BY <1>4, <2>7
      <4>. QED  BY <2>7, <4>1, <4>2, <4>3, <4>4, <4>5 DEF GoesTo
    <3>2. CASE i = top
      <4>1. i \in 1 .. top /\ i # top + 1 /\ i + 1 = top + 1  BY <2>3, <3>2
      <4>2. /\ frames'[i].ip = Following /\ frames'[i].base = Frame.base
            /\ frames'[i].fn = Frame.fn
        BY <2>4, <2>5, <3>2, <4>1 DEF Frame, top
      <4>3. Place(i)' = <<Following, FALSE>>  BY <2>5, <4>1, <4>2 DEF Place
      <4>4. End(i)' = base + 1  BY <2>5, <2>6, <4>1 DEF End
      <4>. QED  BY <1>2, <1>3, <2>7, <4>2, <4>3, <4>4 DEF GoesTo
    <3>3. CASE i # top /\ i # top + 1
      <4>1. i \in 1 .. top /\ i + 1 \in 1 .. top  BY <2>3, <3>3
      <4>2. /\ frames'[i].ip = frames[i].ip /\ frames'[i].base = frames[i].base
            /\ frames'[i].fn = frames[i].fn /\ frames'[i + 1].base = frames[i + 1].base
        BY <2>4, <2>5, <3>3, <4>1
      <4>3. Place(i)' = Place(i)  BY <2>5, <3>3, <4>2 DEF Place, top
      <4>4. End(i)' = End(i)  BY <2>5, <3>3, <4>2 DEF End, top
      <4>5. /\ Place(i) \in DOMAIN hs[frames[i].fn]
            /\ End(i) >= frames[i].base + hs[frames[i].fn][Place(i)]
            /\ frames[i].base >= 0
        BY <2>3, <4>1 DEF Enough
      <4>. QED  BY <4>2, <4>3, <4>4, <4>5
    <3>. QED  BY <3>1, <3>2, <3>3
  <2>9. \A g \in FunctionIds : IsMap(functions', g, hs[g])  BY <2>2 DEF Enough
  <2>. QED  BY <2>5, <2>8, <2>9 DEF Enough
<1>. QED  BY <1>5, <1>7, <1>8

(* A return: the caller has its cells again, and if v.stack_top lagged, it *)
(* still does.                                                             *)
LEMMA ReturnEnough ==
  ASSUME TypeOK, NEW hs, Enough(hs), Lag >= 0, Return, status' = "run"
  PROVE  Enough(hs)' /\ (Lag > 0 => Lag' > 0) /\ Lag' >= 0
<1>. DEFINE above == stack.top - 1 - Frame.base
            diff == IF above > 0 THEN above ELSE 0
            left == [stack EXCEPT !.size = @ - 1 - diff, !.top = Frame.base,
                                  !.topGen = Frame.gen]
            v == Last(stack)
            top == Len(frames)
<1>1. Fetched("RETURN") /\ status = "run" /\ top > 1  BY DEF Return, Fetched
<1>2. /\ IsMap(functions, Frame.fn, hs[Frame.fn])
      /\ <<Frame.ip, wide>> \in DOMAIN hs[Frame.fn]
      /\ Here(hs) \in Nat /\ Frame.base \in Nat /\ stack.size \in Nat
      /\ stack.size >= Frame.base + Here(hs) /\ StackOK(stack) /\ stack.top \in Int
  BY <1>1, EnoughHere DEF StackOK
<1>3. Here(hs) >= 2
  BY <1>1, <1>2, PlaceFlows DEF Flows
<1>4. /\ ~(stack.size < 1 + diff) /\ stack.topGen = Frame.gen
      /\ stack' = Push(left, v, FALSE)
      /\ frames' = SubSeq(frames, 1, top - 1) /\ wide' = FALSE
      /\ functions' = functions
  BY Zenon DEF Return, Crash, CrashWith
<1>5. /\ diff \in Nat
      /\ \/ diff = stack.top - 1 - Frame.base /\ diff > 0
         \/ diff = 0 /\ stack.top - 1 - Frame.base <= 0
  BY <1>2
<1>. HIDE DEF diff
<1>6. /\ left.items = stack.items /\ left.size = stack.size - 1 - diff
      /\ left.cap = stack.cap /\ left.gen = stack.gen
      /\ left.top = Frame.base /\ left.topGen = Frame.gen
      /\ IsStack(left)
  <2>1. IsStack(stack)  BY <1>2 DEF StackOK
  <2>. QED  BY <2>1 DEF IsStack, StackFields
<1>. HIDE DEF left, v
<1>7. StackOK(left)
  <2>1. /\ stack.cap \in Nat /\ stack.cap >= 2 /\ stack.size \in 0 .. stack.cap
        /\ stack.items \in [0 .. stack.cap - 1 -> TValue]
        /\ \A i \in 0 .. stack.cap - 1 : Known(stack.items[i])
        /\ stack.gen \in Nat /\ stack.topGen \in 0 .. stack.gen
    BY <1>2 DEF StackOK
  <2>2. left.size \in 0 .. left.cap
    BY <1>2, <1>4, <1>5, <1>6, <2>1
  <2>3. left.topGen \in 0 .. left.gen /\ left.top \in Int
    BY <1>2, <1>4, <1>6, <2>1
  <2>. QED  BY <1>6, <2>1, <2>2, <2>3, Zenon DEF StackOK
<1>8. stack'.size = stack.size - diff /\ stack'.top = Frame.base + 1
  <2>1. Push(left, v, FALSE).size = left.size + 1  BY <1>7, Sizes
  <2>2. LagOf(Push(left, v, FALSE)) = LagOf(left)  BY <1>7, LagKept
  <2>3. StackOK(stack')
    BY <1>1, ReturnKeeps DEF TypeOK, StackOK, IsStack
  <2>4. stack'.top \in Int /\ stack'.size \in Nat  BY <2>3 DEF StackOK
  <2>. DEFINE z == stack.size
              b == Frame.base
              y == stack'.size
              t == stack'.top
  <2>5. /\ y = left.size + 1 /\ y - t = left.size - left.top
        /\ left.size = z - 1 - diff /\ left.top = b
        /\ z \in Nat /\ b \in Nat /\ diff \in Nat /\ t \in Int /\ y \in Nat
    BY <1>2, <1>4, <1>5, <1>6, <2>1, <2>2, <2>4 DEF LagOf
  <2>. HIDE DEF z, b, y, t
  <2>6. y = z - diff /\ t = b + 1  BY <2>5
  <2>. QED  BY <2>6 DEF z, b, y, t
<1>9. Lag = stack.size - stack.top /\ Lag' = stack.size - diff - (Frame.base + 1)
  BY <1>8 DEF Lag
<1>10. stack'.size >= Frame.base + 1 /\ (Lag > 0 => Lag' > 0) /\ Lag' >= 0
  BY <1>2, <1>3, <1>5, <1>8, <1>9
<1>11. /\ top \in Nat /\ DOMAIN frames = 1 .. top /\ frames \in Seq(FrameType)
  BY <1>1, RunningFrame DEF TypeOK
<1>12. /\ Len(frames') = top - 1 /\ DOMAIN frames' = 1 .. top - 1
       /\ \A i \in 1 .. top - 1 : /\ frames'[i] = frames[i] /\ i \in 1 .. top /\ i # top
                                  /\ i # top - 1 => i + 1 \in 1 .. top - 1
       /\ top - 1 + 1 = top
  <2>. HIDE DEF top
  <2>1. Len(SubSeq(frames, 1, top - 1)) = top - 1
    BY <1>1, <1>11
  <2>2. SubSeq(frames, 1, top - 1) = [i \in 1 .. top - 1 |-> frames[i]]
    BY <1>1, <1>11
  <2>. QED  BY <1>1, <1>4, <1>11, <2>1, <2>2
<1>13. ASSUME NEW i \in 1 .. top - 1
       PROVE  /\ Place(i)' \in DOMAIN hs[frames'[i].fn]
              /\ End(i)' >= frames'[i].base + hs[frames'[i].fn][Place(i)']
              /\ frames'[i].base >= 0
  <2>1. frames'[i] = frames[i] /\ i \in 1 .. top /\ i # top  BY <1>12
  <2>2. Place(i)' = Place(i)  BY <1>4, <2>1 DEF Place
  <2>3. /\ Place(i) \in DOMAIN hs[frames[i].fn]
        /\ End(i) >= frames[i].base + hs[frames[i].fn][Place(i)]
        /\ frames[i].base >= 0
    BY <1>11, <2>1 DEF Enough
  <2>4. CASE i = top - 1
    <3>1. End(i) = Frame.base + 1  BY <1>12, <2>1, <2>4 DEF End, Frame
    <3>2. End(i)' = stack'.size  BY <1>12, <2>4 DEF End
    <3>3. frames[i].base \in Int /\ hs[frames[i].fn][Place(i)] \in Nat
      <4>0. \A k \in 1 .. top : frames[k] \in FrameType  BY <1>11
      <4>1. frames[i] \in FrameType  BY <2>1, <4>0
      <4>2. frames[i].fn \in FunctionIds /\ frames[i].base \in Int
        BY <4>1 DEF FrameType
      <4>3. IsMap(functions, frames[i].fn, hs[frames[i].fn])  BY <4>2 DEF Enough
      <4>. QED  BY <2>3, <4>2, <4>3 DEF IsMap
    <3>4. stack'.size \in Int  BY <1>2, <1>5, <1>8
    <3>5. stack'.size >= frames[i].base + hs[frames[i].fn][Place(i)]
      BY <1>2, <1>10, <2>3, <3>1, <3>3, <3>4
    <3>. QED  BY <2>1, <2>2, <2>3, <3>2, <3>5
  <2>5. CASE i # top - 1
    <3>1. frames'[i + 1] = frames[i + 1]  BY <1>12, <2>5
    <3>2. End(i)' = End(i)  BY <1>12, <2>1, <2>5, <3>1 DEF End
    <3>. QED  BY <2>1, <2>2, <2>3, <3>2
  <2>. QED  BY <2>4, <2>5
<1>14. \A f \in FunctionIds : IsMap(functions', f, hs[f])  BY <1>4 DEF Enough
<1>. QED  BY <1>10, <1>12, <1>13, <1>14 DEF Enough

(* Whatever a step of such a machine does, and whether or not it lags.     *)
LEMMA StepEnough ==
  ASSUME TypeOK, NEW hs, Enough(hs), Lag >= 0, Step
  PROVE  /\ status' = "run" => Enough(hs)'
         /\ Lag' >= 0
         /\ status' # "returned" => (Lag > 0 => Lag' > 0)
         /\ status' = "returned" => frames' = <<>> /\ OneStack'
<1>0. Lag \in Int  BY DEF Lag, TypeOK, StackOK
<1>1. CASE \/ Constant \/ BinaryOperator \/ UnaryOperator \/ PrintValue \/ PopValue
           \/ SetGlobal \/ LoadGlobal \/ SetLocal \/ LoadLocal
           \/ Jump \/ Wide \/ Halt \/ Overrun
  <2>1. Lag' = Lag  BY <1>1, PlainStepLag DEF Lag, LagOf
  <2>2. status' = "run" => Enough(hs)'  BY <1>1, PlainEnough
  <2>3. status' # "returned"
    BY <1>1 DEF Constant, ConstantBy, BinaryOperator, UnaryOperator, PrintValue, PopValue,
                SetGlobal, LoadGlobal, SetLocal, LoadLocal, Jump, Wide, Halt, Overrun,
                Fetched, Continue, Goto, Raise, Crash, CrashWith, Yield
  <2>. QED  BY <1>0, <2>1, <2>2, <2>3
<1>2. CASE Call
  <2>1. status' = "run" => Enough(hs)'  BY <1>2, CallEnough
  <2>2. LagStep /\ Op = "CALL" /\ Operand \in Nat
    BY <1>2, CallLag, FetchedOperand DEF Call, Fetched, NamedOps
  <2>3. Lag' = Lag \/ Lag' = Lag + Operand + 1  BY <2>2 DEF LagStep
  <2>4. status' # "returned"
    BY <1>2, Zenon DEF Call, Fetched, EnterFunction, CallNative, Continue, Goto, Raise,
                       Crash, CrashWith
  <2>. QED  BY <1>0, <2>1, <2>2, <2>3, <2>4
<1>3. CASE Return
  <2>1. CASE status' = "run"
    BY <1>3, <2>1, ReturnEnough
  <2>2. CASE status' # "run"
    <3>1. Crash  BY <1>3, <2>2 DEF Return, Fetched
    <3>2. Lag' = Lag /\ status' = "undefined"  BY <3>1 DEF Crash, CrashWith, Lag
    <3>. QED  BY <1>0, <3>2
  <2>. QED  BY <2>1, <2>2
<1>4. CASE ReturnFromScript
  <2>1. CASE Crash
    <3>1. Lag' = Lag /\ status' = "undefined"  BY <2>1 DEF Crash, CrashWith, Lag
    <3>. QED  BY <1>0, <3>1
  <2>2. CASE ~Crash
    <3>1. /\ stack' = [stack EXCEPT !.size = 0, !.top = 0, !.topGen = stack.gen]
          /\ frames' = <<>> /\ status' = "returned"
      BY <1>4, <2>2 DEF ReturnFromScript
    <3>2. IsStack(stack)  BY DEF TypeOK, StackOK
    <3>3. stack'.size = 0 /\ stack'.top = 0
      BY <3>1, <3>2 DEF IsStack, StackFields
    <3>. QED  BY <3>1, <3>3 DEF Lag, OneStack
  <2>. QED  BY <2>1, <2>2
<1>. QED  BY <1>1, <1>2, <1>3, <1>4 DEF Step

(* In step means, for one thing, enough.                                   *)
LEMMA InStepEnough ==
  ASSUME TypeOK, Grounded, NEW hs, InStep(hs, 0)
  PROVE  Enough(hs)
<1>1. DOMAIN frames = 0 + 1 .. Len(frames)  BY DEF TypeOK
<1>2. ASSUME NEW i \in DOMAIN frames
      PROVE  /\ Place(i) \in DOMAIN hs[frames[i].fn]
             /\ End(i) >= frames[i].base + hs[frames[i].fn][Place(i)]
             /\ frames[i].base >= 0
  <2>1. /\ Place(i) \in DOMAIN hs[frames[i].fn]
        /\ End(i) = frames[i].base + hs[frames[i].fn][Place(i)]
    BY <1>1 DEF InStep
  <2>2. frames[i].base \in 0 .. stack.size - 1 /\ stack.size \in Nat
    BY DEF Grounded, CallBinding, TypeOK, StackOK
  <2>3. frames[i] \in FrameType  BY <1>1 DEF TypeOK
  <2>4. frames[i].fn \in FunctionIds  BY <2>3 DEF FrameType
  <2>5. IsMap(functions, frames[i].fn, hs[frames[i].fn])  BY <2>4 DEF InStep
  <2>6. hs[frames[i].fn][Place(i)] \in Nat  BY <2>1, <2>5 DEF IsMap
  <2>. QED  BY <2>1, <2>2, <2>6
<1>. QED  BY <1>2 DEF Enough, InStep

-----------------------------------------------------------------------------
(* What such a machine finds.  Its values are clean, v.stack_top stands    *)
(* above as many cells as the last frame has by its map, and the slots of  *)
(* the functions' frames are pointers into the block of v.stack_top.       *)

Filled(s) == StackOK(s) /\ \A c \in 1 .. s.size - 1 : Clean(s.items[c])

Stocked(hs) ==
  /\ stack.top >= Here(hs)
  /\ Filled(stack)
  /\ GlobalsClean
  /\ \A i \in 2 .. Len(frames) : frames[i].gen = stack.topGen

(* What a step makes of it.                                                *)
Lasts(hs) ==
  /\ status' = "run" => Stocked(hs)'
  /\ status' = "undefined" => UndefinedOnlyAt'

(* Values are dropped.                                                     *)
LEMMA FilledDropped ==
  ASSUME NEW s, Filled(s), NEW n \in Nat, n <= s.size
  PROVE  /\ Filled(Drop(s, n))
         /\ Drop(s, n).size = s.size - n /\ Drop(s, n).top = s.top - n
         /\ Drop(s, n).topGen = s.topGen
<1>. DEFINE d == Drop(s, n)
<1>1. StackOK(s) /\ s.size \in Nat  BY DEF Filled, StackOK
<1>2. StackOK(d) /\ d.size = s.size - n /\ d.top = s.top - n
  BY <1>1, DroppedStack
<1>3. d.items = s.items /\ d.topGen = s.topGen
  <2>1. IsStack(s)  BY <1>1 DEF StackOK
  <2>. QED  BY <2>1 DEF IsStack, StackFields, Drop
<1>. HIDE DEF d
<1>4. \A c \in 1 .. d.size - 1 : c \in 1 .. s.size - 1
  <2>. DEFINE y == d.size
              z == s.size
  <2>1. y = z - n /\ z \in Nat  BY <1>1, <1>2
  <2>. HIDE DEF y, z
  <2>2. \A c \in 1 .. y - 1 : c \in 1 .. z - 1  BY <2>1
  <2>. QED  BY <2>2 DEF y, z
<1>. QED  BY <1>2, <1>3, <1>4 DEF Filled, d

(* A clean value is pushed.                                                *)
LEMMA FilledPushed ==
  ASSUME NEW s, Filled(s), NEW v, Known(v), Clean(v), NEW moved \in BOOLEAN
  PROVE  /\ Filled(Push(s, v, moved))
         /\ Push(s, v, moved).size = s.size + 1 /\ Push(s, v, moved).top = s.top + 1
         /\ Push(s, v, moved).topGen = s.topGen
<1>. DEFINE r == [s EXCEPT !.top = @ + 1]
            g == EnsureCapacity(r, 1, Junk, moved)
            p == Push(s, v, moved)
<1>1. StackOK(s) /\ s.size \in Nat  BY DEF Filled, StackOK
<1>2. StackOK(p) /\ p.size = s.size + 1 /\ p.top = s.top + 1
  BY <1>1, PushedStack
<1>3. p.items[s.size] = v /\ \A c \in 0 .. s.size - 1 : p.items[c] = s.items[c]
  BY <1>1, PushedCells
<1>4. p.topGen = s.topGen
  <2>1. StackOK(r) /\ r.topGen = s.topGen
    <3>1. IsStack(s)  BY <1>1 DEF StackOK
    <3>2. r.topGen = s.topGen  BY <3>1 DEF IsStack, StackFields
    <3>. QED  BY <1>1, <3>2, RaisedStack
  <2>. HIDE DEF r
  <2>2. StackOK(g) /\ g.topGen = r.topGen
    <3>1. StackOK(g)  BY <2>1, GrownStack
    <3>2. IsStack(r)  BY <2>1 DEF StackOK
    <3>3. g.topGen = r.topGen
      BY <3>2 DEF EnsureCapacity, Realloc, IsStack, StackFields
    <3>. QED  BY <3>1, <3>3
  <2>3. p = [g EXCEPT !.items[g.size] = v, !.size = @ + 1]
    BY DEF Push, Stored, r
  <2>. HIDE DEF g
  <2>4. IsStack(g)  BY <2>2 DEF StackOK
  <2>5. p.topGen = g.topGen  BY <2>3, <2>4 DEF IsStack, StackFields
  <2>. QED  BY <2>1, <2>2, <2>5
<1>. HIDE DEF p
<1>5. \A c \in 1 .. p.size - 1 : c = s.size \/ (c \in 1 .. s.size - 1 /\ c \in 0 .. s.size - 1)
  <2>. DEFINE y == p.size
              z == s.size
  <2>1. y = z + 1 /\ z \in Nat  BY <1>1, <1>2
  <2>. HIDE DEF y, z
  <2>2. \A c \in 1 .. y - 1 : c = z \/ (c \in 1 .. z - 1 /\ c \in 0 .. z - 1)  BY <2>1
  <2>. QED  BY <2>2 DEF y, z
<1>6. \A c \in 1 .. p.size - 1 : Clean(p.items[c])
  BY <1>3, <1>5 DEF Filled
<1>. QED  BY <1>2, <1>4, <1>6 DEF Filled, p

(* The last value, above the script's.                                     *)
LEMMA FilledLast ==
  ASSUME NEW s, Filled(s), s.size >= 2
  PROVE  Clean(Last(s)) /\ Known(Last(s)) /\ Last(s) \in TValue
<1>1. StackOK(s) /\ s.size \in Nat  BY DEF Filled, StackOK
<1>2. s.size - 1 \in 1 .. s.size - 1 /\ s.size >= 1  BY <1>1
<1>. QED  BY <1>1, <1>2, LastKnown DEF Filled, Last

(* Where such a machine stands, and what its map says of the instruction.  *)
LEMMA StockedHere ==
  ASSUME TypeOK, NEW hs, Enough(hs), Lag >= 0, Stocked(hs), NEW op, Fetched(op)
  PROVE  /\ status = "run" /\ InCode(1) /\ Op = op /\ Following \in Int
         /\ op \in NamedOps => Operand \in Nat
         /\ Here(hs) \in Nat \ {0} /\ Frame.base \in Nat
         /\ stack.size \in Nat /\ stack.top \in Int
         /\ stack.size >= Frame.base + Here(hs) /\ stack.size >= Here(hs)
         /\ stack.top >= Here(hs) /\ stack.top <= stack.size
         /\ Filled(stack) /\ StackOK(stack)
         /\ FALSE \in BOOLEAN /\ \A moved \in Moves : moved \in BOOLEAN
<1>1. status = "run" /\ InCode(1) /\ Op = op  BY DEF Fetched
<1>2. Following \in Int /\ (op \in NamedOps => Operand \in Nat)  BY FetchedOperand
<1>3. /\ Here(hs) \in Nat \ {0} /\ Frame.base \in Nat
      /\ stack.size \in Nat /\ stack.size >= Frame.base + Here(hs) /\ StackOK(stack)
  BY <1>1, EnoughHere
<1>4. stack.size >= Here(hs)  BY <1>3
<1>5. stack.top \in Int /\ stack.top <= stack.size  BY <1>3 DEF StackOK, Lag
<1>. QED  BY <1>1, <1>2, <1>3, <1>4, <1>5, VmAssumption DEF Stocked

LEMMA StockedFlows ==
  ASSUME TypeOK, NEW hs, Enough(hs), NEW op, Fetched(op)
  PROVE  LET code == functions[Frame.fn].code
             p    == <<Frame.ip, wide>>
         IN  /\ Flows(functions, Frame.fn, hs[Frame.fn], p)
             /\ OpAt(code, p[1]) = op
             /\ NextAt(code, p) = Following
             /\ ArgAt(code, p) = Operand
             /\ IndexAt(code, p) = IndexOf(op)
             /\ DistAt(code, p) = ShortAt(Code, Frame.ip + 1)
             /\ hs[Frame.fn][p] = Here(hs)
<1>1. status = "run"  BY DEF Fetched
<1>2. IsMap(functions, Frame.fn, hs[Frame.fn]) /\ <<Frame.ip, wide>> \in DOMAIN hs[Frame.fn]
  BY <1>1, EnoughHere
<1>. QED  BY <1>2, PlaceFlows, Zenon

(* The last frame goes on elsewhere.                                       *)
LEMMA StockedMoved ==
  ASSUME TypeOK, status = "run", NEW hs, Stocked(hs), NEW ip \in Int,
         frames' = Advanced(ip), <<ip, wide'>> \in DOMAIN hs[Frame.fn],
         Filled(stack'), stack'.topGen = stack.topGen, GlobalsClean',
         stack'.top >= hs[Frame.fn][<<ip, wide'>>]
  PROVE  Stocked(hs)'
<1>1. SameFrames /\ frames'[Len(frames')].ip = ip  BY AdvancedSame
<1>2. Len(frames) \in Nat \ {0} /\ DOMAIN frames = 1 .. Len(frames)  BY RunningFrame
<1>3. /\ Len(frames') = Len(frames)
      /\ \A i \in 1 .. Len(frames) :
           /\ frames'[i].gen = frames[i].gen /\ frames'[i].fn = frames[i].fn
  BY <1>1, <1>2 DEF SameFrames
<1>4. Here(hs)' = hs[Frame.fn][<<ip, wide'>>]
  <2>1. Len(frames) \in 1 .. Len(frames)  BY <1>2
  <2>2. frames'[Len(frames')].fn = Frame.fn  BY <1>3, <2>1 DEF Frame
  <2>. QED  BY <1>1, <2>2 DEF Here, Frame
<1>5. \A i \in 2 .. Len(frames') : frames'[i].gen = stack'.topGen
  <2>1. \A i \in 2 .. Len(frames) : i \in 1 .. Len(frames)  BY <1>2
  <2>. QED  BY <1>3, <2>1 DEF Stocked
<1>6. Filled(stack)'  BY DEF Filled, StackOK, IsStack
<1>. QED  BY <1>4, <1>5, <1>6 DEF Stocked

(* The loop goes on.                                                       *)
LEMMA StockedGoto ==
  ASSUME TypeOK, status = "run", NEW hs, Stocked(hs), NEW ip \in Int, NEW s, Goto(ip, s),
         Filled(s), s.topGen = stack.topGen,
         NEW n, GoesTo(hs[Frame.fn], ip, n), s.top >= n
  PROVE  Lasts(hs)
<1>1. /\ stack' = s /\ frames' = Advanced(ip) /\ wide' = FALSE
      /\ functions' = functions /\ globals' = globals /\ status' = "run"
  BY DEF Goto
<1>2. GlobalsClean'  BY <1>1 DEF Stocked, GlobalsClean
<1>3. <<ip, wide'>> \in DOMAIN hs[Frame.fn] /\ hs[Frame.fn][<<ip, wide'>>] = n
  BY <1>1 DEF GoesTo
<1>4. Stocked(hs)'  BY <1>1, <1>2, <1>3, StockedMoved
<1>. QED  BY <1>1, <1>4 DEF Lasts

(* errorf() is raised; the behaviour is undefined, for a reason.           *)
LEMMA RaiseLasts ==
  ASSUME NEW hs, NEW s, Raise(s)
  PROVE  Lasts(hs)
BY DEF Raise, Lasts

LEMMA UncheckedKept ==
  ASSUME stack' = stack, frames' = frames, wide' = wide, functions' = functions
  PROVE  Unchecked' = Unchecked
<1>1. Frame' = Frame /\ Code' = Code /\ Constants' = Constants
  BY DEF Frame, Code, Constants
<1>2. Op' = Op /\ InCode(1)' = InCode(1) /\ Operand' = Operand
  BY <1>1, Zenon DEF Op, InCode, Operand
<1>3. StalePointer' = StalePointer  BY <1>1, <1>2, Zenon DEF StalePointer
<1>4. ForeignConstant' = ForeignConstant
  BY <1>1, <1>2, Zenon DEF ForeignConstant, IndexOf, IsName, ConstantAt
<1>5. NativePrinted' = NativePrinted /\ VoidCompared' = VoidCompared
  BY <1>2, Zenon DEF NativePrinted, VoidCompared
<1>6. Overflows' = Overflows  BY <1>2, Zenon DEF Overflows
<1>. QED  BY <1>1, <1>2, <1>3, <1>4, <1>5, <1>6, Zenon DEF Unchecked

LEMMA CrashLasts ==
  ASSUME NEW hs, Crash, Unchecked
  PROVE  Lasts(hs)
<1>1. /\ stack' = stack /\ frames' = frames /\ wide' = wide
      /\ functions' = functions /\ status' = "undefined"
  BY DEF Crash, CrashWith
<1>2. Unchecked' = Unchecked
  BY <1>1, UncheckedKept
<1>. QED  BY <1>1, <1>2 DEF Lasts, UndefinedOnlyAt

(* Constants.                                                              *)
LEMMA ConstantLasts ==
  ASSUME TypeOK, NEW hs, Enough(hs), Lag >= 0, Stocked(hs), Constant
  PROVE  Lasts(hs)
<1>1. PICK op \in {"CONSTANT", "CONSTANT_LONG"} : ConstantBy(op)  BY DEF Constant
<1>. DEFINE v == ConstantAt(IndexOf(op))
<1>2. Fetched(op)  BY <1>1 DEF ConstantBy
<1>3. /\ IsConstant(functions, IndexOf(op)) /\ Loadable(ConstantOf(functions, IndexOf(op)))
      /\ GoesTo(hs[Frame.fn], Following, Here(hs) + 1)
  BY <1>2, StockedFlows DEF Flows
<1>4. v = ConstantOf(functions, IndexOf(op))
  BY <1>3 DEF IsConstant, ConstantOf, ConstantAt, Constants
<1>. HIDE DEF v
<1>5. v # Undefined /\ Clean(v)
  BY <1>3, <1>4 DEF Loadable, Clean, Kinds, Undefined
<1>6. Known(v)  BY <1>2, <1>5, FetchedOperand, ConstantKnown DEF v
<1>7. PICK moved \in Moves : Goto(Following, Push(stack, v, moved))
  BY <1>1, <1>5 DEF ConstantBy, Continue, v
<1>8. /\ status = "run" /\ Following \in Int /\ Here(hs) \in Nat
      /\ stack.top \in Int /\ stack.top >= Here(hs) /\ Filled(stack) /\ moved \in BOOLEAN
  BY <1>2, StockedHere
<1>9. /\ Filled(Push(stack, v, moved)) /\ Push(stack, v, moved).top = stack.top + 1
      /\ Push(stack, v, moved).topGen = stack.topGen
  BY <1>5, <1>6, <1>8, FilledPushed
<1>10. Push(stack, v, moved).top >= Here(hs) + 1  BY <1>8, <1>9
<1>. QED  BY <1>3, <1>7, <1>8, <1>9, <1>10, StockedGoto

(* An operator's end.                                                      *)
LEMMA YieldLasts ==
  ASSUME TypeOK, status = "run", NEW hs, Stocked(hs), Following \in Int,
         NEW n \in Nat, n <= stack.size, Here(hs) \in Int, stack.top \in Int,
         NEW r, Yield(r, Drop(stack, n)),
         r # Undefined /\ r # Error => Known(r) /\ Clean(r),
         r = Undefined => Unchecked,
         GoesTo(hs[Frame.fn], Following, Here(hs) - n + 1)
  PROVE  Lasts(hs)
<1>. DEFINE d == Drop(stack, n)
            m == Here(hs)
<1>1. Filled(d) /\ d.top = stack.top - n /\ d.topGen = stack.topGen
  BY FilledDropped DEF Stocked
<1>. HIDE DEF d
<1>2. CASE r = Undefined
  <2>1. Crash  BY <1>2 DEF Yield, Undefined, Error
  <2>. QED  BY <1>2, <2>1, CrashLasts
<1>3. CASE r = Error
  <2>1. Raise(d)  BY <1>3 DEF Yield, Undefined, Error, d
  <2>. QED  BY <2>1, RaiseLasts
<1>4. CASE r # Undefined /\ r # Error
  <2>1. Goto(Following, Push(d, r, FALSE))  BY <1>4 DEF Yield, Continue, d
  <2>2. /\ Filled(Push(d, r, FALSE)) /\ Push(d, r, FALSE).top = d.top + 1
        /\ Push(d, r, FALSE).topGen = d.topGen
    BY <1>1, <1>4, FilledPushed
  <2>3. Push(d, r, FALSE).top >= m - n + 1
    <3>. DEFINE p == Push(d, r, FALSE).top
                t == stack.top
    <3>1. m \in Int /\ t \in Int /\ t >= m /\ p = d.top + 1 /\ d.top = t - n
      BY <1>1, <2>2 DEF Stocked
    <3>. HIDE DEF m, p, t
    <3>2. p >= m - n + 1  BY <3>1
    <3>. QED  BY <3>2 DEF p
  <2>. QED  BY <1>1, <2>1, <2>2, <2>3, StockedGoto
<1>. QED  BY <1>2, <1>3, <1>4

(* Binary operators.                                                       *)
LEMMA BinaryLasts ==
  ASSUME TypeOK, NEW hs, Enough(hs), Lag >= 0, Stocked(hs), BinaryOperator
  PROVE  Lasts(hs)
<1>. DEFINE b == Last(stack)
            a == Last(Pop(stack))
<1>1. PICK op \in BinaryOps :
        /\ Fetched(op)
        /\ IF stack.size < 2 THEN Crash
           ELSE \E r \in Binary(op, a, b) : Yield(r, Drop(stack, 2))
  BY DEF BinaryOperator
<1>2. Here(hs) >= 3 /\ GoesTo(hs[Frame.fn], Following, Here(hs) - 1)
  BY <1>1, StockedFlows DEF Flows
<1>3. /\ status = "run" /\ Following \in Int /\ Here(hs) \in Nat /\ InCode(1) /\ Op = op
      /\ stack.size \in Nat /\ stack.size >= Here(hs) /\ stack.top \in Int /\ Filled(stack)
  BY <1>1, StockedHere
<1>4. stack.size >= 2 /\ ~(stack.size < 2) /\ 1 \in Nat /\ 1 <= stack.size /\ 2 <= stack.size
      /\ 2 \in Nat /\ stack.size - 1 >= 2 /\ Here(hs) - 2 + 1 = Here(hs) - 1
  BY <1>2, <1>3
<1>5. Filled(Pop(stack)) /\ Pop(stack).size >= 2
  BY <1>3, <1>4, FilledDropped DEF Pop
<1>6. Clean(a) /\ Known(a) /\ Clean(b) /\ Known(b)  BY <1>3, <1>4, <1>5, FilledLast
<1>. HIDE DEF a, b
<1>7. PICK r \in Binary(op, a, b) : Yield(r, Drop(stack, 2))  BY <1>1, <1>4
<1>8. /\ r = Undefined \/ r = Error \/ Clean(r)
      /\ r = Undefined => IsInt(a) /\ IsInt(b) /\ Exceeds(op, a.val, b.val)
      /\ r # Undefined /\ r # Error => Known(r)
  BY <1>6, <1>7, BinaryResult
<1>9. r = Undefined => Unchecked
  <2>. SUFFICES ASSUME IsInt(a), IsInt(b), Exceeds(op, a.val, b.val)  PROVE Unchecked
    BY <1>8
  <2>1. stack.size >= 1  BY <1>3, <1>4
  <2>2. Overflows  BY <1>3, <1>4, <2>1 DEF Overflows, Exceeds, a, b
  <2>. QED  BY <1>3, <2>2 DEF Unchecked
<1>10. GoesTo(hs[Frame.fn], Following, Here(hs) - 2 + 1)  BY <1>2, <1>4
<1>. QED  BY <1>3, <1>4, <1>7, <1>8, <1>9, <1>10, YieldLasts

(* Unary operators.                                                        *)
LEMMA UnaryLasts ==
  ASSUME TypeOK, NEW hs, Enough(hs), Lag >= 0, Stocked(hs), UnaryOperator
  PROVE  Lasts(hs)
<1>. DEFINE a == Last(stack)
<1>1. PICK op \in {"NEG", "NOT"} :
        /\ Fetched(op)
        /\ IF stack.size < 1 THEN Crash
           ELSE \E r \in Unary(op, a) : Yield(r, Pop(stack))
  BY DEF UnaryOperator
<1>2. Here(hs) >= 2 /\ GoesTo(hs[Frame.fn], Following, Here(hs))
  BY <1>1, StockedFlows DEF Flows
<1>3. /\ status = "run" /\ Following \in Int /\ Here(hs) \in Nat /\ InCode(1) /\ Op = op
      /\ stack.size \in Nat /\ stack.size >= Here(hs) /\ stack.top \in Int /\ Filled(stack)
  BY <1>1, StockedHere
<1>4. stack.size >= 2 /\ stack.size >= 1 /\ ~(stack.size < 1) /\ 1 \in Nat /\ 1 <= stack.size
      /\ Here(hs) - 1 + 1 = Here(hs)
  BY <1>2, <1>3
<1>5. Clean(a) /\ Known(a)  BY <1>3, <1>4, FilledLast
<1>. HIDE DEF a
<1>6. PICK r \in Unary(op, a) : Yield(r, Drop(stack, 1))  BY <1>1, <1>4 DEF Pop
<1>7. /\ r = Undefined \/ r = Error \/ Clean(r)
      /\ r = Undefined => op = "NEG" /\ IsInt(a) /\ -a.val \notin IntMin .. IntMax
      /\ r # Undefined /\ r # Error => Known(r)
  BY <1>5, <1>6, UnaryResult
<1>8. r = Undefined => Unchecked
  <2>. SUFFICES ASSUME op = "NEG", IsInt(a), -a.val \notin IntMin .. IntMax
                PROVE  Unchecked
    BY <1>7
  <2>1. Overflows  BY <1>3, <1>4 DEF Overflows, a
  <2>. QED  BY <1>3, <2>1 DEF Unchecked
<1>9. GoesTo(hs[Frame.fn], Following, Here(hs) - 1 + 1)  BY <1>2, <1>4
<1>. QED  BY <1>3, <1>4, <1>6, <1>7, <1>8, <1>9, YieldLasts

(* What an instruction leaves that takes the last value.                   *)
LEMMA StockedPop ==
  ASSUME TypeOK, NEW hs, Enough(hs), Lag >= 0, Stocked(hs), NEW op, Fetched(op),
         Here(hs) >= 2
  PROVE  /\ ~(stack.size < 1) /\ Clean(Last(stack)) /\ Known(Last(stack))
         /\ Filled(Pop(stack)) /\ Pop(stack).topGen = stack.topGen
         /\ Pop(stack).top = stack.top - 1 /\ Pop(stack).top >= Here(hs) - 1
<1>1. /\ Here(hs) \in Nat /\ stack.size \in Nat /\ stack.size >= Here(hs)
      /\ stack.top \in Int /\ stack.top >= Here(hs) /\ Filled(stack)
  BY StockedHere
<1>2. ~(stack.size < 1) /\ stack.size >= 2 /\ 1 \in Nat /\ 1 <= stack.size  BY <1>1
<1>3. /\ Filled(Pop(stack)) /\ Pop(stack).top = stack.top - 1
      /\ Pop(stack).topGen = stack.topGen
  BY <1>1, <1>2, FilledDropped DEF Pop
<1>4. Pop(stack).top >= Here(hs) - 1  BY <1>1, <1>3
<1>. QED  BY <1>1, <1>2, <1>3, <1>4, FilledLast

(* PRINT, POP.                                                             *)
LEMMA PoppingLasts ==
  ASSUME TypeOK, NEW hs, Enough(hs), Lag >= 0, Stocked(hs), PrintValue \/ PopValue
  PROVE  Lasts(hs)
<1>1. PICK op \in {"PRINT", "POP"} :
        /\ Fetched(op)
        /\ \/ op = "PRINT" /\ PrintValue
           \/ op = "POP" /\ PopValue
  BY DEF PrintValue, PopValue
<1>2. Here(hs) >= 2 /\ GoesTo(hs[Frame.fn], Following, Here(hs) - 1)
  BY <1>1, StockedFlows DEF Flows
<1>3. status = "run" /\ Following \in Int /\ InCode(1) /\ Op = op  BY <1>1, StockedHere
<1>4. /\ ~(stack.size < 1) /\ Clean(Last(stack))
      /\ Filled(Pop(stack)) /\ Pop(stack).topGen = stack.topGen
      /\ Pop(stack).top >= Here(hs) - 1
  BY <1>1, <1>2, StockedPop
<1>5. CASE Goto(Following, Pop(stack))
  BY <1>2, <1>3, <1>4, <1>5, StockedGoto
<1>6. CASE op = "PRINT" /\ ~Printable(Last(stack)) /\ Crash
  <2>1. NativePrinted
    BY <1>3, <1>4, <1>6 DEF NativePrinted, Printable, Clean
  <2>. QED  BY <1>3, <1>6, <2>1, CrashLasts DEF Unchecked
<1>. QED  BY <1>1, <1>4, <1>5, <1>6 DEF PrintValue, PopValue, Continue

(* SETGLOBAL.                                                              *)
LEMMA SetGlobalLasts ==
  ASSUME TypeOK, NEW hs, Enough(hs), Lag >= 0, Stocked(hs), SetGlobal
  PROVE  Lasts(hs)
<1>. DEFINE v == Last(stack)
            s == Push(Pop(stack), v, FALSE)
<1>1. Fetched("SETGLOBAL")  BY DEF SetGlobal
<1>2. /\ Here(hs) >= 2 /\ GoesTo(hs[Frame.fn], Following, Here(hs))
      /\ Names(functions, Operand)
  BY <1>1, StockedFlows DEF Flows
<1>3. status = "run" /\ Following \in Int /\ Here(hs) \in Nat /\ stack.top \in Int
      /\ stack.top >= Here(hs)
  BY <1>1, StockedHere
<1>4. /\ ~(stack.size < 1) /\ Clean(v) /\ Known(v)
      /\ Filled(Pop(stack)) /\ Pop(stack).topGen = stack.topGen
      /\ Pop(stack).top = stack.top - 1
  BY <1>1, <1>2, StockedPop
<1>5. IsName(Operand)
  BY <1>2 DEF Names, IsConstant, ConstantOf, IsName, ConstantAt, Constants
<1>6. /\ globals' = [globals EXCEPT ![NameAt(Operand)] = v]
      /\ stack' = s /\ frames' = Advanced(Following) /\ wide' = FALSE
      /\ status' = "run"
  BY <1>3, <1>4, <1>5 DEF SetGlobal
<1>. HIDE DEF v
<1>7. Filled(s) /\ s.top = stack.top /\ s.topGen = stack.topGen
  <2>1. Filled(s) /\ s.top = Pop(stack).top + 1 /\ s.topGen = Pop(stack).topGen
    BY <1>4, FilledPushed
  <2>. HIDE DEF s
  <2>2. s.top = stack.top  BY <1>3, <1>4, <2>1
  <2>. QED  BY <1>4, <2>1, <2>2
<1>. HIDE DEF s
<1>8. GlobalsClean'
  <2>. SUFFICES ASSUME NEW n \in Readable PROVE globals'[n] = Absent \/ Clean(globals'[n])
    BY DEF GlobalsClean
  <2>1. n \in DOMAIN globals /\ (globals[n] = Absent \/ Clean(globals[n]))
    BY ReadableAssumption DEF TypeOK, Stocked, GlobalsClean
  <2>2. globals'[n] = v \/ globals'[n] = globals[n]  BY <1>6, <2>1
  <2>. QED  BY <1>4, <2>1, <2>2
<1>9. /\ <<Following, wide'>> \in DOMAIN hs[Frame.fn]
      /\ stack'.top >= hs[Frame.fn][<<Following, wide'>>]
  BY <1>2, <1>3, <1>6, <1>7 DEF GoesTo
<1>10. Stocked(hs)'  BY <1>3, <1>6, <1>7, <1>8, <1>9, StockedMoved
<1>. QED  BY <1>6, <1>10 DEF Lasts

(* LOADGLOBAL.                                                             *)
LEMMA LoadGlobalLasts ==
  ASSUME TypeOK, NEW hs, Enough(hs), Lag >= 0, Stocked(hs), LoadGlobal
  PROVE  Lasts(hs)
<1>. DEFINE v == globals[NameAt(Operand)]
<1>1. Fetched("LOADGLOBAL")  BY DEF LoadGlobal
<1>2. /\ GoesTo(hs[Frame.fn], Following, Here(hs) + 1)
      /\ Names(functions, Operand) /\ ConstantOf(functions, Operand).val \in Readable
  BY <1>1, StockedFlows DEF Flows
<1>3. /\ status = "run" /\ Following \in Int /\ Here(hs) \in Nat /\ stack.top \in Int
      /\ stack.top >= Here(hs) /\ Filled(stack) /\ \A moved \in Moves : moved \in BOOLEAN
  BY <1>1, StockedHere
<1>4. IsName(Operand) /\ NameAt(Operand) \in Readable
  BY <1>2 DEF Names, IsConstant, ConstantOf, IsName, NameAt, ConstantAt, Constants
<1>5. /\ v = Absent \/ Clean(v)
      /\ v = Absent \/ Known(v)
  BY <1>4, ReadableAssumption DEF Stocked, GlobalsClean, TypeOK
<1>. HIDE DEF v
<1>6. CASE v = Absent
  <2>1. Raise(stack)  BY <1>4, <1>6 DEF LoadGlobal, v
  <2>. QED  BY <2>1, RaiseLasts
<1>7. CASE v # Absent
  <2>1. PICK moved \in Moves : Goto(Following, Push(stack, v, moved))
    BY <1>4, <1>7 DEF LoadGlobal, Continue, v
  <2>2. /\ Filled(Push(stack, v, moved)) /\ Push(stack, v, moved).top = stack.top + 1
        /\ Push(stack, v, moved).topGen = stack.topGen
    BY <1>3, <1>5, <1>7, FilledPushed
  <2>3. Push(stack, v, moved).top >= Here(hs) + 1  BY <1>3, <2>2
  <2>. QED  BY <1>2, <1>3, <2>1, <2>2, <2>3, StockedGoto
<1>. QED  BY <1>6, <1>7

(* SETLOCAL.                                                               *)
LEMMA SetLocalLasts ==
  ASSUME TypeOK, NEW hs, Enough(hs), Lag >= 0, Stocked(hs), SetLocal
  PROVE  Lasts(hs)
<1>. DEFINE at == Frame.base + Operand
            v == Last(stack)
            w == [stack EXCEPT !.items[at] = v]
<1>1. Fetched("SETLOCAL")  BY DEF SetLocal
<1>2. Operand \in 1 .. Here(hs) - 1 /\ GoesTo(hs[Frame.fn], Following, Here(hs))
  BY <1>1, StockedFlows DEF Flows
<1>3. /\ status = "run" /\ Following \in Int /\ Here(hs) \in Nat /\ InCode(1) /\ Op = "SETLOCAL"
      /\ Frame.base \in Nat /\ stack.size \in Nat /\ stack.size >= Frame.base + Here(hs)
      /\ stack.top >= Here(hs) /\ stack.size >= Here(hs) /\ Filled(stack) /\ StackOK(stack)
  BY <1>1, StockedHere
<1>4. stack.size >= 2 /\ ~(stack.size < 1) /\ at \in 1 .. stack.size - 1  BY <1>2, <1>3
<1>5. Clean(v) /\ Known(v)  BY <1>3, <1>4, FilledLast
<1>. HIDE DEF at, v
<1>6. at \in DOMAIN stack.items  BY <1>3, <1>4 DEF StackOK
<1>7. CASE ~Points(stack, at, Frame.gen)
  <2>1. Crash  BY <1>7, Zenon DEF SetLocal, at
  <2>2. StalePointer  BY <1>3, <1>6, <1>7 DEF StalePointer, Points
  <2>. QED  BY <1>3, <2>1, <2>2, CrashLasts DEF Unchecked
<1>8. CASE Points(stack, at, Frame.gen)
  <2>1. Goto(Following, w)  BY <1>4, <1>8, Zenon DEF SetLocal, Continue, at, v
  <2>2. /\ w.items = [stack.items EXCEPT ![at] = v] /\ w.size = stack.size
        /\ w.top = stack.top /\ w.topGen = stack.topGen
    <3>1. IsStack(stack)  BY <1>3 DEF StackOK
    <3>. QED  BY <3>1 DEF IsStack, StackFields
  <2>3. StackOK(w)  BY <1>3, <1>5, <1>6, WrittenStack
  <2>. HIDE DEF w
  <2>4. \A c \in 1 .. w.size - 1 : Clean(w.items[c])
    <3>1. \A c \in 1 .. stack.size - 1 : c \in DOMAIN stack.items  BY <1>3 DEF StackOK
    <3>2. \A c \in DOMAIN stack.items : w.items[c] = v \/ w.items[c] = stack.items[c]
      BY <2>2
    <3>. QED  BY <1>3, <1>5, <2>2, <3>1, <3>2 DEF Filled
  <2>5. Filled(w)  BY <2>3, <2>4 DEF Filled
  <2>. QED  BY <1>2, <1>3, <2>1, <2>2, <2>5, StockedGoto
<1>. QED  BY <1>7, <1>8

(* LOADLOCAL.                                                              *)
LEMMA LoadLocalLasts ==
  ASSUME TypeOK, NEW hs, Enough(hs), Lag >= 0, Stocked(hs), LoadLocal
  PROVE  Lasts(hs)
<1>. DEFINE at == Frame.base + Operand
<1>1. Fetched("LOADLOCAL")  BY DEF LoadLocal
<1>2. Operand \in 1 .. Here(hs) - 1 /\ GoesTo(hs[Frame.fn], Following, Here(hs) + 1)
  BY <1>1, StockedFlows DEF Flows
<1>3. /\ status = "run" /\ Following \in Int /\ Here(hs) \in Nat /\ InCode(1) /\ Op = "LOADLOCAL"
      /\ Frame.base \in Nat /\ stack.size \in Nat /\ stack.size >= Frame.base + Here(hs)
      /\ stack.top \in Int /\ stack.top >= Here(hs) /\ Filled(stack) /\ StackOK(stack)
      /\ \A moved \in Moves : moved \in BOOLEAN
  BY <1>1, StockedHere
<1>4. at \in 1 .. stack.size - 1 /\ at \in 0 .. stack.size - 1  BY <1>2, <1>3
<1>. HIDE DEF at
<1>5. PICK moved \in Moves :
        LET grown == EnsureCapacity(stack, 1, Junk, moved)
        IN  IF ~Points(grown, at, Frame.gen) \/ Cell(grown, at) = Junk
            THEN CrashWith(grown)
            ELSE Continue(Push(stack, Cell(grown, at), moved))
  BY DEF LoadLocal, at
<1>. DEFINE grown == EnsureCapacity(stack, 1, Junk, moved)
            v == Cell(grown, at)
<1>6. StackOK(grown) /\ grown.size = stack.size  BY <1>3, GrownStack
<1>7. grown.items[at] = stack.items[at]  BY <1>3, <1>4, GrownCells
<1>8. IF ~Points(grown, at, Frame.gen) \/ v = Junk
      THEN CrashWith(grown)
      ELSE Goto(Following, Push(stack, v, moved))
  BY <1>5 DEF Continue
<1>. HIDE DEF grown
<1>9. at \in DOMAIN grown.items /\ Clean(v)
  <2>1. at \in DOMAIN grown.items  BY <1>3, <1>4, <1>6 DEF StackOK
  <2>. QED  BY <1>3, <1>4, <1>7, <2>1 DEF Filled, Cell
<1>10. Known(v)  BY <1>6, <1>9 DEF StackOK, Cell
<1>. HIDE DEF v
<1>11. v # Junk  BY <1>9 DEF Clean, Kinds, Junk
<1>12. CASE ~Points(grown, at, Frame.gen)
  <2>1. /\ stack' = grown /\ frames' = frames /\ functions' = functions
        /\ status' = "undefined"
    BY <1>8, <1>12 DEF CrashWith
  <2>2. Frame.gen # grown.gen  BY <1>9, <1>12 DEF Points
  <2>3. Frame' = Frame /\ InCode(1)' /\ Op' = "LOADLOCAL"
    BY <1>3, <2>1, Zenon DEF Frame, InCode, Op, Code
  <2>4. StalePointer'  BY <2>1, <2>2, <2>3 DEF StalePointer
  <2>. QED  BY <2>1, <2>3, <2>4 DEF Lasts, UndefinedOnlyAt, Unchecked
<1>13. CASE Points(grown, at, Frame.gen)
  <2>1. Goto(Following, Push(stack, v, moved))  BY <1>8, <1>11, <1>13
  <2>2. /\ Filled(Push(stack, v, moved)) /\ Push(stack, v, moved).top = stack.top + 1
        /\ Push(stack, v, moved).topGen = stack.topGen
    BY <1>3, <1>9, <1>10, FilledPushed
  <2>3. Push(stack, v, moved).top >= Here(hs) + 1  BY <1>3, <2>2
  <2>. QED  BY <1>2, <1>3, <2>1, <2>2, <2>3, StockedGoto
<1>. QED  BY <1>12, <1>13

(* Jumps.                                                                  *)
LEMMA JumpLasts ==
  ASSUME TypeOK, NEW hs, Enough(hs), Lag >= 0, Stocked(hs), Jump
  PROVE  Lasts(hs)
<1>. DEFINE d == ShortAt(Code, Frame.ip + 1)
            h == hs[Frame.fn]
            F == Following
<1>. HIDE DEF d, h, F
<1>0. ASSUME NEW op \in JumpOps, Fetched(op)
      PROVE  /\ status = "run" /\ F \in Int /\ F + d \in Int /\ F - d \in Int
             /\ Filled(stack) /\ stack.top >= Here(hs)
  <2>1. F \in Int /\ d \in Nat  BY <1>0, FetchedOperand DEF d, F
  <2>2. F + d \in Int /\ F - d \in Int  BY <2>1
  <2>. QED  BY <1>0, <2>1, <2>2, StockedHere
<1>1. CASE Fetched("JMP") /\ Goto(F + d, stack)
  <2>1. GoesTo(h, F + d, Here(hs))  BY <1>1, StockedFlows DEF Flows, d, h, F
  <2>. QED  BY <1>0, <1>1, <2>1, StockedGoto DEF h, JumpOps
<1>2. CASE Fetched("NJMP") /\ Goto(F - d, stack)
  <2>1. GoesTo(h, F - d, Here(hs))  BY <1>2, StockedFlows DEF Flows, d, h, F
  <2>. QED  BY <1>0, <1>2, <2>1, StockedGoto DEF h, JumpOps
<1>3. CASE /\ Fetched("JMPF")
           /\ IF stack.size < 1 THEN Crash
              ELSE Goto(IF IsTruth(Last(stack)) THEN F ELSE F + d, Pop(stack))
  <2>1. Here(hs) >= 2 /\ GoesTo(h, F, Here(hs) - 1) /\ GoesTo(h, F + d, Here(hs) - 1)
    BY <1>3, StockedFlows DEF Flows, d, h, F
  <2>2. /\ ~(stack.size < 1) /\ Filled(Pop(stack)) /\ Pop(stack).topGen = stack.topGen
        /\ Pop(stack).top >= Here(hs) - 1
    BY <1>3, <2>1, StockedPop
  <2>3. status = "run" /\ F \in Int /\ F + d \in Int  BY <1>0, <1>3 DEF JumpOps
  <2>4. Goto(F, Pop(stack)) \/ Goto(F + d, Pop(stack))  BY <1>3, <2>2
  <2>. QED  BY <2>1, <2>2, <2>3, <2>4, StockedGoto DEF h
<1>. QED  BY <1>1, <1>2, <1>3 DEF Jump, d, F

(* WIDE, HALT, and code that ends without a return.                        *)
LEMMA WideLasts ==
  ASSUME TypeOK, NEW hs, Enough(hs), Lag >= 0, Stocked(hs), Wide
  PROVE  Lasts(hs)
<1>1. Fetched("WIDE")  BY DEF Wide
<1>2. <<Following, TRUE>> \in DOMAIN hs[Frame.fn] /\ hs[Frame.fn][<<Following, TRUE>>] = Here(hs)
  BY <1>1, StockedFlows DEF Flows
<1>3. status = "run" /\ Following \in Int /\ stack.top >= Here(hs) /\ Filled(stack)
  BY <1>1, StockedHere
<1>4. /\ stack' = stack /\ frames' = Advanced(Following) /\ wide' = TRUE
      /\ globals' = globals /\ status' = "run"
  BY <1>3 DEF Wide
<1>5. GlobalsClean'  BY <1>4 DEF Stocked, GlobalsClean
<1>6. Stocked(hs)'  BY <1>2, <1>3, <1>4, <1>5, StockedMoved
<1>. QED  BY <1>4, <1>6 DEF Lasts

LEMMA HaltLasts ==
  ASSUME NEW hs, Halt
  PROVE  Lasts(hs)
BY DEF Halt, Lasts

LEMMA OverrunLasts ==
  ASSUME TypeOK, NEW hs, Enough(hs), Overrun
  PROVE  Lasts(hs)
<1>. DEFINE p == <<Frame.ip, wide>>
<1>1. ~(InCode(1) /\ InCode(Length)) /\ Crash /\ status = "run"  BY DEF Overrun
<1>2. /\ IsMap(functions, Frame.fn, hs[Frame.fn]) /\ p \in DOMAIN hs[Frame.fn]
      /\ Frame.ip \in Nat
  BY <1>1, EnoughHere
<1>3. Frame.ip = Len(Code) /\ Frame.fn # Script
  <2>1. \/ Frame.ip = Len(Code) /\ Frame.fn # Script
        \/ Frame.ip + 1 <= Len(Code) /\ NextAt(Code, p) <= Len(Code)
    BY <1>2 DEF IsMap, Code
  <2>2. NextAt(Code, p) = Frame.ip + Length  BY DEF NextAt, Length, Op
  <2>. QED  BY <1>1, <1>2, <2>1, <2>2 DEF InCode
<1>. QED  BY <1>1, <1>3, CrashLasts DEF Unchecked

(* A frame more: it holds the callee and the arguments, and its slots      *)
(* point into the block of v.stack_top.                                    *)
LEMMA EnteredLasts ==
  ASSUME TypeOK, NEW hs, Enough(hs), Stocked(hs), Fetched("CALL"),
         NEW f \in FunctionIds, NEW argc \in Nat, EnterFunction(f, argc), ~Raise(stack),
         Here(hs) \in Nat, Here(hs) >= argc + 2, stack.top \in Int, stack.top >= Here(hs),
         stack.topGen = stack.gen
  PROVE  Lasts(hs)
<1>. DEFINE A == Advanced(Following)
            top == Len(frames)
            new == [fn |-> f, ip |-> 0, base |-> stack.size - argc - 1, gen |-> stack.gen]
<1>1. /\ frames' = Append(A, new) /\ wide' = FALSE /\ stack' = stack /\ globals' = globals
      /\ argc = functions[f].argc /\ status' = "run"
  BY DEF EnterFunction, Fetched
<1>2. status = "run" /\ Following \in Int  BY FetchedOperand DEF Fetched
<1>3. /\ A \in Seq(FrameType) /\ Len(A) = top /\ top \in Nat
      /\ frames \in Seq(FrameType) /\ DOMAIN frames = 1 .. top
  BY <1>2, RunningFrame, AdvancedFrames DEF TypeOK
<1>4. \A i \in 1 .. top : A[i].gen = frames[i].gen
  <2>1. A = [frames EXCEPT ![top].ip = Following]  BY DEF Advanced
  <2>. HIDE DEF A
  <2>2. \A i \in 1 .. top : A[i] = frames[i] \/ A[i] = [frames[i] EXCEPT !.ip = Following]
    BY <1>3, <2>1
  <2>3. \A i \in 1 .. top : frames[i] \in FrameType  BY <1>3
  <2>. QED  BY <2>2, <2>3 DEF FrameType
<1>5. new.fn = f /\ new.ip = 0 /\ new.gen = stack.gen  OBVIOUS
<1>. HIDE DEF A, new
<1>6. /\ Len(frames') = top + 1 /\ frames'[top + 1] = new
      /\ \A i \in 1 .. top : frames'[i] = A[i]
      /\ \A i \in 1 .. top + 1 : i = top + 1 \/ i \in 1 .. top
  BY <1>1, <1>3, Appended
<1>7. GoesTo(hs[f], 0, argc + 1)  BY <1>1 DEF Enough, IsMap
<1>8. Here(hs)' = argc + 1  BY <1>1, <1>5, <1>6, <1>7 DEF Here, Frame, GoesTo
<1>9. \A i \in 2 .. Len(frames') : frames'[i].gen = stack'.topGen
  <2>. SUFFICES ASSUME NEW i \in 2 .. top + 1 PROVE frames'[i].gen = stack.topGen
    BY <1>1, <1>6
  <2>1. CASE i = top + 1  BY <1>5, <1>6, <2>1
  <2>2. CASE i # top + 1
    <3>1. i \in 1 .. top /\ i \in 2 .. top
      <4>. HIDE DEF top
      <4>. QED  BY <1>3, <2>2
    <3>. QED  BY <1>4, <1>6, <3>1 DEF Stocked
  <2>. QED  BY <2>1, <2>2
<1>10. stack'.top >= Here(hs)'
  <2>. DEFINE t == stack.top
              n == Here(hs)'
              m == Here(hs)
  <2>1. n = argc + 1 /\ m >= argc + 2 /\ t >= m /\ t \in Int /\ m \in Nat  BY <1>8
  <2>. HIDE DEF t, n, m
  <2>2. t >= n  BY <2>1
  <2>. QED  BY <1>1, <2>2 DEF t, n
<1>11. Filled(stack)' /\ GlobalsClean'
  BY <1>1 DEF Stocked, Filled, StackOK, IsStack, GlobalsClean
<1>. QED  BY <1>1, <1>9, <1>10, <1>11 DEF Lasts, Stocked

(* A call: the callee is found, or v.stack_top is a stale pointer.          *)
LEMMA CallLasts ==
  ASSUME TypeOK, NEW hs, Enough(hs), Lag >= 0, Stocked(hs), Call
  PROVE  Lasts(hs)
<1>. DEFINE argc == Operand
            at == stack.top - 1 - argc
            v == Cell(stack, at)
            m == Here(hs)
<1>1. Fetched("CALL")  BY DEF Call
<1>2. /\ status = "run" /\ InCode(1) /\ Op = "CALL" /\ Following \in Int
      /\ m \in Nat /\ Frame.base \in Nat
      /\ stack.size \in Nat /\ stack.top \in Int
      /\ stack.top >= m /\ stack.top <= stack.size
      /\ Filled(stack) /\ StackOK(stack) /\ \A moved \in Moves : moved \in BOOLEAN
  BY <1>1, StockedHere
<1>3. m >= argc + 2 /\ GoesTo(hs[Frame.fn], Following, m - argc)
  BY <1>1, StockedFlows DEF Flows
<1>4. argc \in Nat  BY <1>1, FetchedOperand DEF NamedOps
<1>5. /\ IF ~Points(stack, at, stack.topGen) \/ v = Junk
         THEN Crash
         ELSE CASE v.type = "fun"    -> EnterFunction(v.val, argc)
                [] v.type = "native" -> CallNative(argc)
                [] OTHER             -> Raise(stack)
  BY Zenon DEF Call
<1>. HIDE DEF argc, m
<1>6. at \in 1 .. stack.size - 1
  <2>. DEFINE t == stack.top
              z == stack.size
  <2>1. t \in Int /\ z \in Nat /\ t >= m /\ t <= z  BY <1>2
  <2>. HIDE DEF t, z
  <2>2. t - 1 - argc \in 1 .. z - 1  BY <1>2, <1>3, <1>4, <2>1
  <2>. QED  BY <2>2 DEF t, z
<1>. HIDE DEF at
<1>7. at \in DOMAIN stack.items  BY <1>2, <1>6 DEF StackOK
<1>8. Clean(v) /\ Known(v) /\ v # Junk
  <2>1. Clean(v)  BY <1>2, <1>6 DEF Filled, Cell
  <2>2. Known(v)  BY <1>2, <1>7 DEF StackOK, Cell
  <2>. QED  BY <2>1, <2>2 DEF Clean, Kinds, Junk
<1>. HIDE DEF v
<1>9. CASE ~Points(stack, at, stack.topGen)
  <2>1. StalePointer  BY <1>2, <1>7, <1>9 DEF StalePointer, Points
  <2>. QED  BY <1>2, <1>5, <1>9, <2>1, CrashLasts DEF Unchecked
<1>10. CASE CallNative(argc)
  <2>. DEFINE l == [stack EXCEPT !.top = @ - (argc + 1)]
  <2>1. PICK moved \in Moves : Goto(Following, Push(l, IntV(0), moved))
    BY <1>10 DEF CallNative, Continue
  <2>2. /\ l.items = stack.items /\ l.size = stack.size /\ l.topGen = stack.topGen
        /\ l.top = stack.top - (argc + 1)
    <3>1. IsStack(stack)  BY <1>2 DEF StackOK
    <3>. QED  BY <3>1 DEF IsStack, StackFields
  <2>3. StackOK(l)
    <3>1. argc + 1 \in Int  BY <1>4
    <3>. QED  BY <1>2, <3>1, LoweredStack
  <2>. HIDE DEF l
  <2>4. Filled(l)  BY <1>2, <2>2, <2>3 DEF Filled
  <2>5. Known(IntV(0)) /\ Clean(IntV(0))
    BY ResultsKnown DEF Clean, Kinds, IntV, FunV
  <2>. DEFINE p == Push(l, IntV(0), moved)
  <2>6. Filled(p) /\ p.top = l.top + 1 /\ p.topGen = l.topGen
    BY <1>2, <2>4, <2>5, FilledPushed
  <2>. HIDE DEF p
  <2>7. p.top >= m - argc
    <3>. DEFINE t == stack.top
    <3>1. p.top = (t - (argc + 1)) + 1 /\ t \in Int /\ t >= m  BY <1>2, <2>2, <2>6
    <3>. HIDE DEF t
    <3>. QED  BY <1>2, <1>4, <3>1
  <2>. QED  BY <1>2, <1>3, <2>1, <2>2, <2>6, <2>7, StockedGoto DEF p
<1>11. CASE v.type = "fun" /\ EnterFunction(v.val, argc)
  <2>1. CASE Raise(stack)  BY <2>1, RaiseLasts
  <2>2. CASE ~Raise(stack) /\ Points(stack, at, stack.topGen)
    <3>1. v.val \in FunctionIds  BY <1>8, <1>11 DEF Known
    <3>2. stack.topGen = stack.gen  BY <2>2 DEF Points
    <3>. QED  BY <1>1, <1>2, <1>3, <1>4, <1>11, <2>2, <3>1, <3>2, EnteredLasts DEF m
  <2>. QED  BY <1>9, <2>1, <2>2
<1>. QED  BY <1>5, <1>8, <1>9, <1>10, <1>11, RaiseLasts

(* A return: the caller has its cells again.                               *)
LEMMA ReturnLasts ==
  ASSUME TypeOK, NEW hs, Enough(hs), Lag >= 0, Stocked(hs), Return
  PROVE  Lasts(hs)
<1>. DEFINE above == stack.top - 1 - Frame.base
            diff == IF above > 0 THEN above ELSE 0
            left == [stack EXCEPT !.size = @ - 1 - diff, !.top = Frame.base,
                                  !.topGen = Frame.gen]
            v == Last(stack)
            top == Len(frames)
            p == Push(left, v, FALSE)
<1>1. Fetched("RETURN") /\ top > 1  BY DEF Return
<1>2. /\ status = "run" /\ Here(hs) \in Nat /\ Frame.base \in Nat
      /\ stack.size \in Nat /\ stack.top \in Int /\ stack.top <= stack.size
      /\ stack.size >= Frame.base + Here(hs) /\ stack.size >= Here(hs)
      /\ Filled(stack) /\ StackOK(stack)
  BY <1>1, StockedHere
<1>3. Here(hs) >= 2  BY <1>1, StockedFlows DEF Flows
<1>4. diff \in Nat /\ 1 + diff <= stack.size
  <2>. DEFINE z == stack.size
              t == stack.top
              b == Frame.base
              n == Here(hs)
  <2>1. z \in Nat /\ t \in Int /\ b \in Nat /\ n \in Nat /\ t <= z /\ z >= n /\ n >= 2
    BY <1>2, <1>3
  <2>2. diff = IF t - 1 - b > 0 THEN t - 1 - b ELSE 0  OBVIOUS
  <2>. HIDE DEF z, t, b, n, diff
  <2>3. diff \in Nat /\ 1 + diff <= z  BY <2>1, <2>2
  <2>. QED  BY <2>3 DEF z
<1>5. /\ DOMAIN frames = 1 .. top /\ frames \in Seq(FrameType) /\ top \in Nat
  BY <1>2, RunningFrame DEF TypeOK
<1>6. stack.topGen = Frame.gen
  <2>1. top \in 2 .. top
    <3>. HIDE DEF top
    <3>. QED  BY <1>1, <1>5
  <2>. QED  BY <2>1 DEF Stocked, Frame
<1>. HIDE DEF diff
<1>7. /\ stack' = p /\ frames' = SubSeq(frames, 1, top - 1) /\ wide' = FALSE
      /\ functions' = functions /\ globals' = globals /\ status' = "run"
  <2>1. ~(stack.size < 1 + diff)  BY <1>2, <1>4
  <2>. QED  BY <1>2, <1>6, <2>1, Zenon DEF Return, diff
<1>8. /\ left.items = stack.items /\ left.size = stack.size - 1 - diff
      /\ left.cap = stack.cap /\ left.gen = stack.gen
      /\ left.top = Frame.base /\ left.topGen = Frame.gen
      /\ IsStack(left)
  <2>1. IsStack(stack)  BY <1>2 DEF StackOK
  <2>. QED  BY <2>1 DEF IsStack, StackFields
<1>. HIDE DEF left
<1>9. left.size \in Nat /\ left.size <= stack.size
  BY <1>2, <1>4, <1>8
<1>10. StackOK(left)
  <2>1. /\ stack.cap \in Nat /\ stack.cap >= 2 /\ stack.size \in 0 .. stack.cap
        /\ stack.items \in [0 .. stack.cap - 1 -> TValue]
        /\ \A i \in 0 .. stack.cap - 1 : Known(stack.items[i])
        /\ stack.gen \in Nat /\ stack.topGen \in 0 .. stack.gen
    BY <1>2 DEF StackOK
  <2>2. left.size \in 0 .. left.cap  BY <1>8, <1>9, <2>1
  <2>3. left.topGen \in 0 .. left.gen /\ left.top \in Int  BY <1>2, <1>6, <1>8, <2>1
  <2>. QED  BY <1>8, <2>1, <2>2, <2>3, Zenon DEF StackOK
<1>11. Filled(left)
  <2>. DEFINE y == left.size
              z == stack.size
  <2>1. y \in Nat /\ z \in Nat /\ y <= z  BY <1>2, <1>9
  <2>. HIDE DEF y, z
  <2>2. \A c \in 1 .. y - 1 : c \in 1 .. z - 1  BY <2>1
  <2>. QED  BY <1>2, <1>8, <1>10, <2>2 DEF Filled, y, z
<1>12. Clean(v) /\ Known(v)
  <2>1. stack.size >= 2  BY <1>2, <1>3
  <2>. QED  BY <1>2, <2>1, FilledLast
<1>. HIDE DEF v
<1>13. Filled(p) /\ p.top = Frame.base + 1 /\ p.topGen = stack.topGen
  BY <1>6, <1>8, <1>11, <1>12, FilledPushed
<1>. HIDE DEF p
<1>14. /\ Len(frames') = top - 1 /\ top - 1 \in 1 .. top /\ top - 1 # top
       /\ \A i \in 1 .. top - 1 : frames'[i] = frames[i]
       /\ \A i \in 2 .. top - 1 : i \in 1 .. top - 1 /\ i \in 2 .. top
       /\ top - 1 \in 1 .. top - 1 /\ top - 1 + 1 = top
  <2>. HIDE DEF top
  <2>1. Len(SubSeq(frames, 1, top - 1)) = top - 1  BY <1>1, <1>5
  <2>2. SubSeq(frames, 1, top - 1) = [i \in 1 .. top - 1 |-> frames[i]]  BY <1>1, <1>5
  <2>. QED  BY <1>1, <1>5, <1>7, <2>1, <2>2
<1>15. stack'.top >= Here(hs)'
  <2>. DEFINE k == top - 1
              g == frames[k]
  <2>1. Here(hs)' = hs[g.fn][<<g.ip, FALSE>>]  BY <1>7, <1>14 DEF Here, Frame
  <2>2. Place(k) = <<g.ip, FALSE>> /\ End(k) = Frame.base + 1
    BY <1>14 DEF Place, End, Frame
  <2>3. /\ Place(k) \in DOMAIN hs[g.fn]
        /\ End(k) >= g.base + hs[g.fn][Place(k)] /\ g.base >= 0
    BY <1>5, <1>14 DEF Enough
  <2>4. g.base \in Int /\ g.fn \in FunctionIds
    <3>1. \A i \in 1 .. top : frames[i] \in FrameType  BY <1>5
    <3>2. g \in FrameType  BY <1>14, <3>1
    <3>. QED  BY <3>2 DEF FrameType
  <2>5. hs[g.fn][Place(k)] \in Nat  BY <2>3, <2>4 DEF Enough, IsMap
  <2>. DEFINE e == hs[g.fn][Place(k)]
              b == g.base
              c == Frame.base
  <2>6. c + 1 >= b + e /\ b \in Int /\ b >= 0 /\ e \in Nat /\ c \in Nat
    BY <1>2, <2>2, <2>3, <2>4, <2>5
  <2>. HIDE DEF b, c, e, g, k
  <2>7. c + 1 >= e  BY <2>6
  <2>. QED  BY <1>7, <1>13, <2>1, <2>2, <2>7 DEF c, e
<1>16. \A i \in 2 .. Len(frames') : frames'[i].gen = stack'.topGen
  <2>. SUFFICES ASSUME NEW i \in 2 .. top - 1 PROVE frames'[i].gen = stack'.topGen
    BY <1>14
  <2>1. frames'[i] = frames[i]  BY <1>14
  <2>2. frames[i].gen = stack.topGen  BY <1>14 DEF Stocked
  <2>. QED  BY <1>7, <1>13, <2>1, <2>2
<1>17. Filled(stack)' /\ GlobalsClean'
  BY <1>7, <1>13 DEF Stocked, Filled, StackOK, IsStack, GlobalsClean
<1>. QED  BY <1>7, <1>15, <1>16, <1>17 DEF Lasts, Stocked

LEMMA ReturnFromScriptLasts ==
  ASSUME TypeOK, NEW hs, Enough(hs), Lag >= 0, Stocked(hs), ReturnFromScript
  PROVE  Lasts(hs)
<1>1. Fetched("RETURN")  BY DEF ReturnFromScript
<1>2. Here(hs) >= 2  BY <1>1, StockedFlows DEF Flows
<1>3. Here(hs) \in Nat /\ stack.size \in Nat /\ stack.size >= Here(hs)
  BY <1>1, StockedHere
<1>4. ~(stack.size < 1)  BY <1>2, <1>3
<1>. QED  BY <1>4 DEF ReturnFromScript, Lasts

(* Every step.                                                             *)
LEMMA StepLasts ==
  ASSUME TypeOK, NEW hs, Enough(hs), Lag >= 0, Stocked(hs), Step
  PROVE  Lasts(hs)
BY ConstantLasts, BinaryLasts, UnaryLasts, PoppingLasts, SetGlobalLasts, LoadGlobalLasts,
   SetLocalLasts, LoadLocalLasts, JumpLasts, CallLasts, ReturnFromScriptLasts,
   ReturnLasts, WideLasts, HaltLasts, OverrunLasts, Zenon
   DEF Step

(* In step with its first frame, a machine has all this.                   *)
LEMMA InStepStocked ==
  ASSUME TypeOK, Grounded, status = "run", Len(frames) = 1, NEW hs, InStep(hs, 0)
  PROVE  Stocked(hs)
<1>1. Running(hs, 0)  BY DEF Running
<1>2. /\ Frame.base = 0 /\ stack.top = stack.size
  BY DEF Grounded, OneStack, Frame, TypeOK
<1>3. stack.size = Frame.base + Here(hs) /\ Here(hs) \in Nat
  BY <1>1, HereMapped
<1>4. stack.top >= Here(hs)  BY <1>2, <1>3
<1>5. Filled(stack)
  <2>1. Local(stack) /\ StackOK(stack)  BY <1>1, LocalStack
  <2>2. \A c \in 0 + 1 .. stack.size - 1 : Clean(stack.items[c])
    BY <1>2, <2>1 DEF Local
  <2>. QED  BY <2>1, <2>2 DEF Filled
<1>6. GlobalsClean  BY DEF Grounded, GlobalsClean
<1>. QED  BY <1>4, <1>5, <1>6 DEF Stocked

-----------------------------------------------------------------------------
(* One program, run once.                                                  *)

(* While v.stack_top describes the stack, the machine is in step with its  *)
(* code; when it lags, it lags until the script returns.  In either case   *)
(* its frames have enough cells, and v.stack_top stands above enough.      *)
MappedInv ==
  /\ TypeOK
  /\ Lag >= 0
  /\ status \in {"idle", "returned"} => frames = <<>>
  /\ status # "returned" /\ OneStack => Grounded
  /\ status = "idle" => OneStack
  /\ status = "run" =>
       \E hs : Enough(hs) /\ Stocked(hs) /\ (OneStack => InStep(hs, 0))
  /\ UndefinedOnlyAt
  /\ OneStack => Balanced
  /\ Clock \notin Readable => OneStack

(* Before the program starts.                                              *)
LEMMA MappedInit == Init => MappedInv
<1>. SUFFICES ASSUME Init PROVE MappedInv
  OBVIOUS
<1>1. TypeOK  BY InitTyped
<1>2. /\ stack = NewStack /\ frames = <<>> /\ status = "idle"
      /\ globals = [s \in Strings |-> IF s = Clock THEN NativeV(0) ELSE Absent]
  BY DEF Init
<1>3. stack.size = 0 /\ stack.top = 0  BY <1>2 DEF NewStack, NewArray
<1>4. \A s \in Readable : globals[s] = Absent \/ Clean(globals[s])
  <2>. SUFFICES ASSUME NEW s \in Readable PROVE globals[s] = Absent \/ Clean(globals[s])
    OBVIOUS
  <2>1. s \in Strings  BY ReadableAssumption
  <2>2. CASE s = Clock
    BY <1>2, <2>1, <2>2 DEF Clean, Kinds, NativeV, FunV
  <2>3. CASE s # Clock  BY <1>2, <2>1, <2>3
  <2>. QED  BY <2>2, <2>3
<1>5. OneStack /\ Lag = 0  BY <1>3 DEF OneStack, Lag
<1>6. Grounded
  <2>1. DOMAIN frames = {}  BY <1>2
  <2>. QED  BY <1>2, <1>3, <1>4, <1>5, <2>1 DEF Grounded, CallBinding, FramesNested
<1>. QED  BY <1>1, <1>2, <1>5, <1>6 DEF MappedInv, UndefinedOnlyAt, Balanced

(* Every step of the machine.                                              *)
LEMMA MappedStep ==
  ASSUME MappedInv, Step
  PROVE  MappedInv'
<1>1. status = "run" /\ TypeOK /\ TypeOK' /\ Lag >= 0
  <2>1. status = "run"
    BY DEF Step, Constant, ConstantBy, BinaryOperator, UnaryOperator, PrintValue, PopValue,
           SetGlobal, LoadGlobal, SetLocal, LoadLocal, Jump, Call, ReturnFromScript,
           Return, Wide, Halt, Overrun, Fetched
  <2>2. TypeOK /\ TypeOK'  BY StepKeeps DEF MappedInv
  <2>. QED  BY <2>1, <2>2 DEF MappedInv
<1>a. /\ stack.size \in Nat /\ stack.top \in Int
      /\ stack'.size \in Nat /\ stack'.top \in Int
  <2>1. StackOK(stack) /\ StackOK(stack)'  BY <1>1, Zenon DEF TypeOK
  <2>. QED  BY <2>1 DEF StackOK
<1>b. Lag \in Int /\ Lag' \in Int  BY <1>a DEF Lag
<1>2. PICK hs : Enough(hs) /\ Stocked(hs) /\ (OneStack => InStep(hs, 0))
  BY <1>1 DEF MappedInv
<1>c. (status' = "run" => Stocked(hs)') /\ UndefinedOnlyAt'
  BY <1>1, <1>2, StepLasts DEF Lasts, UndefinedOnlyAt
<1>3. /\ status' = "run" => Enough(hs)'
      /\ Lag' >= 0
      /\ status' # "returned" => (Lag > 0 => Lag' > 0)
      /\ status' = "returned" => frames' = <<>> /\ OneStack'
  BY <1>1, <1>2, StepEnough
<1>4. status' # "idle"
  BY <1>1 DEF Step, Constant, ConstantBy, BinaryOperator, UnaryOperator, PrintValue, PopValue,
         SetGlobal, LoadGlobal, SetLocal, LoadLocal, Jump, Call, ReturnFromScript,
         Return, Wide, Halt, Overrun, Fetched, Continue, Goto, Raise, Crash, CrashWith,
         Yield, EnterFunction, CallNative
<1>5. (OneStack <=> Lag = 0) /\ (OneStack' <=> Lag' = 0)
  BY <1>a DEF OneStack, Lag
<1>6. CASE OneStack /\ (OneStack' \/ Clock \notin Readable)
  <2>1. Running(hs, 0)  BY <1>1, <1>2, <1>6 DEF Running, MappedInv
  <2>2. Kept(hs, 0)  BY <1>6, <2>1, StepInStep
  <2>3. Grounded' /\ OneStack'  BY <2>2 DEF Kept, Grounded
  <2>4. status' = "run" => InStep(hs, 0)'
    <3>1. status' = "run" => frames' # <<>> /\ frames' \in Seq(FrameType)
      BY <1>1 DEF TypeOK
    <3>2. status' = "run" => Len(frames') > 0  BY <3>1
    <3>. QED  BY <2>2, <3>2 DEF Kept
  <2>5. Balanced'  BY <2>2 DEF Kept, Balanced
  <2>. QED  BY <1>1, <1>3, <1>4, <1>c, <2>3, <2>4, <2>5 DEF MappedInv
<1>7. CASE ~(OneStack /\ (OneStack' \/ Clock \notin Readable))
  <2>1. Clock \in Readable  BY <1>7 DEF MappedInv
  <2>2. status' # "returned" => ~OneStack'
    BY <1>1, <1>3, <1>5, <1>7, <1>b, <2>1
  <2>3. OneStack' => Balanced'
    <3>1. OneStack' => status' = "returned"  BY <2>2
    <3>. QED  BY <3>1 DEF Balanced
  <2>. QED  BY <1>1, <1>3, <1>4, <1>c, <2>1, <2>2, <2>3 DEF MappedInv
<1>. QED  BY <1>6, <1>7

(* The program is interpreted.                                             *)
LEMMA MappedInterpret ==
  ASSUME MappedInv, ~Repl, NEW fs \in Programs, Mapped(fs), InterpretFunction(fs)
  PROVE  MappedInv'
<1>1. status = "idle" /\ frames = <<>> /\ TypeOK /\ Grounded
  BY DEF MappedInv, InterpretFunction, MayInterpret
<1>2. Len(frames) = 0  BY <1>1
<1>3. PICK hs : \A f \in FunctionIds : IsMap(fs, f, hs[f])  BY DEF Mapped
<1>4. /\ Grounded'
      /\ status' = "run" => InStep(hs, 0)'
      /\ status' \in {"run", "error"}
  BY <1>1, <1>2, <1>3, InterpretInStep
<1>5. TypeOK'  BY <1>1, InterpretKeeps DEF Interpret
<1>6. status' = "run" => Enough(hs)'
  <2>. SUFFICES ASSUME TypeOK', Grounded', InStep(hs, 0)' PROVE Enough(hs)'
    BY <1>4, <1>5
  <2>. QED  BY InStepEnough, PTL
<1>8. status' = "run" => Stocked(hs)'
  <2>1. status' = "run" => Len(frames') = 1
    BY <1>1 DEF InterpretFunction
  <2>. SUFFICES ASSUME TypeOK', Grounded', (status = "run")', (Len(frames) = 1)',
                       InStep(hs, 0)'
                PROVE  Stocked(hs)'
    BY <1>4, <1>5, <2>1
  <2>. QED  BY InStepStocked, PTL
<1>7. OneStack' /\ Lag' >= 0
  <2>1. OneStack'  BY <1>4 DEF Grounded
  <2>2. stack'.size \in Nat  BY <1>5 DEF TypeOK, StackOK
  <2>. QED  BY <2>1, <2>2 DEF OneStack, Lag
<1>. QED  BY <1>4, <1>5, <1>6, <1>7, <1>8 DEF MappedInv, UndefinedOnlyAt, Balanced

(* Nothing changes.                                                        *)
LEMMA Stutters ==
  ASSUME UNCHANGED vars
  PROVE  /\ TypeOK' = TypeOK /\ Grounded' = Grounded /\ Lag' = Lag
         /\ OneStack' = OneStack /\ Balanced' = Balanced
         /\ UndefinedOnlyAt' = UndefinedOnlyAt
         /\ \A hs : Enough(hs)' = Enough(hs) /\ Stocked(hs)' = Stocked(hs)
         /\ \A hs, low : InStep(hs, low)' = InStep(hs, low)
<1>1. /\ functions' = functions /\ stack' = stack /\ frames' = frames /\ wide' = wide
      /\ globals' = globals /\ status' = status
  BY DEF vars
<1>2. TypeOK' = TypeOK
  BY <1>1, Zenon DEF TypeOK, FunctionsOK, Constants, StackOK, IsStack
<1>3. OneStack' = OneStack /\ Lag' = Lag /\ Balanced' = Balanced
  BY <1>1 DEF OneStack, Lag, Balanced
<1>4. Grounded' = Grounded
  BY <1>1, Zenon DEF Grounded, OneStack, CallBinding, FramesNested, Cell
<1>5. UndefinedOnlyAt' = UndefinedOnlyAt
  <2>1. Unchecked' = Unchecked
    BY <1>1, UncheckedKept
  <2>. QED  BY <1>1, <2>1 DEF UndefinedOnlyAt
<1>6. ASSUME NEW hs  PROVE Enough(hs)' = Enough(hs) /\ Stocked(hs)' = Stocked(hs)
  <2>1. Enough(hs)' = Enough(hs)  BY <1>1, Zenon DEF Enough, Place, End
  <2>2. Stocked(hs)' = Stocked(hs)
    BY <1>1, Zenon DEF Stocked, Here, Frame, Filled, StackOK, IsStack, GlobalsClean
  <2>. QED  BY <2>1, <2>2
<1>7. ASSUME NEW hs, NEW low  PROVE InStep(hs, low)' = InStep(hs, low)
  BY <1>1, Zenon DEF InStep, Place, End, Cell
<1>. QED  BY <1>2, <1>3, <1>4, <1>5, <1>6, <1>7

(* The invariant holds of every program that has maps.                     *)
LEMMA MappedInvariance ==
  ASSUME ~Repl, \A fs \in Programs : Mapped(fs)
  PROVE  Spec => []MappedInv
<1>1. Init => MappedInv  BY MappedInit
<1>2. MappedInv /\ [Next]_vars => MappedInv'
  <2>1. ASSUME MappedInv, UNCHANGED vars  PROVE MappedInv'
    <3>1. status' = status /\ frames' = frames  BY <2>1 DEF vars
    <3>. QED  BY <2>1, <3>1, Stutters DEF MappedInv
  <2>2. ASSUME MappedInv, Interpret  PROVE MappedInv'
    BY <2>2, MappedInterpret DEF Interpret
  <2>. QED  BY <2>1, <2>2, MappedStep DEF Next
<1>. QED  BY <1>1, <1>2, PTL DEF Spec

(* A program that has stack maps runs into something undefined at the      *)
(* places of Unchecked only, whatever natives it calls and however often   *)
(* its stack moves, for every frame limit and initial capacity             *)
(* (vm.c:86-112, 167, 180-199, 258-559).                                   *)
THEOREM UndefinedCorrect ==
  ASSUME ~Repl, \A fs \in Programs : Mapped(fs)
  PROVE  Spec => []UndefinedOnlyAt
<1>1. MappedInv => UndefinedOnlyAt  BY DEF MappedInv
<1>. QED  BY <1>1, MappedInvariance, PTL

(* A call binds the callee's slots, and frames lie above one another, at   *)
(* least until the call of a native (vm.c:94, 107-112, 167).               *)
THEOREM SoundUntilNative ==
  ASSUME ~Repl, \A fs \in Programs : Mapped(fs)
  PROVE  Spec => [](OneStack => CallBinding /\ FramesNested /\ Balanced)
<1>1. MappedInv => (OneStack => CallBinding /\ FramesNested /\ Balanced)
  <2>. SUFFICES ASSUME MappedInv, OneStack  PROVE CallBinding /\ FramesNested /\ Balanced
    OBVIOUS
  <2>1. Balanced  BY DEF MappedInv
  <2>2. CASE status = "returned"
    <3>1. DOMAIN frames = {}  BY <2>2 DEF MappedInv
    <3>. QED  BY <2>1, <3>1 DEF CallBinding, FramesNested
  <2>3. CASE status # "returned"
    BY <2>1, <2>3 DEF MappedInv, Grounded
  <2>. QED  BY <2>2, <2>3
<1>. QED  BY <1>1, MappedInvariance, PTL

(* Programs that do not read the native's name never let v.stack_top and   *)
(* the array's size differ: every call binds its slots for the whole run   *)
(* (vm.c:94, 167).                                                         *)
THEOREM BindingCorrect ==
  ASSUME ~Repl, Clock \notin Readable, \A fs \in Programs : Mapped(fs)
  PROVE  Spec => [](OneStack /\ CallBinding)
<1>1. MappedInv => OneStack  BY DEF MappedInv
<1>. QED  BY <1>1, SoundUntilNative, MappedInvariance, PTL

(* Their frames lie above one another (vm.c:90-96).                        *)
THEOREM NestingCorrect ==
  ASSUME ~Repl, Clock \notin Readable, \A fs \in Programs : Mapped(fs)
  PROVE  Spec => []FramesNested
<1>1. MappedInv => OneStack  BY DEF MappedInv
<1>. QED  BY <1>1, SoundUntilNative, MappedInvariance, PTL

(* A script that ends leaves nothing on the stack but itself               *)
(* (vm.c:149-153).                                                         *)
THEOREM BalanceCorrect ==
  ASSUME ~Repl, Clock \notin Readable, \A fs \in Programs : Mapped(fs)
  PROVE  Spec => []Balanced
<1>1. MappedInv => OneStack  BY DEF MappedInv
<1>. QED  BY <1>1, SoundUntilNative, MappedInvariance, PTL

(* Only RETURN leaves a frame for the one below.                           *)
LEMMA OnlyReturnsLeave ==
  ASSUME TypeOK, Next, Len(frames') < Len(frames), Len(frames') > 0
  PROVE  Return
<1>1. CASE Interpret
  <2>1. \/ frames' = frames
        \/ \E f \in FrameType : frames' = Append(frames, f)
    BY <1>1 DEF Interpret, InterpretFunction
  <2>. QED  BY <2>1 DEF TypeOK
<1>2. CASE Step
  <2>. SUFFICES ASSUME ~Return  PROVE FALSE
    OBVIOUS
  <2>1. status = "run" /\ Len(frames) \in Nat
    <3>1. status = "run"
      BY <1>2 DEF Step, Constant, ConstantBy, BinaryOperator, UnaryOperator, PrintValue,
             PopValue, SetGlobal, LoadGlobal, SetLocal, LoadLocal, Jump, Call,
             ReturnFromScript, Return, Wide, Halt, Overrun, Fetched
    <3>. QED  BY <3>1, RunningFrame
  <2>2. \A ip \in Int : Len(Advanced(ip)) = Len(frames) /\ Advanced(ip) \in Seq(FrameType)
    BY <2>1, AdvancedFrames
  <2>3. ASSUME frames' = frames  PROVE FALSE
    BY <2>1, <2>3
  <2>4. ASSUME NEW ip \in Int, frames' = Advanced(ip)  PROVE FALSE
    BY <2>1, <2>2, <2>4
  <2>5. ASSUME NEW s, NEW op, Fetched(op), Continue(s) \/ Raise(s)  PROVE FALSE
    <3>1. Following \in Int  BY <2>5, FetchedOperand
    <3>. QED  BY <2>4, <2>5, <3>1 DEF Continue, Goto, Raise
  <2>6. ASSUME NEW s, CrashWith(s)  PROVE FALSE
    BY <2>3, <2>6 DEF CrashWith
  <2>7. CASE Constant \/ PrintValue \/ PopValue \/ LoadGlobal \/ SetLocal \/ LoadLocal
    BY <2>5, <2>6, <2>7, Zenon
       DEF Constant, ConstantBy, PrintValue, PopValue, LoadGlobal, SetLocal, LoadLocal, Crash
  <2>8. ASSUME NEW r, NEW s, NEW op, Fetched(op), Yield(r, s)  PROVE FALSE
    BY <2>5, <2>6, <2>8 DEF Yield, Crash
  <2>9. CASE BinaryOperator \/ UnaryOperator
    BY <2>6, <2>8, <2>9, Zenon DEF BinaryOperator, UnaryOperator, Crash
  <2>10. CASE SetGlobal
    <3>1. Fetched("SETGLOBAL") /\ (Crash \/ frames' = Advanced(Following))
      BY <2>10 DEF SetGlobal
    <3>2. Following \in Int  BY <3>1, FetchedOperand
    <3>. QED  BY <2>4, <2>6, <3>1, <3>2 DEF Crash
  <2>11. CASE Jump
    <3>. DEFINE distance == ShortAt(Code, Frame.ip + 1)
    <3>1. PICK op \in JumpOps :
            Fetched(op) /\ (Crash \/ frames' = Advanced(Following)
                            \/ frames' = Advanced(Following + distance)
                            \/ frames' = Advanced(Following - distance))
      BY <2>11 DEF Jump, Goto, JumpOps
    <3>2. Following \in Int /\ distance \in Nat  BY <3>1, FetchedOperand
    <3>. HIDE DEF distance
    <3>3. Following + distance \in Int /\ Following - distance \in Int  BY <3>2
    <3>. QED  BY <2>4, <2>6, <3>1, <3>2, <3>3 DEF Crash
  <2>12. CASE Call
    <3>1. Fetched("CALL")  BY <2>12 DEF Call
    <3>2. Following \in Int  BY <3>1, FetchedOperand
    <3>3. ASSUME NEW f, NEW argc, EnterFunction(f, argc)  PROVE FALSE
      <4>1. CASE Raise(stack)  BY <2>5, <3>1, <4>1
      <4>2. CASE ~Raise(stack)
        <5>1. PICK new : frames' = Append(Advanced(Following), new)
          BY <3>3, <4>2 DEF EnterFunction
        <5>2. /\ Advanced(Following) \in Seq(FrameType)
              /\ Len(Advanced(Following)) = Len(frames)
          BY <2>2, <3>2
        <5>3. Len(frames') = Len(frames) + 1  BY <5>1, <5>2
        <5>. QED  BY <2>1, <5>3
      <4>. QED  BY <4>1, <4>2
    <3>4. ASSUME NEW argc, CallNative(argc)  PROVE FALSE
      BY <2>5, <3>1, <3>4 DEF CallNative
    <3>. QED  BY <2>5, <2>6, <2>12, <3>1, <3>3, <3>4, Zenon DEF Call, Crash
  <2>13. CASE ReturnFromScript
    <3>1. Crash \/ frames' = <<>>  BY <2>13 DEF ReturnFromScript
    <3>. QED  BY <2>6, <3>1 DEF Crash
  <2>14. CASE Wide
    <3>1. Fetched("WIDE") /\ frames' = Advanced(Following)  BY <2>14 DEF Wide
    <3>2. Following \in Int  BY <3>1, FetchedOperand
    <3>. QED  BY <2>4, <3>1, <3>2
  <2>15. CASE Halt
    <3>1. frames' = Advanced(NoIp) /\ NoIp \in Int  BY <2>15 DEF Halt, NoIp
    <3>. QED  BY <2>4, <3>1
  <2>16. CASE Overrun  BY <2>6, <2>16 DEF Overrun, Crash
  <2>. QED
    BY <1>2, <2>7, <2>9, <2>10, <2>11, <2>12, <2>13, <2>14, <2>15, <2>16 DEF Step
<1>. QED  BY <1>1, <1>2 DEF Next

(* A return leaves the caller's part of the stack as it was at the call,   *)
(* with the result where the callee was, whether or not the stack has      *)
(* moved meanwhile, for programs that do not read the native's name        *)
(* (vm.c:180-199).                                                         *)
THEOREM ReturnCorrect ==
  ASSUME ~Repl, Clock \notin Readable, \A fs \in Programs : Mapped(fs)
  PROVE  Spec => ReturnRestores
<1>. DEFINE A == Len(frames') < Len(frames) /\ Len(frames') > 0 =>
                   /\ stack'.size = Frame.base + 1
                   /\ stack'.items[Frame.base] = Last(stack)
                   /\ \A i \in 0 .. Frame.base - 1 : stack'.items[i] = stack.items[i]
<1>1. MappedInv /\ [Next]_vars => A
  <2>. SUFFICES ASSUME MappedInv, [Next]_vars, Len(frames') < Len(frames), Len(frames') > 0
                PROVE  /\ stack'.size = Frame.base + 1
                       /\ stack'.items[Frame.base] = Last(stack)
                       /\ \A i \in 0 .. Frame.base - 1 : stack'.items[i] = stack.items[i]
    OBVIOUS
  <2>1. TypeOK /\ OneStack /\ frames \in Seq(FrameType) /\ Len(frames) \in Nat
    BY DEF MappedInv, TypeOK
  <2>2. frames' # frames  BY <2>1
  <2>3. Next  BY <2>2 DEF vars
  <2>4. Return  BY <2>1, <2>3, OnlyReturnsLeave
  <2>5. status = "run"  BY <2>4 DEF Return, Fetched
  <2>6. PICK hs : InStep(hs, 0)  BY <2>1, <2>5 DEF MappedInv
  <2>7. Running(hs, 0)  BY <2>1, <2>5, <2>6 DEF Running, MappedInv
  <2>8. ~Crash  BY <2>2 DEF Crash, CrashWith
  <2>9. Restored  BY <2>4, <2>7, <2>8, ReturnedStack
  <2>. QED  BY <2>9 DEF Restored
<1>2. Spec => [][A]_vars  BY <1>1, MappedInvariance, PTL DEF Spec
<1>. QED  BY <1>2 DEF ReturnRestores

-----------------------------------------------------------------------------
(* Programs without natives, whose functions return, on a stack that does  *)
(* not move.                                                               *)

(* What the instruction is at which the machine stands.                    *)
LEMMA StandsAt ==
  ASSUME NEW hs, NEW low, Running(hs, low), NEW op \in Calculations \cup {"PRINT"},
         InCode(1), Op = op
  PROVE  /\ <<Frame.ip, wide>> \in DOMAIN hs[Frame.fn] /\ Frame.fn \in FunctionIds
         /\ OpAt(functions[Frame.fn].code, <<Frame.ip, wide>>[1]) = op
         /\ Fetched(op)
<1>1. <<Frame.ip, wide>> \in DOMAIN hs[Frame.fn] /\ Frame.fn \in FunctionIds
  BY HereMapped, RunningTop
<1>2. OpAt(functions[Frame.fn].code, <<Frame.ip, wide>>[1]) = op
  BY DEF Op, Code
<1>3. Length = 1
  BY DEF Length, InstructionLength, Calculations, NamedOps, JumpOps
<1>. QED  BY <1>1, <1>2, <1>3 DEF Running, Fetched

(* An operator without a result leaves everything where it is.             *)
LEMMA OperatorCrash ==
  ASSUME Step, status' = "undefined", Op \in Calculations
  PROVE  Crash
BY Zenon DEF Step, Constant, ConstantBy, BinaryOperator, UnaryOperator, PrintValue, PopValue,
       SetGlobal, LoadGlobal, SetLocal, LoadLocal, Jump, Call, ReturnFromScript,
       Return, Wide, Halt, Overrun, Fetched, Calculations, Yield, Continue, Goto, Raise,
       Crash, EnterFunction, CallNative

(* No step compiles.                                                       *)
LEMMA StepCode ==
  ASSUME Step
  PROVE  functions' = functions
BY Zenon DEF Step, Constant, ConstantBy, BinaryOperator, UnaryOperator, PrintValue, PopValue,
       SetGlobal, LoadGlobal, SetLocal, LoadLocal, Jump, Call, ReturnFromScript,
       Return, Wide, Halt, Overrun, Yield, Continue, Goto, Raise,
       Crash, CrashWith, EnterFunction, CallNative

(* Only an overflow, or a division by zero, is undefined.                  *)
LEMMA OnlyOverflow ==
  ASSUME NEW hs, NEW low, Running(hs, low), Step, Clock \notin Readable,
         Moves = {FALSE}, stack.gen = 0, status' = "undefined",
         \A f \in FunctionIds : Returning(functions, f, hs[f])
  PROVE  /\ Overflows /\ Overflows' /\ InCode(1) /\ Op \in Calculations
         /\ ~ \A f \in FunctionIds : IsCalm(functions, f, hs[f])
<1>1. Kept(hs, low)  BY StepInStep
<1>2. Excused /\ stack'.gen = 0  BY <1>1 DEF Kept
<1>3. ~(InCode(1) /\ Op = "PRINT" /\ Last(stack).type = "native")
  <2>. SUFFICES ASSUME InCode(1), Op = "PRINT", Last(stack).type = "native"  PROVE FALSE
    OBVIOUS
  <2>1. Fetched("PRINT")  BY StandsAt
  <2>2. Here(hs) >= 2  BY <2>1, HereFlows DEF Flows
  <2>3. Clean(Last(stack))  BY <2>2, TakesOne
  <2>. QED  BY <2>3 DEF Clean, Kinds
<1>4. Frame.ip # Len(Code)
  <2>1. <<Frame.ip, wide>> \in DOMAIN hs[Frame.fn] /\ Frame.fn \in FunctionIds
    BY HereMapped, RunningTop
  <2>. QED  BY <2>1 DEF Returning, Code
<1>5. Overflows  BY <1>2, <1>3, <1>4 DEF Excused
<1>6. InCode(1) /\ Op \in Calculations  BY <1>5 DEF Overflows, Calculations
<1>7. Crash  BY <1>6, OperatorCrash
<1>8. Overflows' = Overflows
  BY <1>7, Zenon DEF Crash, CrashWith, Overflows, InCode, Op, Frame, Code
<1>9. ~ \A f \in FunctionIds : IsCalm(functions, f, hs[f])
  <2>1. /\ <<Frame.ip, wide>> \in DOMAIN hs[Frame.fn] /\ Frame.fn \in FunctionIds
        /\ OpAt(functions[Frame.fn].code, <<Frame.ip, wide>>[1]) = Op
    BY <1>6, StandsAt
  <2>. QED  BY <1>6, <2>1 DEF IsCalm
<1>. QED  BY <1>5, <1>6, <1>8, <1>9

CalmPrograms == \A fs \in Programs : Calm(fs)

(* The maps of the program that runs, and what its code does not do.       *)
QuietMaps(hs) ==
  /\ InStep(hs, 0)
  /\ \A f \in FunctionIds : Returning(functions, f, hs[f])
  /\ CalmPrograms => \A f \in FunctionIds : IsCalm(functions, f, hs[f])

QuietInv ==
  /\ MappedInv
  /\ stack.gen = 0
  /\ status = "run" => \E hs : QuietMaps(hs)
  /\ status = "undefined" => Overflows /\ ~CalmPrograms

(* The invariant holds of every such program.                              *)
LEMMA QuietInvariance ==
  ASSUME ~Repl, Clock \notin Readable, Moves = {FALSE},
         \A fs \in Programs : Returns(fs)
  PROVE  Spec => []QuietInv
<1>0. \A fs \in Programs : Mapped(fs)  BY DEF Returns, Mapped
<1>1. Init => QuietInv
  <2>. SUFFICES ASSUME Init  PROVE QuietInv
    OBVIOUS
  <2>1. stack.gen = 0 /\ status = "idle"  BY DEF Init, NewStack, NewArray
  <2>. QED  BY <2>1, MappedInit DEF QuietInv
<1>2. QuietInv /\ [Next]_vars => QuietInv'
  <2>1. ASSUME QuietInv, UNCHANGED vars  PROVE QuietInv'
    <3>1. /\ status' = status /\ functions' = functions /\ frames' = frames
          /\ stack' = stack
      BY <2>1 DEF vars
    <3>2. MappedInv'  BY <2>1, <3>1, Stutters DEF QuietInv, MappedInv
    <3>3. Overflows' = Overflows
      BY <3>1, Zenon DEF Overflows, InCode, Op, Frame, Code
    <3>4. \A hs : QuietMaps(hs)' = QuietMaps(hs)
      <4>1. \A hs : InStep(hs, 0)' = InStep(hs, 0)  BY <2>1, Stutters
      <4>. QED  BY <3>1, <4>1, Zenon DEF QuietMaps
    <3>. QED  BY <2>1, <3>1, <3>2, <3>3, <3>4 DEF QuietInv
  <2>2. ASSUME QuietInv, NEW fs \in Programs, InterpretFunction(fs)  PROVE QuietInv'
    <3>1. MappedInv'  BY <1>0, <2>2, MappedInterpret DEF QuietInv
    <3>2. status = "idle" /\ frames = <<>> /\ TypeOK /\ Grounded
      BY <2>2 DEF QuietInv, MappedInv, InterpretFunction, MayInterpret
    <3>3. Len(frames) = 0  BY <3>2
    <3>4. PICK hs : \A f \in FunctionIds :
                      /\ IsMap(fs, f, hs[f]) /\ Returning(fs, f, hs[f])
                      /\ CalmPrograms => IsCalm(fs, f, hs[f])
      <4>1. CASE CalmPrograms  BY <2>2, <4>1 DEF CalmPrograms, Calm, IsCalm
      <4>2. CASE ~CalmPrograms  BY <2>2, <4>2 DEF Returns
      <4>. QED  BY <4>1, <4>2
    <3>5. /\ status' = "run" => InStep(hs, 0)'
          /\ status' \in {"run", "error"} /\ stack'.gen = stack.gen
      BY <2>2, <3>2, <3>3, <3>4, InterpretInStep
    <3>6. functions' = fs  BY <2>2 DEF InterpretFunction
    <3>7. status' = "run" => QuietMaps(hs)'
      BY <3>4, <3>5, <3>6 DEF QuietMaps
    <3>. QED  BY <2>2, <3>1, <3>5, <3>7 DEF QuietInv
  <2>3. ASSUME QuietInv, Step  PROVE QuietInv'
    <3>1. MappedInv'  BY <2>3, MappedStep DEF QuietInv
    <3>2. status = "run"
      BY <2>3 DEF Step, Constant, ConstantBy, BinaryOperator, UnaryOperator, PrintValue,
             PopValue, SetGlobal, LoadGlobal, SetLocal, LoadLocal, Jump, Call,
             ReturnFromScript, Return, Wide, Halt, Overrun, Fetched
    <3>3. PICK hs : QuietMaps(hs)  BY <2>3, <3>2 DEF QuietInv
    <3>4. Running(hs, 0)
      BY <2>3, <3>2, <3>3 DEF Running, QuietInv, MappedInv, QuietMaps
    <3>5. Kept(hs, 0)  BY <2>3, <3>4, StepInStep
    <3>6. stack'.gen = 0  BY <2>3, <3>5 DEF Kept, QuietInv
    <3>7. functions' = functions  BY <2>3, StepCode
    <3>8. status' = "run" => QuietMaps(hs)'
      <4>1. status' = "run" => Len(frames') > 0
        <5>1. status' = "run" => frames' # <<>> /\ frames' \in Seq(FrameType)
          BY <3>1 DEF MappedInv, TypeOK
        <5>. QED  BY <5>1
      <4>2. status' = "run" => InStep(hs, 0)'  BY <3>5, <4>1 DEF Kept
      <4>. QED  BY <3>3, <3>7, <4>2 DEF QuietMaps
    <3>9. status' = "undefined" => Overflows' /\ ~CalmPrograms
      BY <2>3, <3>3, <3>4, OnlyOverflow DEF QuietInv, QuietMaps
    <3>. QED  BY <3>1, <3>6, <3>8, <3>9 DEF QuietInv
  <2>. QED  BY <2>1, <2>2, <2>3 DEF Next, Interpret
<1>. QED  BY <1>1, <1>2, PTL DEF Spec

(* As long as the stack does not move, programs without natives whose      *)
(* functions all return run into nothing undefined but an integer that     *)
(* overflows or is divided by zero (vm.c:296-426, 500-514).                *)
THEOREM OnlyOverflowsUndefined ==
  ASSUME ~Repl, Clock \notin Readable, Moves = {FALSE},
         \A fs \in Programs : Returns(fs)
  PROVE  Spec => [](NeverUndefined \/ Overflows)
<1>1. QuietInv => NeverUndefined \/ Overflows  BY DEF QuietInv, NeverUndefined
<1>. QED  BY <1>1, QuietInvariance, PTL

(* If they do not calculate, they run into nothing undefined at all: every *)
(* pop, every slot and every constant is there (vm.c:66-112, 180-199,      *)
(* 258-295, 427-559).                                                      *)
THEOREM CalmCorrect ==
  ASSUME ~Repl, Clock \notin Readable, Moves = {FALSE},
         \A fs \in Programs : Calm(fs)
  PROVE  Spec => []NeverUndefined
<1>1. CalmPrograms  BY DEF CalmPrograms
<1>2. \A fs \in Programs : Returns(fs)  BY DEF Calm, Returns, IsCalm
<1>3. QuietInv => NeverUndefined  BY <1>1 DEF QuietInv, NeverUndefined
<1>. QED  BY <1>2, <1>3, QuietInvariance, PTL
=============================================================================
