---------------------------- MODULE PhraseProofs ----------------------------
(* The phrases of a source, as the parser has them while it is at work:    *)
(* stretches of the tokens it has read, with stretches of the code it has  *)
(* emitted for them (parser.c:535-862).  Proved here, and used by          *)
(* ParserProofs: how the rules of the Grammar put phrases that are         *)
(* adjacent together; that phrases, and the marks and links that say of    *)
(* the calls on the C stack what they have parsed and are to go on with,   *)
(* stay what they are while tokens are read, code is emitted and jumps     *)
(* are patched elsewhere.                                                  *)
EXTENDS Parser, FiniteSetTheorems, SequenceTheorems, TLAPS

-----------------------------------------------------------------------------
(* Stretches of tokens and of code: from behind the i-th to the j-th.      *)

Seg(s, i, j) == SubSeq(s, i + 1, j)

(* A stretch, byte by byte.                                                *)
LEMMA SegIs ==
  ASSUME NEW S, NEW s \in Seq(S), NEW i \in Nat, NEW j \in Nat, i <= j, j <= Len(s)
  PROVE  /\ Seg(s, i, j) \in Seq(S) /\ Len(Seg(s, i, j)) = j - i
         /\ \A k \in 1 .. j - i : Seg(s, i, j)[k] = s[i + k]
<1>1. \A k \in i + 1 .. j : s[k] \in S  OBVIOUS
<1>2. i + 1 \in Int /\ j \in Int  OBVIOUS
<1>3. /\ SubSeq(s, i + 1, j) \in Seq(S)
      /\ Len(SubSeq(s, i + 1, j)) = IF i + 1 <= j THEN j - (i + 1) + 1 ELSE 0
      /\ \A k \in 1 .. j - (i + 1) + 1 : SubSeq(s, i + 1, j)[k] = s[i + 1 + k - 1]
  BY <1>1, <1>2, SubSeqProperties
<1>. DEFINE u == SubSeq(s, i + 1, j)
<1>. HIDE DEF u
<1>4. Len(u) = j - i  BY <1>3 DEF u
<1>5. ASSUME NEW k \in 1 .. j - i  PROVE u[k] = s[i + k]
  <2>1. k \in 1 .. j - (i + 1) + 1 /\ i + 1 + k - 1 = i + k  OBVIOUS
  <2>. QED  BY <1>3, <2>1 DEF u
<1>. QED  BY <1>3, <1>4, <1>5 DEF u, Seg

(* Two adjacent stretches make one.                                        *)
LEMMA SegCat ==
  ASSUME NEW S, NEW s \in Seq(S), NEW i \in Nat, NEW j \in Nat, NEW k \in Nat,
         i <= j, j <= k, k <= Len(s)
  PROVE  Seg(s, i, k) = Seg(s, i, j) \o Seg(s, j, k)
<1>1. /\ i + 1 \in 1 .. Len(s) + 1 /\ j \in i + 1 - 1 .. Len(s) /\ k \in j .. Len(s)
  OBVIOUS
<1>. QED  BY <1>1, ConcatAdjacentSubSeq DEF Seg

(* A stretch of nothing is empty.                                          *)
LEMMA SegNone ==
  ASSUME NEW s, NEW i \in Nat
  PROVE  Seg(s, i, i) = <<>>
BY SubSeqEmpty DEF Seg

(* The stretch from the first to the last is the whole sequence.           *)
LEMMA SegAll ==
  ASSUME NEW S, NEW s \in Seq(S)
  PROVE  Seg(s, 0, Len(s)) = s
<1>1. 0 + 1 = 1  OBVIOUS
<1>. QED  BY <1>1, SubSeqFull DEF Seg

(* A stretch of one.                                                       *)
LEMMA SegOne ==
  ASSUME NEW S, NEW s \in Seq(S), NEW i \in Nat, i < Len(s)
  PROVE  Seg(s, i, i + 1) = <<s[i + 1]>>
<1>. DEFINE j == i + 1
<1>1. j \in Nat /\ i <= j /\ j <= Len(s) /\ j - i = 1  OBVIOUS
<1>. HIDE DEF j
<1>2. /\ Seg(s, i, j) \in Seq(S) /\ Len(Seg(s, i, j)) = j - i
      /\ \A k \in 1 .. j - i : Seg(s, i, j)[k] = s[i + k]
  BY <1>1, SegIs
<1>3. Seg(s, i, j)[1] = s[i + 1]  BY <1>1, <1>2
<1>4. Seg(s, i, j) = <<s[i + 1]>>
  <2>1. \A u : u \in Seq(S) /\ Len(u) = 1 => u = <<u[1]>>  OBVIOUS
  <2>2. Len(Seg(s, i, j)) = 1  BY <1>1, <1>2
  <2>. QED  BY <1>2, <1>3, <2>1, <2>2, Zenon
<1>. QED  BY <1>4 DEF j

(* What sequences have in common. *)
Agree(s, t, n) == \A i \in 1 .. n : s[i] = t[i]

(* Sequences that have a beginning in common have its stretches too.       *)
LEMMA SegSame ==
  ASSUME NEW S, NEW s \in Seq(S), NEW t \in Seq(S), NEW n \in Nat,
         Agree(s, t, n), n <= Len(s), n <= Len(t),
         NEW i \in Nat, NEW j \in Nat, i <= j, j <= n
  PROVE  Seg(s, i, j) = Seg(t, i, j)
<1>0. j <= Len(s) /\ j <= Len(t)  OBVIOUS
<1>1. /\ Seg(s, i, j) \in Seq(S) /\ Len(Seg(s, i, j)) = j - i
      /\ \A k \in 1 .. j - i : Seg(s, i, j)[k] = s[i + k]
  BY <1>0, SegIs
<1>2. /\ Seg(t, i, j) \in Seq(S) /\ Len(Seg(t, i, j)) = j - i
      /\ \A k \in 1 .. j - i : Seg(t, i, j)[k] = t[i + k]
  BY <1>0, SegIs
<1>3. \A k \in 1 .. j - i : s[i + k] = t[i + k]
  BY DEF Agree
<1>. QED  BY <1>1, <1>2, <1>3, SeqEqual

(* Whatever is put behind a sequence. *)
LEMMA SegBehind ==
  ASSUME NEW S, NEW s \in Seq(S), NEW t \in Seq(S)
  PROVE  /\ s \o t \in Seq(S) /\ Len(s \o t) = Len(s) + Len(t)
         /\ Agree(s \o t, s, Len(s))
         /\ Seg(s \o t, Len(s), Len(s \o t)) = t
<1>1. /\ s \o t \in Seq(S) /\ Len(s \o t) = Len(s) + Len(t)
      /\ \A i \in 1 .. Len(s) : (s \o t)[i] = s[i]
      /\ \A i \in 1 .. Len(t) : (s \o t)[Len(s) + i] = t[i]
  OBVIOUS
<1>. DEFINE c == s \o t
<1>. HIDE DEF c
<1>2. /\ Seg(c, Len(s), Len(c)) \in Seq(S) /\ Len(Seg(c, Len(s), Len(c))) = Len(t)
      /\ \A i \in 1 .. Len(t) : Seg(c, Len(s), Len(c))[i] = c[Len(s) + i]
  <2>1. /\ c \in Seq(S) /\ Len(s) \in Nat /\ Len(c) \in Nat /\ Len(s) <= Len(c)
        /\ Len(c) <= Len(c) /\ Len(c) - Len(s) = Len(t)
    BY <1>1 DEF c
  <2>2. /\ Seg(c, Len(s), Len(c)) \in Seq(S)
        /\ Len(Seg(c, Len(s), Len(c))) = Len(c) - Len(s)
        /\ \A i \in 1 .. Len(c) - Len(s) : Seg(c, Len(s), Len(c))[i] = c[Len(s) + i]
    BY <2>1, SegIs
  <2>. QED  BY <2>1, <2>2
<1>3. Seg(c, Len(s), Len(c)) = t
  <2>1. \A i \in 1 .. Len(t) : c[Len(s) + i] = t[i]  BY <1>1 DEF c
  <2>. QED  BY <1>2, <2>1, SeqEqual
<1>. QED  BY <1>1, <1>3 DEF c, Agree

-----------------------------------------------------------------------------
(* What may be read. *)

(* The tokens read, the one looked at included.                            *)
Reads(a, rd) ==
  /\ rd \in Seq(DOMAIN a.most \cup {"EOF"}) /\ rd # <<>>
  /\ Len(rd) - 1 <= a.length
  /\ \A i \in 1 .. Len(rd) - 1 : rd[i] # "EOF"
  /\ \A t \in DOMAIN a.most \ {"EOF"} :
       Cardinality({i \in DOMAIN rd : rd[i] = t}) <= a.most[t]

(* The operators of the libraries, as Grammar has them. *)
LEMMA SameCardinality == ASSUME NEW S  PROVE G!Cardinality(S) = Cardinality(S)
BY Zenon DEF G!Cardinality, Cardinality, IsFiniteSet, G!IsFiniteSet

(* The elements of a sequence are the same in the grammar's library.       *)
LEMMA SameToSet == ASSUME NEW s  PROVE G!ToSet(s) = ToSet(s)
BY DEF G!ToSet, ToSet

(* What is made of some of the tokens read is within the alphabet.         *)
LEMMA ReadWithin ==
  ASSUME NEW a \in Alphabets, NEW rd, Reads(a, rd),
         NEW p \in Nat, NEW j \in Nat, p <= j, j <= Len(rd) - 1,
         NEW phrases, NEW s \in phrases, s.tokens = Seg(rd, p, j)
  PROVE  s \in G!Within(a, phrases)
<1>. DEFINE T == DOMAIN a.most \cup {"EOF"}
            w == Seg(rd, p, j)
<1>1. rd \in Seq(T) /\ Len(rd) \in Nat  BY DEF Reads
<1>2. /\ w \in Seq(T) /\ Len(w) = j - p /\ \A k \in 1 .. j - p : w[k] = rd[p + k]
  <2>1. j <= Len(rd)  BY <1>1
  <2>. HIDE DEF T
  <2>. QED  BY <1>1, <2>1, SegIs
<1>. HIDE DEF w
<1>. SUFFICES ASSUME NEW t \in ToSet(w)
              PROVE  /\ t \in DOMAIN a.most
                     /\ Cardinality({i \in DOMAIN w : w[i] = t}) <= a.most[t]
  BY SameCardinality, SameToSet DEF G!Within, w
<1>3. PICK k \in 1 .. j - p : w[k] = t  BY <1>2 DEF ToSet
<1>4. t \in T /\ t # "EOF"
  <2>1. p + k \in 1 .. Len(rd) - 1  BY <1>1
  <2>2. rd[p + k] = t  BY <1>2, <1>3
  <2>3. rd[p + k] \in T
    <3>. HIDE DEF T
    <3>. QED  BY <1>1, <2>1
  <2>. QED  BY <2>1, <2>2, <2>3 DEF Reads
<1>5. t \in DOMAIN a.most  BY <1>4
<1>. DEFINE A == {i \in DOMAIN w : w[i] = t}
            B == {i \in DOMAIN rd : rd[i] = t}
            f == [i \in A |-> p + i]
<1>6. IsFiniteSet(B) /\ Cardinality(B) <= a.most[t]
  <2>1. IsFiniteSet(1 .. Len(rd))  BY <1>1, FS_Interval
  <2>2. B \subseteq 1 .. Len(rd)  BY <1>1
  <2>3. IsFiniteSet(B)  BY <2>1, <2>2, FS_Subset
  <2>. QED  BY <1>4, <1>5, <2>3 DEF Reads
<1>7. f \in Injection(A, B)
  <2>1. \A i \in A : i \in Nat /\ f[i] \in B
    <3>. SUFFICES ASSUME NEW i \in A  PROVE i \in Nat /\ p + i \in B
      OBVIOUS
    <3>1. i \in 1 .. j - p /\ w[i] = t  BY <1>2
    <3>2. p + i \in 1 .. Len(rd)  BY <1>1, <3>1
    <3>. QED  BY <1>1, <1>2, <3>1, <3>2
  <2>2. \A i, k2 \in A : f[i] = f[k2] => i = k2  BY <2>1
  <2>. QED  BY <2>1, <2>2 DEF Injection, IsInjective
<1>8. Cardinality(A) <= Cardinality(B) /\ Cardinality(A) \in Nat /\ Cardinality(B) \in Nat
  BY <1>6, <1>7, FS_Injection, FS_CardinalityType
<1>9. a.most[t] \in Nat  BY <1>5, ParserAssumption
<1>. QED  BY <1>5, <1>6, <1>8, <1>9

-----------------------------------------------------------------------------
(* The bytes of the code, and the operators. *)

Bytes == 0 .. MaxByte

(* The binary operators, as the rules of the parser have them.             *)
BinaryTokens ==
  {"AND", "OR", "EQ", "NOTEQ", "GE", "LE", ">", "<", "+", "-", "CONCAT",
   "*", "/", "^", "IDIV", "%"}
UnaryTokens == {"-", "!", "INC", "DEC"}

(* The precedences of the operators.                                       *)
LEMMA Precedences ==
  ASSUME NEW t
  PROVE  /\ Precedence(t) \in 0 .. 9
         /\ Precedence(t) >= 1 /\ Infix(t) = "binary" => t \in BinaryTokens
         /\ t \in BinaryTokens => Precedence(t) \in 3 .. 7
         /\ t \in UnaryTokens => Precedence(t) \in 6 .. 8
<1>1. Precedence(t) >= 1 =>
        t \in {"AND", "OR", "EQ", "NOTEQ", "GE", "LE", ">", "<", "+", "-", "CONCAT",
               "*", "/", "^", "IDIV", "%", "INC", "DEC", "!", "("}
  BY DEF Precedence, Level
<1>2. Precedence(t) \in 0 .. 9
  BY DEF Precedence, Level
<1>3. Precedence(t) >= 1 /\ Infix(t) = "binary" => t \in BinaryTokens
  BY <1>1 DEF Infix, BinaryTokens
<1>4. t \in BinaryTokens => Precedence(t) \in 3 .. 7
  BY DEF Precedence, Level, BinaryTokens
<1>5. t \in UnaryTokens => Precedence(t) \in 6 .. 8
  BY DEF Precedence, Level, UnaryTokens
<1>. QED  BY <1>2, <1>3, <1>4, <1>5

(* Short sequences. *)
LEMMA Pairs ==
  ASSUME NEW d, NEW e, NEW f
  PROVE  /\ <<d>> \o <<e>> = <<d, e>>
         /\ <<d>> \o <<e, f>> = <<d, e, f>>
         /\ <<d>> \o (<<e>> \o <<f>>) = <<d, e, f>>
<1>. DEFINE R == {d, e, f}
<1>1. /\ d \in R /\ e \in R /\ f \in R  OBVIOUS
<1>. HIDE DEF R
<1>2. /\ <<d>> \in Seq(R) /\ <<e>> \in Seq(R) /\ <<f>> \in Seq(R) /\ <<e, f>> \in Seq(R)
      /\ <<d, e>> \in Seq(R) /\ <<d, e, f>> \in Seq(R)
  BY <1>1
<1>3. \A x, y : x \in R /\ y \in R => <<x>> \o <<y>> = <<x, y>>
  <2>. SUFFICES ASSUME NEW x \in R, NEW y \in R  PROVE <<x>> \o <<y>> = <<x, y>>
    OBVIOUS
  <2>1. <<x>> \in Seq(R) /\ <<y>> \in Seq(R) /\ <<x, y>> \in Seq(R)  OBVIOUS
  <2>2. <<x>> \o <<y>> \in Seq(R) /\ Len(<<x>> \o <<y>>) = 2  BY <2>1
  <2>3. \A i \in 1 .. 2 : (<<x>> \o <<y>>)[i] = <<x, y>>[i]  BY <2>1
  <2>. QED  BY <2>1, <2>2, <2>3, SeqEqual
<1>4. <<d>> \o <<e, f>> = <<d, e, f>>
  <2>1. <<d>> \o <<e, f>> \in Seq(R) /\ Len(<<d>> \o <<e, f>>) = 3  BY <1>2
  <2>2. \A i \in 1 .. 3 : (<<d>> \o <<e, f>>)[i] = <<d, e, f>>[i]  BY <1>2
  <2>. QED  BY <1>2, <2>1, <2>2, SeqEqual
<1>. QED  BY <1>1, <1>3, <1>4

(* Two calls and a third.                                                  *)
LEMMA Triple ==
  ASSUME NEW d, NEW e, NEW f
  PROVE  <<d, e>> \o <<f>> = <<d, e, f>>
<1>. DEFINE R == {d, e, f}
<1>1. d \in R /\ e \in R /\ f \in R  OBVIOUS
<1>. HIDE DEF R
<1>2. <<d, e>> \in Seq(R) /\ <<f>> \in Seq(R) /\ <<d, e, f>> \in Seq(R)  BY <1>1
<1>3. <<d, e>> \o <<f>> \in Seq(R) /\ Len(<<d, e>> \o <<f>>) = 3  BY <1>2
<1>4. \A i \in 1 .. 3 : (<<d, e>> \o <<f>>)[i] = <<d, e, f>>[i]  BY <1>2
<1>. QED  BY <1>2, <1>3, <1>4, SeqEqual

(* Calls put before the others one by one, or all at once.                 *)
LEMMA Regrouped ==
  ASSUME NEW S, NEW rest \in Seq(S), NEW d, NEW e, NEW f
  PROVE  /\ <<>> \o rest = rest
         /\ <<d>> \o (<<e>> \o rest) = <<d, e>> \o rest
         /\ <<d>> \o (<<e>> \o (<<f>> \o rest)) = <<d, e, f>> \o rest
<1>. DEFINE R == S \cup {d, e, f}
<1>1. rest \in Seq(R) /\ <<d>> \in Seq(R) /\ <<e>> \in Seq(R) /\ <<f>> \in Seq(R)
  OBVIOUS
<1>2. <<e>> \o <<f>> \in Seq(R) /\ <<f>> \o rest \in Seq(R)  BY <1>1
<1>. HIDE DEF R
<1>3. <<>> \o rest = rest  OBVIOUS
<1>4. <<d>> \o (<<e>> \o rest) = (<<d>> \o <<e>>) \o rest  BY <1>1
<1>5. <<e>> \o (<<f>> \o rest) = (<<e>> \o <<f>>) \o rest  BY <1>1
<1>6. <<d>> \o ((<<e>> \o <<f>>) \o rest) = (<<d>> \o (<<e>> \o <<f>>)) \o rest
  BY <1>1, <1>2
<1>. QED  BY <1>3, <1>4, <1>5, <1>6, Pairs

-----------------------------------------------------------------------------
(* What is emitted are bytes. *)

(* What is left of a number divided by 256 is a byte.                      *)
LEMMA ByteRange ==
  /\ Byte \in Nat \ {0} /\ MaxByte \in Bytes
  /\ \A n \in Int : n % Byte \in Bytes /\ n \div Byte \in Int
<1>1. Byte \in Nat \ {0} /\ MaxByte = Byte - 1
  BY BytecodeAssumption DEF MaxByte, OpNames
<1>2. \A n \in Int : n % Byte \in 0 .. Byte - 1 /\ n \div Byte \in Int  BY <1>1
<1>. QED  BY <1>1, <1>2 DEF Bytes

EmittedOps ==
  {"CONSTANT", "CONSTANT_LONG", "ADD", "MUL", "SUB", "DIV", "MOD", "IDIV", "NEG", "NOT",
   "POW", "AND", "OR", "GE", "LE", "GT", "LT", "EQ", "CONCAT", "JMP", "JMPF", "NJMP",
   "SETGLOBAL", "LOADGLOBAL", "CALL", "PRINT", "RETURN", "POP", "WIDE", "HALT"}

(* Every instruction the parser emits has an opcode of one byte.           *)
LEMMA OpcodeByte ==
  ASSUME NEW op \in EmittedOps
  PROVE  Opcode(op) \in Bytes
<1>1. DOMAIN OpNames = 1 .. 32 /\ Len(OpNames) = 32  BY DEF OpNames
<1>2. \E i \in 1 .. 32 : OpNames[i] = op  BY DEF EmittedOps, OpNames
<1>. DEFINE k == CHOOSE i \in DOMAIN OpNames : OpNames[i] = op
<1>3. k \in 1 .. 32  BY <1>1, <1>2
<1>4. Opcode(op) = k - 1  BY DEF Opcode
<1>. HIDE DEF k
<1>. QED  BY <1>1, <1>3, <1>4, BytecodeAssumption DEF MaxByte, Bytes

(* An index is emitted in three bytes.                                     *)
LEMMA U24Range ==
  ASSUME NEW n \in Nat
  PROVE  U24Bytes(n) \in Seq(Bytes)
<1>1. Byte * Byte \in Nat \ {0}  BY ByteRange
<1>2. n \div (Byte * Byte) \in Int /\ n \div Byte \in Int  BY <1>1, ByteRange
<1>. DEFINE x == n % Byte
            y == (n \div Byte) % Byte
            z == (n \div (Byte * Byte)) % Byte
<1>3. x \in Bytes /\ y \in Bytes /\ z \in Bytes  BY <1>2, ByteRange
<1>4. U24Bytes(n) = <<x, y, z>>  BY DEF U24Bytes
<1>. HIDE DEF x, y, z
<1>. QED  BY <1>3, <1>4

(* Loading a constant is emitted in bytes.                                 *)
LEMMA ConstantBytes ==
  ASSUME NEW i \in Nat
  PROVE  ConstantCode(i) \in Seq(Bytes)
<1>1. /\ Opcode("CONSTANT") \in Bytes /\ Opcode("CONSTANT_LONG") \in Bytes
      /\ Bytes = 0 .. MaxByte /\ MaxByte \in Int
  BY OpcodeByte, ByteRange DEF EmittedOps, Bytes
<1>2. CASE i <= MaxByte
  <2>1. i \in Bytes  BY <1>1, <1>2
  <2>. QED  BY <1>1, <1>2, <2>1 DEF ConstantCode
<1>3. CASE ~ (i <= MaxByte)
  <2>1. <<Opcode("CONSTANT_LONG")>> \in Seq(Bytes)  BY <1>1
  <2>2. U24Bytes(i) \in Seq(Bytes)  BY U24Range
  <2>3. ConstantCode(i) = <<Opcode("CONSTANT_LONG")>> \o U24Bytes(i)
    BY <1>3 DEF ConstantCode
  <2>. QED  BY <2>1, <2>2, <2>3
<1>. QED  BY <1>2, <1>3

(* So is an instruction that has a name for an operand.                    *)
LEMMA OperandBytes ==
  ASSUME NEW op \in {"SETGLOBAL", "LOADGLOBAL"}, NEW i \in Nat
  PROVE  OperandCode(op, i) \in Seq(Bytes)
<1>1. /\ Opcode(op) \in Bytes /\ Opcode("WIDE") \in Bytes
      /\ Bytes = 0 .. MaxByte /\ MaxByte \in Int
  BY OpcodeByte, ByteRange DEF EmittedOps, Bytes
<1>2. CASE i <= MaxByte
  <2>1. i \in Bytes  BY <1>1, <1>2
  <2>. QED  BY <1>1, <1>2, <2>1 DEF OperandCode
<1>3. CASE ~ (i <= MaxByte)
  <2>1. <<Opcode("WIDE"), Opcode(op)>> \in Seq(Bytes)  BY <1>1
  <2>2. U24Bytes(i) \in Seq(Bytes)  BY U24Range
  <2>3. OperandCode(op, i) = <<Opcode("WIDE"), Opcode(op)>> \o U24Bytes(i)
    BY <1>3 DEF OperandCode
  <2>. QED  BY <2>1, <2>2, <2>3
<1>. QED  BY <1>2, <1>3

(* Every name and literal has an index in the chunk.                       *)
LEMMA IndexOf ==
  /\ \A x \in Names \cup Literals : Index[x] \in Nat
  /\ Index["void"] \in Nat /\ Index["one"] \in Nat
BY ParserAssumption

(* An instruction without operands is a byte.                              *)
LEMMA OneByte ==
  ASSUME NEW op \in EmittedOps
  PROVE  <<Opcode(op)>> \in Seq(Bytes)
BY OpcodeByte

(* What a step and a prefix operator emit are bytes.                       *)
LEMMA StepsBytes ==
  ASSUME NEW t
  PROVE  StepBytes(t) \in Seq(Bytes) /\ UnaryBytes(t) \in Seq(Bytes)
<1>1. ConstantCode(Index["one"]) \in Seq(Bytes)  BY IndexOf, ConstantBytes
<1>2. <<Opcode(IF t = "INC" THEN "ADD" ELSE "SUB")>> \in Seq(Bytes)
  BY OneByte DEF EmittedOps
<1>3. StepBytes(t) \in Seq(Bytes)  BY <1>1, <1>2 DEF StepBytes
<1>4. <<Opcode("NEG")>> \in Seq(Bytes) /\ <<Opcode("NOT")>> \in Seq(Bytes)
  BY OneByte DEF EmittedOps
<1>. QED  BY <1>3, <1>4 DEF UnaryBytes

(* Each binary operator has an instruction, and `!=` has two.              *)
LEMMA BinaryOps ==
  ASSUME NEW t \in BinaryTokens
  PROVE  /\ t = "NOTEQ" => BinaryBytes(t) = <<Opcode("EQ"), Opcode("NOT")>>
         /\ t # "NOTEQ" => BinaryBytes(t) = <<Opcode(G!Opname(t))>>
         /\ G!Opname(t) \in EmittedOps \cup {"NEQ"}
         /\ t # "NOTEQ" => G!Opname(t) # "NEQ"
<1>1. CASE t \in DOMAIN Operation
  BY <1>1 DEF BinaryBytes, Operation, G!Opname, EmittedOps
<1>2. CASE t \in {"+", "-", "*", "/", "^", "%", ">", "<"}
  <2>. DEFINE s == CHOOSE x \in Symbols : x[1] = t
  <2>1. \E x \in Symbols : x[1] = t  BY <1>2 DEF Symbols
  <2>2. s \in Symbols /\ s[1] = t  BY <2>1
  <2>3. BinaryBytes(t) = <<Opcode(s[2])>>  BY <1>2 DEF BinaryBytes, Operation
  <2>. HIDE DEF s
  <2>4. s[2] = G!Opname(t) /\ G!Opname(t) \in EmittedOps
    BY <1>2, <2>2 DEF Symbols, G!Opname, EmittedOps
  <2>. QED  BY <1>2, <2>3, <2>4 DEF EmittedOps
<1>3. CASE t = "NOTEQ"
  <2>1. t \notin DOMAIN Operation  BY <1>3 DEF Operation
  <2>2. BinaryBytes(t) = <<Opcode("EQ"), Opcode("NOT")>>  BY <1>3, <2>1 DEF BinaryBytes
  <2>3. G!Opname("NOTEQ") = "NEQ"  BY DEF G!Opname
  <2>. QED  BY <1>3, <2>2, <2>3
<1>. QED  BY <1>1, <1>2, <1>3 DEF BinaryTokens, Operation

(* What a binary operator emits are bytes.                                 *)
LEMMA BinarysBytes ==
  ASSUME NEW t \in BinaryTokens
  PROVE  BinaryBytes(t) \in Seq(Bytes)
<1>1. CASE t = "NOTEQ"
  <2>1. Opcode("EQ") \in Bytes /\ Opcode("NOT") \in Bytes  BY OpcodeByte DEF EmittedOps
  <2>2. BinaryBytes(t) = <<Opcode("EQ"), Opcode("NOT")>>  BY <1>1, BinaryOps
  <2>. QED  BY <2>1, <2>2
<1>2. CASE t # "NOTEQ"
  <2>1. G!Opname(t) \in EmittedOps  BY <1>2, BinaryOps
  <2>. QED  BY <1>2, <2>1, BinaryOps, OneByte
<1>. QED  BY <1>1, <1>2

(* A jump is emitted in three bytes.                                       *)
LEMMA JumpBytes ==
  ASSUME NEW op \in {"JMP", "JMPF"}
  PROVE  JumpCode(op) \in Seq(Bytes) /\ Len(JumpCode(op)) = 3
<1>1. Opcode(op) \in Bytes /\ MaxByte \in Bytes  BY OpcodeByte, ByteRange DEF EmittedOps
<1>. QED  BY <1>1 DEF JumpCode

Put(c, i, x) == [c EXCEPT ![i] = x]

(* Overwriting a byte changes no other, and not the length.                *)
LEMMA BytePut ==
  ASSUME NEW S, NEW c \in Seq(S), NEW i, NEW x \in S
  PROVE  /\ Put(c, i, x) \in Seq(S) /\ Len(Put(c, i, x)) = Len(c)
         /\ \A k \in 1 .. Len(c) : Put(c, i, x)[k] = IF k = i THEN x ELSE c[k]
<1>. DEFINE n == Len(c)
            d == [c EXCEPT ![i] = x]
<1>1. n \in Nat /\ c \in [1 .. n -> S]  OBVIOUS
<1>. HIDE DEF n
<1>2. d \in [1 .. n -> S] /\ \A k \in 1 .. n : d[k] = IF k = i THEN x ELSE c[k]
  BY <1>1
<1>. HIDE DEF d
<1>3. d \in Seq(S) /\ Len(d) = n  BY <1>1, <1>2
<1>. QED  BY <1>2, <1>3 DEF n, d, Put

(* The bytes of the distance are put behind the opcode of the jump.        *)
PutShort(c, h, d) == Put(Put(c, h + 1, (d \div Byte) % Byte), h + 2, d % Byte)

(* Patching a jump overwrites its two bytes.                               *)
LEMMA PatchedIs ==
  ASSUME NEW c, NEW h
  PROVE  Patched(c, h) = PutShort(c, h, PatchedDistance(c, h))
BY DEF Patched, PutShort, Put

(* Those two bytes, and the ones that stay.                                *)
LEMMA PutShortBytes ==
  ASSUME NEW c \in Seq(Bytes), NEW h \in Nat, NEW d \in Int
  PROVE  /\ PutShort(c, h, d) \in Seq(Bytes) /\ Len(PutShort(c, h, d)) = Len(c)
         /\ \A k \in 1 .. Len(c) :
              PutShort(c, h, d)[k] = IF k = h + 1 THEN (d \div Byte) % Byte
                                     ELSE IF k = h + 2 THEN d % Byte ELSE c[k]
<1>. DEFINE x == (d \div Byte) % Byte
            y == d % Byte
            b == Put(c, h + 1, x)
<1>1. x \in Bytes /\ y \in Bytes  BY ByteRange
<1>. HIDE DEF x, y
<1>2. /\ b \in Seq(Bytes) /\ Len(b) = Len(c)
      /\ \A k \in 1 .. Len(c) : b[k] = IF k = h + 1 THEN x ELSE c[k]
  BY <1>1, BytePut
<1>. HIDE DEF b
<1>3. /\ Put(b, h + 2, y) \in Seq(Bytes) /\ Len(Put(b, h + 2, y)) = Len(b)
      /\ \A k \in 1 .. Len(b) : Put(b, h + 2, y)[k] = IF k = h + 2 THEN y ELSE b[k]
  BY <1>1, <1>2, BytePut
<1>4. h + 1 # h + 2  OBVIOUS
<1>5. PutShort(c, h, d) = Put(b, h + 2, y)  BY DEF PutShort, b, x, y
<1>. QED  BY <1>2, <1>3, <1>4, <1>5 DEF x, y

(* What a patch leaves are bytes, as many as before.                       *)
LEMMA PatchedBytes ==
  ASSUME NEW c \in Seq(Bytes), NEW h \in Nat
  PROVE  Patched(c, h) \in Seq(Bytes) /\ Len(Patched(c, h)) = Len(c)
<1>1. PatchedDistance(c, h) \in Int  BY DEF PatchedDistance
<1>. QED  BY <1>1, PatchedIs, PutShortBytes

(* A jump back adds three bytes.                                           *)
LEMMA LoopBytes ==
  ASSUME code \in Seq(Bytes), NEW start \in Nat
  PROVE  WithLoop(start) \in Seq(Bytes) /\ Len(WithLoop(start)) = Len(code) + 3
<1>. DEFINE d == Len(code) + 3 - start
            x == (d \div Byte) % Byte
            y == d % Byte
            z == Opcode("NJMP")
<1>1. d \in Int  OBVIOUS
<1>2. WithLoop(start) = code \o <<z, x, y>>  BY DEF WithLoop
<1>. HIDE DEF d
<1>3. x \in Bytes /\ y \in Bytes /\ z \in Bytes  BY <1>1, ByteRange, OpcodeByte DEF EmittedOps
<1>. HIDE DEF x, y, z
<1>4. <<z, x, y>> \in Seq(Bytes) /\ Len(<<z, x, y>>) = 3  BY <1>3
<1>. QED  BY <1>2, <1>4

(* So does a jump forward, and its hole is in the code.                    *)
LEMMA WithJumpBytes ==
  ASSUME code \in Seq(Bytes), NEW op \in {"JMP", "JMPF"}
  PROVE  WithJump(op) \in Seq(Bytes) /\ Len(WithJump(op)) = Len(code) + 3 /\ Hole \in Nat
<1>. DEFINE j == JumpCode(op)
<1>1. j \in Seq(Bytes) /\ Len(j) = 3  BY JumpBytes
<1>2. WithJump(op) = code \o j  BY DEF WithJump
<1>. HIDE DEF j
<1>3. code \o j \in Seq(Bytes) /\ Len(code \o j) = Len(code) + Len(j)  BY <1>1, SegBehind
<1>4. Hole \in Nat  BY DEF Hole
<1>. QED  BY <1>1, <1>2, <1>3, <1>4

-----------------------------------------------------------------------------
(* What the language has of the tokens read. *)

Tokens(a) == DOMAIN a.most

(* A token read before the last one is one of the alphabet's.              *)
LEMMA TokenRead ==
  ASSUME NEW a \in Alphabets, NEW rd, Reads(a, rd), NEW i \in Nat, i # 0, i <= Len(rd) - 1
  PROVE  rd[i] \in Tokens(a)
<1>1. i \in 1 .. Len(rd) - 1 /\ i \in 1 .. Len(rd)  BY DEF Reads
<1>. QED  BY <1>1 DEF Reads, Tokens

(* What a rule of the grammar makes, for as many tokens as were read, is   *)
(* in the language of the alphabet.                                        *)
LEMMA Composes ==
  ASSUME NEW a \in Alphabets, NEW rd, Reads(a, rd),
         NEW p \in Nat, NEW j \in Nat, p < j, j <= Len(rd) - 1,
         NEW s, s.tokens = Seg(rd, p, j)
  PROVE  LET L == Language[a]
             n == j - p
         IN  /\ s \in G!Exprs(Tokens(a), L, n)    => s \in L.exprs[n]
             /\ s \in G!ArgLists(Tokens(a), L, n) => s \in L.args[n]
             /\ s \in G!Stmts(Tokens(a), L, n)    => s \in L.stmts[n]
             /\ s \in G!Lists(L, n)               => s \in L.lists[n]
<1>. DEFINE L == Language[a]
            n == j - p
<1>1. n \in 1 .. a.length
  <2>1. Len(rd) \in Nat /\ Len(rd) - 1 <= a.length /\ a.length \in Nat
    BY ParserAssumption DEF Reads
  <2>. QED  BY <2>1
<1>2. \A phrases : s \in phrases => s \in G!Within(a, phrases)
  <2>1. p <= j  OBVIOUS
  <2>. QED  BY <2>1, ReadWithin
<1>3. G!IsLanguage(a, L)  BY ParserAssumption
<1>. HIDE DEF L, n
<1>4. /\ G!Within(a, G!Exprs(Tokens(a), L, n)) \subseteq L.exprs[n]
      /\ G!Within(a, G!ArgLists(Tokens(a), L, n)) \subseteq L.args[n]
      /\ G!Within(a, G!Stmts(Tokens(a), L, n)) \subseteq L.stmts[n]
      /\ G!Within(a, G!Lists(L, n)) \subseteq L.lists[n]
  BY <1>1, <1>3 DEF G!IsLanguage, Tokens
<1>. QED  BY <1>2, <1>4, Zenon DEF L, n

(* Neighbours. *)
LEMMA SegBetween ==
  ASSUME NEW S, NEW s \in Seq(S), NEW i \in Nat, NEW j \in Nat, NEW k \in Nat,
         i <= j, j < k, k <= Len(s)
  PROVE  /\ Seg(s, i, j) \o <<s[j + 1]>> \o Seg(s, j + 1, k) = Seg(s, i, k)
         /\ Seg(s, i, j) \o <<s[j + 1]>> = Seg(s, i, j + 1)
         /\ <<s[j + 1]>> \o Seg(s, j + 1, k) = Seg(s, j, k)
<1>1. j + 1 \in Nat /\ j <= j + 1 /\ j + 1 <= k /\ j < Len(s) /\ i <= j + 1 /\ j + 1 <= Len(s)
  OBVIOUS
<1>2. Seg(s, j, j + 1) = <<s[j + 1]>>  BY <1>1, SegOne
<1>3. Seg(s, i, j + 1) = Seg(s, i, j) \o Seg(s, j, j + 1)  BY <1>1, SegCat
<1>4. Seg(s, i, k) = Seg(s, i, j + 1) \o Seg(s, j + 1, k)  BY <1>1, SegCat
<1>5. Seg(s, j, k) = Seg(s, j, j + 1) \o Seg(s, j + 1, k)  BY <1>1, SegCat
<1>. QED  BY <1>2, <1>3, <1>4, <1>5

-----------------------------------------------------------------------------
(* The phrases of a language among the tokens read and the code emitted:   *)
(* from behind the p-th token to the j-th, and from behind the q-th byte   *)
(* to the r-th.  The token behind a phrase is known, and does not continue *)
(* it.                                                                     *)

Span(rd, cd, p, j, q, r) ==
  /\ p \in Nat /\ j \in Nat /\ q \in Nat /\ r \in Nat
  /\ p <= j /\ j < Len(rd) /\ q <= r /\ r <= Len(cd)

(* An expression that may be an operand at a level, before a token.        *)
Ranked(e, level, t) ==
  e.low \in Nat /\ e.edge \in Nat /\ e.low >= level /\ Precedence(t) < e.edge
Operand(L, rd, cd, p, j, q, r, level) ==
  /\ Span(rd, cd, p, j, q, r) /\ p < j
  /\ \E e \in L.exprs[j - p] :
       /\ e.tokens = Seg(rd, p, j) /\ e.code = Seg(cd, q, r)
       /\ Ranked(e, level, rd[j + 1])

(* ... and that ends there. *)
Value(L, rd, cd, p, j, q, r, level) ==
  /\ Operand(L, rd, cd, p, j, q, r, level)
  /\ Precedence(rd[j + 1]) < level
  /\ level <= 1 => rd[j + 1] # "="

Arguments(L, rd, cd, p, j, q, r, count) ==
  /\ Span(rd, cd, p, j, q, r) /\ p < j
  /\ \E l \in L.args[j - p] :
       l.tokens = Seg(rd, p, j) /\ l.args.code = Seg(cd, q, r) /\ l.args.count = count

(* What may stand before another argument, and the number of arguments.    *)
Passed(L, rd, cd, p, j, q, r, count) ==
  \/ count = 0 /\ j = p /\ r = q /\ Span(rd, cd, p, j, q, r)
  \/ count # 0 /\ j # 0 /\ rd[j] = "COMMA" /\ Arguments(L, rd, cd, p, j - 1, q, r, count)

Statement(L, rd, cd, p, j, q, r) ==
  /\ Span(rd, cd, p, j, q, r) /\ p < j
  /\ \E s \in L.stmts[j - p] :
       s.tokens = Seg(rd, p, j) /\ s.code = Seg(cd, q, r) /\ rd[j + 1] \notin s.excluded

List(L, rd, cd, p, j, q, r) ==
  /\ Span(rd, cd, p, j, q, r)
  /\ \E s \in L.lists[j - p] :
       s.tokens = Seg(rd, p, j) /\ s.code = Seg(cd, q, r) /\ rd[j + 1] \notin s.excluded

(* The initial statement of a for, its condition, its increment.           *)
Initial(L, rd, cd, p, j, q, r) ==
  /\ Span(rd, cd, p, j, q, r) /\ p < j /\ rd[j] = "SEMICOLON"
  /\ \/ j = p + 1 /\ r = q
     \/ rd[p + 1] # "SEMICOLON" /\ Statement(L, rd, cd, p, j - 1, q, r)

Condition(L, rd, cd, p, j, q, r) ==
  /\ Span(rd, cd, p, j, q, r) /\ p < j /\ rd[j] = "SEMICOLON"
  /\ Value(L, rd, cd, p, j - 1, q, r, 1)

StatCode == <<Opcode(IF REPL THEN "PRINT" ELSE "POP")>>
Increment(L, rd, cd, p, j, q, r) ==
  /\ Span(rd, cd, p, j, q, r)
  /\ \/ j = p /\ r = q /\ rd[j + 1] = "LBRACE"
     \/ \E u \in q .. r : Value(L, rd, cd, p, j, q, u, 1) /\ Seg(cd, u, r) = StatCode

(* Anything for a brace, and what is in the block. *)
Body(L, rd, cd, p, j, q, r) ==
  /\ Span(rd, cd, p, j, q, r) /\ p + 1 < j /\ rd[j] = "RBRACE"
  /\ List(L, rd, cd, p + 1, j - 1, q, r)

(* Three stretches make one. *)
LEMMA SegThree ==
  ASSUME NEW S, NEW s \in Seq(S), NEW i \in Nat, NEW j \in Nat, NEW k \in Nat, NEW l \in Nat,
         i <= j, j <= k, k <= l, l <= Len(s)
  PROVE  Seg(s, i, l) = Seg(s, i, j) \o Seg(s, j, k) \o Seg(s, k, l)
<1>1. k <= Len(s) /\ i <= k  OBVIOUS
<1>2. Seg(s, i, k) = Seg(s, i, j) \o Seg(s, j, k)  BY <1>1, SegCat
<1>3. Seg(s, i, l) = Seg(s, i, k) \o Seg(s, k, l)  BY <1>1, SegCat
<1>. QED  BY <1>2, <1>3

(* A stretch begins with its first element.                                *)
LEMMA SegFirst ==
  ASSUME NEW S, NEW s \in Seq(S), NEW i \in Nat, NEW j, j = i + 1, NEW k \in Nat,
         j <= k, k <= Len(s)
  PROVE  Seg(s, i, k) = <<s[j]>> \o Seg(s, j, k)
<1>1. i <= i /\ i < k  OBVIOUS
<1>2. <<s[i + 1]>> \o Seg(s, i + 1, k) = Seg(s, i, k)  BY <1>1, SegBetween
<1>. QED  BY <1>2

(* It ends with its last.                                                  *)
LEMMA SegLast ==
  ASSUME NEW S, NEW s \in Seq(S), NEW i \in Nat, NEW j \in Nat, i <= j, NEW k, k = j + 1,
         k <= Len(s)
  PROVE  Seg(s, i, k) = Seg(s, i, j) \o <<s[k]>>
<1>1. k \in Nat /\ j < k  OBVIOUS
<1>2. Seg(s, i, j) \o <<s[j + 1]>> = Seg(s, i, j + 1)  BY <1>1, SegBetween
<1>. QED  BY <1>2

(* It can be split around any of them.                                     *)
LEMMA SegMiddle ==
  ASSUME NEW S, NEW s \in Seq(S), NEW i \in Nat, NEW j \in Nat, i <= j, NEW k, k = j + 1,
         NEW l \in Nat, k <= l, l <= Len(s)
  PROVE  Seg(s, i, l) = Seg(s, i, j) \o <<s[k]>> \o Seg(s, k, l)
<1>1. j < l  OBVIOUS
<1>2. Seg(s, i, j) \o <<s[j + 1]>> \o Seg(s, j + 1, l) = Seg(s, i, l)  BY <1>1, SegBetween
<1>. QED  BY <1>2

(* A stretch cut in two or in three.                                       *)
Cut(s, i, j, k) ==
  /\ \E S : s \in Seq(S)
  /\ i \in Nat /\ j \in Nat /\ k \in Nat /\ i <= j /\ j <= k /\ k <= Len(s)

(* A stretch that is cut once.                                             *)
LEMMA CutInTwo ==
  ASSUME NEW s, NEW i, NEW j, NEW k, Cut(s, i, j, k)
  PROVE  Seg(s, i, k) = Seg(s, i, j) \o Seg(s, j, k)
<1>1. PICK S : s \in Seq(S)  BY DEF Cut
<1>2. i \in Nat /\ j \in Nat /\ k \in Nat /\ i <= j /\ j <= k /\ k <= Len(s)  BY DEF Cut
<1>. QED  BY <1>1, <1>2, SegCat

(* A stretch that is cut twice.                                            *)
LEMMA CutInThree ==
  ASSUME NEW s, NEW i, NEW j, NEW k, NEW l, Cut(s, i, j, k), Cut(s, i, k, l)
  PROVE  Seg(s, i, l) = Seg(s, i, j) \o Seg(s, j, k) \o Seg(s, k, l)
<1>1. Seg(s, i, k) = Seg(s, i, j) \o Seg(s, j, k)  BY CutInTwo
<1>2. Seg(s, i, l) = Seg(s, i, k) \o Seg(s, k, l)  BY CutInTwo
<1>. QED  BY <1>1, <1>2, Zenon

-----------------------------------------------------------------------------
(* What Codegen emits is what the parser emits. *)

(* The opcodes are the same in the grammar.                                *)
LEMMA SameOpcode == ASSUME NEW op  PROVE G!Opcode(op) = Opcode(op)
BY DEF G!Opcode, Opcode, G!OpNames, OpNames

(* So are the instructions with operands.                                  *)
LEMMA SameOperands ==
  ASSUME NEW i
  PROVE  /\ G!LoadName(i) = OperandCode("LOADGLOBAL", i)
         /\ G!Literal(i) = ConstantCode(i)
         /\ \A e : G!AssignName(i, e) = e \o OperandCode("SETGLOBAL", i)
<1>1. G!U24Bytes(i) = U24Bytes(i)  BY DEF G!U24Bytes, U24Bytes
<1>2. G!MaxByte = MaxByte  BY DEF G!MaxByte, MaxByte
<1>3. \A op : G!OperandCode(op, i) = OperandCode(op, i)
  BY <1>1, <1>2, SameOpcode DEF G!OperandCode, OperandCode
<1>4. G!ConstantCode(i) = ConstantCode(i)
  BY <1>1, <1>2, SameOpcode DEF G!ConstantCode, ConstantCode
<1>. QED  BY <1>3, <1>4 DEF G!LoadName, G!Literal, G!AssignName

(* So are those without.                                                   *)
LEMMA SameEmit == ASSUME NEW op  PROVE G!Emit(op) = <<Opcode(op)>>
BY SameOpcode DEF G!Emit

(* A binary operator emits what the grammar says, after its operands.      *)
LEMMA SameBinary ==
  ASSUME NEW t \in BinaryTokens, NEW a \in Seq(Bytes), NEW b \in Seq(Bytes)
  PROVE  G!BinaryCode(G!Opname(t), a, b) = a \o b \o BinaryBytes(t)
<1>1. CASE t = "NOTEQ"
  <2>1. G!Opname(t) = "NEQ"  BY <1>1 DEF G!Opname
  <2>2. BinaryBytes(t) = <<Opcode("EQ"), Opcode("NOT")>>  BY <1>1, BinaryOps
  <2>3. G!Emit("EQ") \o G!Emit("NOT") = <<Opcode("EQ"), Opcode("NOT")>>
    BY SameEmit, Pairs
  <2>. QED  BY <2>1, <2>2, <2>3 DEF G!BinaryCode
<1>2. CASE t # "NOTEQ"
  <2>1. BinaryBytes(t) = G!Emit(G!Opname(t)) /\ G!Opname(t) # "NEQ"
    BY <1>2, BinaryOps, SameEmit
  <2>. QED  BY <2>1 DEF G!BinaryCode
<1>. QED  BY <1>1, <1>2

(* So do a step and a prefix operator.                                     *)
LEMMA SameSteps ==
  ASSUME NEW t, NEW e \in Seq(Bytes)
  PROVE  /\ G!Stepped(t, e) = e \o StepBytes(t)
         /\ t \in UnaryTokens => G!Prefixed(t, e) = e \o UnaryBytes(t)
<1>. DEFINE c == ConstantCode(Index["one"])
            o == <<Opcode(IF t = "INC" THEN "ADD" ELSE "SUB")>>
<1>1. c \in Seq(Bytes)  BY IndexOf, ConstantBytes
<1>2. o \in Seq(Bytes)  BY OneByte DEF EmittedOps
<1>3. G!Stepped(t, e) = e \o c \o o  BY SameEmit, SameOperands DEF G!Stepped
<1>4. StepBytes(t) = c \o o  BY DEF StepBytes
<1>. HIDE DEF c, o
<1>5. e \o c \o o = e \o (c \o o)  BY <1>1, <1>2
<1>6. G!Stepped(t, e) = e \o StepBytes(t)  BY <1>3, <1>4, <1>5
<1>7. t \in UnaryTokens => G!Prefixed(t, e) = e \o UnaryBytes(t)
  BY <1>6, SameEmit DEF UnaryTokens, G!Prefixed, G!UnaryCode, UnaryBytes
<1>. QED  BY <1>6, <1>7

(* The levels of the grammar are the precedences of the parser.            *)
LEMMA SameLevels ==
  /\ G!Binaries = BinaryTokens
  /\ \A t \in BinaryTokens \cup UnaryTokens : G!LevelOf(t) = Precedence(t)
  /\ \A t : Precedence(t) >= 1 \/ t = "=" <=> t \in G!Continuing
<1>1. G!Binaries = BinaryTokens  BY DEF G!Binaries, BinaryTokens
<1>2. ASSUME NEW t \in BinaryTokens \cup UnaryTokens  PROVE G!LevelOf(t) = Precedence(t)
  BY DEF BinaryTokens, UnaryTokens, G!LevelOf, Precedence, Level
<1>3. ASSUME NEW t  PROVE Precedence(t) >= 1 \/ t = "=" <=> t \in G!Continuing
  BY DEF Precedence, Level, G!Continuing, G!Binaries
<1>. QED  BY <1>1, <1>2, <1>3

(* The grammar has an operator between two operands.                       *)
LEMMA BinaryMade ==
  ASSUME NEW T, NEW L, NEW n, NEW t \in T \cap G!Binaries, NEW i \in 1 .. n - 2,
         NEW x \in L.exprs[i], x.edge > G!LevelOf(t),
         NEW y \in L.exprs[n - 1 - i], y.low > G!LevelOf(t)
  PROVE  G!ExprOf(x.tokens \o <<t>> \o y.tokens, G!BinaryCode(G!Opname(t), x.code, y.code),
                  G!Lower(x.low, G!LevelOf(t)), G!Lower(G!LevelOf(t) + 1, y.edge))
           \in G!Exprs(T, L, n)
<1>. DEFINE e(a, f, b) ==
       G!ExprOf(a.tokens \o <<f>> \o b.tokens, G!BinaryCode(G!Opname(f), a.code, b.code),
                G!Lower(a.low, G!LevelOf(f)), G!Lower(G!LevelOf(f) + 1, b.edge))
     A(f, k) == {z \in L.exprs[k] : z.edge > G!LevelOf(f)}
     B(f, k) == {z \in L.exprs[n - 1 - k] : z.low > G!LevelOf(f)}
     F(f, k) == {e(a, f, b) : a \in A(f, k), b \in B(f, k)}
<1>1. x \in A(t, i) /\ y \in B(t, i)  OBVIOUS
<1>2. e(x, t, y) \in F(t, i)
  <2>. HIDE DEF e, A, B
  <2>. QED  BY <1>1
<1>3. e(x, t, y) \in UNION {F(f, k) : f \in T \cap G!Binaries, k \in 1 .. n - 2}
  <2>. HIDE DEF F, e
  <2>. QED  BY <1>2
<1>4. UNION {F(f, k) : f \in T \cap G!Binaries, k \in 1 .. n - 2} = G!BinaryExprs(T, L, n)
  BY SMT DEF G!BinaryExprs
<1>5. e(x, t, y) \in G!BinaryExprs(T, L, n)
  <2>. HIDE DEF e, F
  <2>. QED  BY <1>3, <1>4
<1>. HIDE DEF F
<1>. QED  BY <1>5, Zenon DEF G!Exprs

(* The grammar has names and literals.                                     *)
LEMMA AtomMade ==
  ASSUME NEW T, NEW L, NEW x \in T
  PROVE  /\ x \in Names => G!ExprOf(<<x>>, G!LoadName(Index[x]), 10, 10) \in G!Exprs(T, L, 1)
         /\ x \in Literals => G!ExprOf(<<x>>, G!Literal(Index[x]), 10, 10) \in G!Exprs(T, L, 1)
<1>. DEFINE f(y) == G!ExprOf(<<y>>, G!LoadName(Index[y]), 10, 10)
            g(y) == G!ExprOf(<<y>>, G!Literal(Index[y]), 10, 10)
<1>1. G!Atoms(T) = {f(y) : y \in T \cap Names} \cup {g(y) : y \in T \cap Literals}
  BY SMT DEF G!Atoms, G!Atomic
<1>. HIDE DEF f, g
<1>2. (x \in Names => f(x) \in G!Atoms(T)) /\ (x \in Literals => g(x) \in G!Atoms(T))
  BY <1>1
<1>3. G!Atoms(T) \subseteq G!Exprs(T, L, 1)  BY DEF G!Exprs
<1>. QED  BY <1>2, <1>3 DEF f, g

(* The grammar has a prefix operator before an operand.                    *)
LEMMA UnaryMade ==
  ASSUME NEW T, NEW L, NEW n \in Nat, n >= 2, NEW t \in T \cap UnaryTokens,
         NEW y \in L.exprs[n - 1], y.low > G!LevelOf(t)
  PROVE  G!ExprOf(<<t>> \o y.tokens, G!Prefixed(t, y.code), 10,
                  G!Lower(G!LevelOf(t) + 1, y.edge)) \in G!Exprs(T, L, n)
<1>. DEFINE e(f, b) == G!ExprOf(<<f>> \o b.tokens, G!Prefixed(f, b.code), 10,
                                G!Lower(G!LevelOf(f) + 1, b.edge))
            F(f) == {e(f, b) : b \in {z \in L.exprs[n - 1] : z.low > G!LevelOf(f)}}
<1>1. e(t, y) \in F(t)
  <2>. HIDE DEF e
  <2>. QED  OBVIOUS
<1>2. e(t, y) \in UNION {F(f) : f \in T \cap UnaryTokens}
  <2>. HIDE DEF F, e
  <2>. QED  BY <1>1
<1>3. UNION {F(f) : f \in T \cap UnaryTokens} = G!UnaryExprs(T, L, n)
  BY SMT DEF G!UnaryExprs, G!Atomic, UnaryTokens
<1>4. G!UnaryExprs(T, L, n) \subseteq G!Exprs(T, L, n)
  BY DEF G!Exprs
<1>. HIDE DEF e, F
<1>. QED  BY <1>2, <1>3, <1>4 DEF e

(* The grammar has a step behind an operand.                               *)
LEMMA PostfixMade ==
  ASSUME NEW T, NEW L, NEW n \in Nat, n >= 2, NEW t \in T \cap {"INC", "DEC"},
         NEW x \in L.exprs[n - 1], x.edge > 8
  PROVE  G!ExprOf(x.tokens \o <<t>>, G!Stepped(t, x.code), G!Lower(x.low, 8), 10)
           \in G!Exprs(T, L, n)
<1>. DEFINE e(a, f) == G!ExprOf(a.tokens \o <<f>>, G!Stepped(f, a.code), G!Lower(a.low, 8), 10)
            F(f) == {e(a, f) : a \in {z \in L.exprs[n - 1] : z.edge > 8}}
<1>1. e(x, t) \in F(t)
  <2>. HIDE DEF e
  <2>. QED  OBVIOUS
<1>2. e(x, t) \in UNION {F(f) : f \in T \cap {"INC", "DEC"}}
  <2>. HIDE DEF F, e
  <2>. QED  BY <1>1
<1>3. UNION {F(f) : f \in T \cap {"INC", "DEC"}} = G!PostfixExprs(T, L, n)
  BY SMT DEF G!PostfixExprs, G!Atomic
<1>4. G!PostfixExprs(T, L, n) \subseteq G!Exprs(T, L, n)
  BY DEF G!Exprs
<1>. HIDE DEF e, F
<1>. QED  BY <1>2, <1>3, <1>4 DEF e

(* The grammar has an expression in parentheses.                           *)
LEMMA GroupMade ==
  ASSUME NEW T, NEW L, NEW n \in Nat, n >= 3, "(" \in T, NEW x \in L.exprs[n - 2]
  PROVE  G!ExprOf(G!Parens(x.tokens), x.code, 10, 10) \in G!Exprs(T, L, n)
<1>1. G!ExprOf(G!Parens(x.tokens), x.code, 10, 10) \in G!GroupExprs(T, L, n)
  BY DEF G!GroupExprs, G!Atomic
<1>2. G!GroupExprs(T, L, n) \subseteq G!Exprs(T, L, n)  BY DEF G!Exprs
<1>. QED  BY <1>1, <1>2

(* The grammar has an assignment.                                          *)
LEMMA AssignMade ==
  ASSUME NEW T, NEW L, NEW n \in Nat, n >= 3, "=" \in T, NEW x \in T \cap Names,
         NEW y \in L.exprs[n - 2]
  PROVE  G!ExprOf(<<x, "=">> \o y.tokens, G!AssignName(Index[x], y.code), 1, 1)
           \in G!Exprs(T, L, n)
<1>. DEFINE e(z, b) == G!ExprOf(<<z, "=">> \o b.tokens, G!AssignName(Index[z], b.code), 1, 1)
            F(z) == {e(z, b) : b \in L.exprs[n - 2]}
<1>1. e(x, y) \in F(x)
  <2>. HIDE DEF e
  <2>. QED  OBVIOUS
<1>2. e(x, y) \in UNION {F(z) : z \in T \cap Names}
  <2>. HIDE DEF F, e
  <2>. QED  BY <1>1
<1>3. UNION {F(z) : z \in T \cap Names} = G!AssignExprs(T, L, n)
  BY SMT DEF G!AssignExprs
<1>4. G!AssignExprs(T, L, n) \subseteq G!Exprs(T, L, n)
  BY DEF G!Exprs
<1>. HIDE DEF e, F
<1>. QED  BY <1>2, <1>3, <1>4 DEF e

(* The grammar has a call.                                                 *)
LEMMA CallMade ==
  ASSUME NEW T, NEW L, NEW n \in Nat, n >= 3, "(" \in T, NEW i \in 1 .. n - 2,
         NEW x \in L.exprs[i], x.edge > 9, NEW l \in G!Arguments(L, n - 2 - i)
  PROVE  G!ExprOf(x.tokens \o G!Parens(l.tokens), G!CallCode(x.code, l.args),
                  G!Lower(x.low, 9), 10) \in G!Exprs(T, L, n)
<1>. DEFINE e(a, b) == G!ExprOf(a.tokens \o G!Parens(b.tokens), G!CallCode(a.code, b.args),
                                G!Lower(a.low, 9), 10)
            F(k) == {e(a, b) : a \in {z \in L.exprs[k] : z.edge > 9},
                               b \in G!Arguments(L, n - 2 - k)}
<1>1. e(x, l) \in F(i)
  <2>. HIDE DEF e
  <2>. QED  OBVIOUS
<1>2. e(x, l) \in UNION {F(k) : k \in 1 .. n - 2}
  <2>. HIDE DEF F, e
  <2>. QED  BY <1>1
<1>3. UNION {F(k) : k \in 1 .. n - 2} = G!CallExprs(T, L, n)
  BY SMT DEF G!CallExprs, G!Atomic
<1>4. G!CallExprs(T, L, n) \subseteq G!Exprs(T, L, n)
  BY DEF G!Exprs
<1>. HIDE DEF e, F
<1>. QED  BY <1>2, <1>3, <1>4 DEF e

(* The grammar has one argument, and one more, up to the limit.            *)
LEMMA ArgumentMade ==
  ASSUME NEW T, NEW L, NEW n, "(" \in T
  PROVE  /\ \A y \in L.exprs[n] : G!ArgsOf(y.tokens, G!Arg(y.code)) \in G!ArgLists(T, L, n)
         /\ \A i \in 1 .. n - 2 : \A l \in L.args[i], y \in L.exprs[n - 1 - i] :
              l.args.count < MAX_ARGUMENTS =>
                G!ArgsOf(l.tokens \o <<"COMMA">> \o y.tokens,
                         [code |-> l.args.code \o y.code, count |-> l.args.count + 1])
                  \in G!ArgLists(T, L, n)
<1>. DEFINE d(b) == G!ArgsOf(b.tokens, G!Arg(b.code))
            D == {d(b) : b \in L.exprs[n]}
            e(l, b) == G!ArgsOf(l.tokens \o <<"COMMA">> \o b.tokens,
                                [code |-> l.args.code \o b.code, count |-> l.args.count + 1])
            F(k) == {e(l, b) : l \in {m \in L.args[k] : m.args.count < MAX_ARGUMENTS},
                               b \in L.exprs[n - 1 - k]}
<1>1. G!ArgLists(T, L, n) = D \cup UNION {F(k) : k \in 1 .. n - 2}
  BY SMT DEF G!ArgLists
<1>2. \A y \in L.exprs[n] : d(y) \in D
  <2>. HIDE DEF d
  <2>. QED  OBVIOUS
<1>3. ASSUME NEW i \in 1 .. n - 2, NEW l \in L.args[i], NEW y \in L.exprs[n - 1 - i],
             l.args.count < MAX_ARGUMENTS
      PROVE  e(l, y) \in UNION {F(k) : k \in 1 .. n - 2}
  <2>1. e(l, y) \in F(i)
    <3>. HIDE DEF e
    <3>. QED  BY <1>3
  <2>. HIDE DEF e, F
  <2>. QED  BY <2>1
<1>. HIDE DEF d, D, e, F
<1>4. \A y \in L.exprs[n] : d(y) \in G!ArgLists(T, L, n)  BY <1>1, <1>2
<1>5. \A i \in 1 .. n - 2 : \A l \in L.args[i], y \in L.exprs[n - 1 - i] :
        l.args.count < MAX_ARGUMENTS => e(l, y) \in G!ArgLists(T, L, n)
  BY <1>1, <1>3
<1>. QED  BY <1>4, <1>5 DEF d, e

(* The grammar has the statements without parts: an expression, a lone     *)
(* semicolon or `bind`, print, return.                                     *)
LEMMA SimpleMade ==
  ASSUME NEW T, NEW L, NEW n \in Nat
  PROVE  /\ \A e \in L.exprs[n] :
              G!StmtOf(e.tokens, G!ExprStat(e.code, REPL), G!Continuing) \in G!Stmts(T, L, n)
         /\ \A t \in T \cap {"SEMICOLON", "BIND"} :
              n = 1 => G!StmtOf(<<t>>, <<>>, {}) \in G!Stmts(T, L, n)
         /\ \A t \in T, e \in L.exprs[n - 1] : n # 1 =>
              /\ t = "PRINT" => G!StmtOf(<<t>> \o e.tokens, G!PrintStat(e.code), G!Continuing)
                                  \in G!Stmts(T, L, n)
              /\ t = "RETURN" => G!StmtOf(<<t>> \o e.tokens, G!ReturnStat(e.code), G!Continuing)
                                   \in G!Stmts(T, L, n)
         /\ n = 2 /\ {"RETURN", "SEMICOLON"} \subseteq T =>
              G!StmtOf(<<"RETURN", "SEMICOLON">>, G!ReturnStat(G!Literal(Index["void"])), {})
                \in G!Stmts(T, L, n)
<1>. DEFINE a(e) == G!StmtOf(e.tokens, G!ExprStat(e.code, REPL), G!Continuing)
            b(t) == G!StmtOf(<<t>>, <<>>, {})
            c(t, e) == G!StmtOf(<<t>> \o e.tokens,
                                IF t = "PRINT" THEN G!PrintStat(e.code) ELSE G!ReturnStat(e.code),
                                G!Continuing)
            d == G!StmtOf(<<"RETURN", "SEMICOLON">>, G!ReturnStat(G!Literal(Index["void"])), {})
            A == {a(e) : e \in L.exprs[n]}
            B == {b(t) : t \in T \cap {"SEMICOLON", "BIND"}}
            C == {c(t, e) : t \in T \cap {"PRINT", "RETURN"}, e \in L.exprs[n - 1]}
            D == IF n = 2 /\ {"RETURN", "SEMICOLON"} \subseteq T THEN {d} ELSE {}
<1>1. G!SimpleStmts(T, L, n) = A \cup (IF n = 1 THEN B ELSE C) \cup D
  BY SMT DEF G!SimpleStmts
<1>2. /\ \A e \in L.exprs[n] : a(e) \in A
      /\ \A t \in T \cap {"SEMICOLON", "BIND"} : b(t) \in B
      /\ \A t \in T \cap {"PRINT", "RETURN"}, e \in L.exprs[n - 1] : c(t, e) \in C
      /\ n = 2 /\ {"RETURN", "SEMICOLON"} \subseteq T => d \in D
  <2>1. \A e \in L.exprs[n] : a(e) \in A
    <3>. HIDE DEF a
    <3>. QED  OBVIOUS
  <2>2. \A t \in T \cap {"SEMICOLON", "BIND"} : b(t) \in B
    <3>. HIDE DEF b
    <3>. QED  OBVIOUS
  <2>3. \A t \in T \cap {"PRINT", "RETURN"}, e \in L.exprs[n - 1] : c(t, e) \in C
    <3>. HIDE DEF c
    <3>. QED  OBVIOUS
  <2>. HIDE DEF A, B, C, d
  <2>. QED  BY <2>1, <2>2, <2>3
<1>3. \A e : /\ c("PRINT", e) = G!StmtOf(<<"PRINT">> \o e.tokens, G!PrintStat(e.code), G!Continuing)
             /\ c("RETURN", e) = G!StmtOf(<<"RETURN">> \o e.tokens, G!ReturnStat(e.code), G!Continuing)
  OBVIOUS
<1>4. G!SimpleStmts(T, L, n) \subseteq G!Stmts(T, L, n)  BY DEF G!Stmts
<1>. HIDE DEF A, B, C, D, a, b, c, d
<1>5. /\ \A e \in L.exprs[n] : a(e) \in G!Stmts(T, L, n)
      /\ \A t \in T \cap {"SEMICOLON", "BIND"} : n = 1 => b(t) \in G!Stmts(T, L, n)
      /\ \A t \in T \cap {"PRINT", "RETURN"}, e \in L.exprs[n - 1] :
           n # 1 => c(t, e) \in G!Stmts(T, L, n)
      /\ n = 2 /\ {"RETURN", "SEMICOLON"} \subseteq T => d \in G!Stmts(T, L, n)
  BY <1>1, <1>2, <1>4
<1>6. \A e \in L.exprs[n - 1] :
        /\ "PRINT" \in T /\ n # 1 => c("PRINT", e) \in G!Stmts(T, L, n)
        /\ "RETURN" \in T /\ n # 1 => c("RETURN", e) \in G!Stmts(T, L, n)
  BY <1>5
<1>7. \A t \in T, e \in L.exprs[n - 1] : n # 1 =>
        /\ t = "PRINT" => G!StmtOf(<<t>> \o e.tokens, G!PrintStat(e.code), G!Continuing)
                            \in G!Stmts(T, L, n)
        /\ t = "RETURN" => G!StmtOf(<<t>> \o e.tokens, G!ReturnStat(e.code), G!Continuing)
                             \in G!Stmts(T, L, n)
  BY <1>3, <1>6
<1>. QED  BY <1>5, <1>7 DEF a, b, d

(* The grammar has a condition and a body.                                 *)
LEMMA GuardedMade ==
  ASSUME NEW L, NEW n, NEW i \in 1 .. n - 1, NEW e \in L.exprs[i],
         NEW s \in L.stmts[n - i], G!Starts(s, G!Continuing)
  PROVE  [cond |-> e, body |-> s] \in G!Guarded(L, n)
<1>. DEFINE g(b, d) == [cond |-> b, body |-> d]
            F(k) == {g(b, d) : b \in L.exprs[k],
                               d \in {x \in L.stmts[n - k] : G!Starts(x, G!Continuing)}}
<1>1. g(e, s) \in F(i)
  <2>. HIDE DEF g
  <2>. QED  OBVIOUS
<1>2. g(e, s) \in UNION {F(k) : k \in 1 .. n - 1}
  <2>. HIDE DEF g, F
  <2>. QED  BY <1>1
<1>3. UNION {F(k) : k \in 1 .. n - 1} = G!Guarded(L, n)
  BY SMT DEF G!Guarded
<1>. HIDE DEF g, F
<1>. QED  BY <1>2, <1>3 DEF g

(* The grammar has a while.                                                *)
LEMMA WhileMade ==
  ASSUME NEW T, NEW L, NEW n, "WHILE" \in T, NEW e, NEW s,
         [cond |-> e, body |-> s] \in G!Guarded(L, n - 1)
  PROVE  G!StmtOf(<<"WHILE">> \o e.tokens \o s.tokens, G!WhileStat(e.code, s.code), s.excluded)
           \in G!Stmts(T, L, n)
<1>. DEFINE f(g) == G!StmtOf(<<"WHILE">> \o g.cond.tokens \o g.body.tokens,
                             G!WhileStat(g.cond.code, g.body.code), g.body.excluded)
            g0 == [cond |-> e, body |-> s]
<1>1. G!Whiles(T, L, n) = {f(g) : g \in G!Guarded(L, n - 1)}
  BY SMT DEF G!Whiles
<1>2. f(g0) = G!StmtOf(<<"WHILE">> \o e.tokens \o s.tokens, G!WhileStat(e.code, s.code), s.excluded)
  OBVIOUS
<1>3. f(g0) \in G!Whiles(T, L, n)
  <2>. HIDE DEF f
  <2>. QED  BY <1>1
<1>. HIDE DEF f, g0
<1>. QED  BY <1>2, <1>3 DEF G!Stmts

(* The grammar has an if without an else.                                  *)
LEMMA IfMade ==
  ASSUME NEW T, NEW L, NEW n, "IF" \in T, NEW e, NEW s,
         [cond |-> e, body |-> s] \in G!Guarded(L, n - 1)
  PROVE  G!StmtOf(<<"IF">> \o e.tokens \o s.tokens, G!IfStat(e.code, s.code, <<>>),
                  s.excluded \cup {"ELSE"}) \in G!Stmts(T, L, n)
<1>. DEFINE f(g) == G!StmtOf(<<"IF">> \o g.cond.tokens \o g.body.tokens,
                             G!IfStat(g.cond.code, g.body.code, <<>>),
                             g.body.excluded \cup {"ELSE"})
            g0 == [cond |-> e, body |-> s]
            A == {f(g) : g \in G!Guarded(L, n - 1)}
<1>1. A \subseteq G!Ifs(T, L, n)
  <2>. DEFINE h(g, v) == G!StmtOf(<<"IF">> \o g.cond.tokens \o g.body.tokens \o <<"ELSE">> \o v.tokens,
                                  G!IfStat(g.cond.code, g.body.code, v.code), v.excluded)
              H(k) == {h(g, v) : g \in {x \in G!Guarded(L, k) : "ELSE" \notin x.body.excluded},
                                 v \in L.stmts[n - 2 - k]}
              B == UNION {H(k) : k \in IF "ELSE" \in T THEN 2 .. n - 3 ELSE {}}
  <2>1. G!Ifs(T, L, n) = A \cup B  BY SMT DEF G!Ifs
  <2>. HIDE DEF A, B
  <2>. QED  BY <2>1
<1>2. f(g0) = G!StmtOf(<<"IF">> \o e.tokens \o s.tokens, G!IfStat(e.code, s.code, <<>>),
                       s.excluded \cup {"ELSE"})
  OBVIOUS
<1>3. f(g0) \in A
  <2>. HIDE DEF f
  <2>. QED  OBVIOUS
<1>. HIDE DEF A, f, g0
<1>4. f(g0) \in G!Ifs(T, L, n)  BY <1>1, <1>3
<1>. QED  BY <1>2, <1>4 DEF G!Stmts

(* The grammar has an if with an else.                                     *)
LEMMA IfElseMade ==
  ASSUME NEW T, NEW L, NEW n, "IF" \in T, "ELSE" \in T, NEW e, NEW s, NEW i \in 2 .. n - 3,
         [cond |-> e, body |-> s] \in G!Guarded(L, i), "ELSE" \notin s.excluded,
         NEW u \in L.stmts[n - 2 - i]
  PROVE  G!StmtOf(<<"IF">> \o e.tokens \o s.tokens \o <<"ELSE">> \o u.tokens,
                  G!IfStat(e.code, s.code, u.code), u.excluded) \in G!Stmts(T, L, n)
<1>. DEFINE f(g, v) == G!StmtOf(<<"IF">> \o g.cond.tokens \o g.body.tokens \o <<"ELSE">> \o v.tokens,
                                G!IfStat(g.cond.code, g.body.code, v.code), v.excluded)
            g0 == [cond |-> e, body |-> s]
            F(k) == {f(g, v) : g \in {x \in G!Guarded(L, k) : "ELSE" \notin x.body.excluded},
                               v \in L.stmts[n - 2 - k]}
            A == UNION {F(k) : k \in 2 .. n - 3}
<1>1. A \subseteq G!Ifs(T, L, n)
  <2>. DEFINE a(g) == G!StmtOf(<<"IF">> \o g.cond.tokens \o g.body.tokens,
                             G!IfStat(g.cond.code, g.body.code, <<>>),
                             g.body.excluded \cup {"ELSE"})
              B == {a(g) : g \in G!Guarded(L, n - 1)}
  <2>1. G!Ifs(T, L, n) = B \cup A  BY SMT DEF G!Ifs
  <2>. HIDE DEF A, B
  <2>. QED  BY <2>1
<1>2. f(g0, u) = G!StmtOf(<<"IF">> \o e.tokens \o s.tokens \o <<"ELSE">> \o u.tokens,
                          G!IfStat(e.code, s.code, u.code), u.excluded)
  OBVIOUS
<1>3. f(g0, u) \in F(i)
  <2>1. g0 \in {x \in G!Guarded(L, i) : "ELSE" \notin x.body.excluded}  OBVIOUS
  <2>. HIDE DEF f, g0
  <2>. QED  BY <2>1
<1>4. f(g0, u) \in A
  <2>. HIDE DEF f, g0, F
  <2>. QED  BY <1>3
<1>. HIDE DEF A, F, f, g0
<1>5. f(g0, u) \in G!Ifs(T, L, n)  BY <1>1, <1>4
<1>. QED  BY <1>2, <1>5 DEF G!Stmts

(* The grammar has a block.                                                *)
LEMMA BlockMade ==
  ASSUME NEW T, NEW L, NEW n \in Nat, n >= 2, "LBRACE" \in T, NEW l \in L.lists[n - 2]
  PROVE  G!StmtOf(<<"LBRACE">> \o l.tokens \o <<"RBRACE">>, G!ScopeStat(l.code, 0), {}) \in G!Stmts(T, L, n)
<1>1. G!StmtOf(<<"LBRACE">> \o l.tokens \o <<"RBRACE">>, G!ScopeStat(l.code, 0), {}) \in G!Blocks(T, L, n)
  BY DEF G!Blocks
<1>. QED  BY <1>1 DEF G!Stmts

(* The grammar has the first two parts of a for.                           *)
LEMMA HeadMade ==
  ASSUME NEW L, NEW n, NEW i \in 1 .. n - 1, NEW d \in G!Inits(L, i), NEW c \in G!Conditions(L, n - i)
  PROVE  [tokens |-> d.tokens \o c.tokens, init |-> d.code, cond |-> c.code] \in G!Heads(L, n)
<1>. DEFINE f(x, y) == [tokens |-> x.tokens \o y.tokens, init |-> x.code, cond |-> y.code]
            F(k) == {f(x, y) : x \in G!Inits(L, k), y \in G!Conditions(L, n - k)}
<1>1. UNION {F(k) : k \in 1 .. n - 1} = G!Heads(L, n)  BY SMT DEF G!Heads
<1>2. f(d, c) \in F(i)
  <2>. HIDE DEF f
  <2>. QED  OBVIOUS
<1>3. f(d, c) \in UNION {F(k) : k \in 1 .. n - 1}
  <2>. HIDE DEF f, F
  <2>. QED  BY <1>2
<1>. HIDE DEF f, F
<1>. QED  BY <1>1, <1>3 DEF f

(* The grammar has all three parts of a for.                               *)
LEMMA HeaderMade ==
  ASSUME NEW T, NEW L, NEW n, NEW i \in 2 .. n - 1, NEW h \in G!Heads(L, i),
         NEW u \in G!Increments(T, L, n - i)
  PROVE  [tokens |-> h.tokens \o u.tokens, init |-> h.init, cond |-> h.cond, step |-> u.code]
           \in G!Headers(T, L, n)
<1>. DEFINE f(x, y) == [tokens |-> x.tokens \o y.tokens, init |-> x.init, cond |-> x.cond,
                        step |-> y.code]
            F(k) == {f(x, y) : x \in G!Heads(L, k), y \in G!Increments(T, L, n - k)}
<1>1. UNION {F(k) : k \in 2 .. n - 1} = G!Headers(T, L, n)  BY SMT DEF G!Headers
<1>2. f(h, u) \in F(i)
  <2>. HIDE DEF f
  <2>. QED  OBVIOUS
<1>3. f(h, u) \in UNION {F(k) : k \in 2 .. n - 1}
  <2>. HIDE DEF f, F
  <2>. QED  BY <1>2
<1>. HIDE DEF f, F
<1>. QED  BY <1>1, <1>3 DEF f

(* The grammar has a for.                                                  *)
LEMMA ForMade ==
  ASSUME NEW T, NEW L, NEW n, {"FOR", "RBRACE", "SEMICOLON"} \subseteq T, NEW i \in 3 .. n - 2,
         NEW h \in G!Headers(T, L, i), NEW l \in L.lists[n - 2 - i]
  PROVE  G!StmtOf(<<"FOR">> \o h.tokens \o l.tokens \o <<"RBRACE">>,
                  G!ForCode(h.init, h.cond, h.step, l.code), {}) \in G!Stmts(T, L, n)
<1>. DEFINE f(x, y) == G!StmtOf(<<"FOR">> \o x.tokens \o y.tokens \o <<"RBRACE">>,
                                G!ForCode(x.init, x.cond, x.step, y.code), {})
            F(k) == {f(x, y) : x \in G!Headers(T, L, k), y \in L.lists[n - 2 - k]}
<1>1. UNION {F(k) : k \in 3 .. n - 2} = G!Fors(T, L, n)  BY SMT DEF G!Fors
<1>2. f(h, l) \in F(i)
  <2>. HIDE DEF f
  <2>. QED  OBVIOUS
<1>3. f(h, l) \in UNION {F(k) : k \in 3 .. n - 2}
  <2>. HIDE DEF f, F
  <2>. QED  BY <1>2
<1>. HIDE DEF f, F
<1>. QED  BY <1>1, <1>3 DEF f, G!Stmts

(* The grammar has a first part of a for, which may be empty.              *)
LEMMA InitMade ==
  ASSUME NEW L, NEW n \in Nat
  PROVE  /\ [tokens |-> <<"SEMICOLON">>, code |-> <<>>] \in G!Inits(L, 1)
         /\ \A s \in L.stmts[n - 1] : n # 1 /\ G!Starts(s, {"SEMICOLON"}) =>
              [tokens |-> s.tokens \o <<"SEMICOLON">>, code |-> s.code] \in G!Inits(L, n)
BY DEF G!Inits

(* The grammar has a second part of a for, which may be empty.             *)
LEMMA ConditionMade ==
  ASSUME NEW L, NEW n \in Nat
  PROVE  /\ [tokens |-> <<"SEMICOLON">>, code |-> {}] \in G!Conditions(L, 1)
         /\ \A e \in L.exprs[n - 1] : n # 1 =>
              [tokens |-> e.tokens \o <<"SEMICOLON">>, code |-> {e.code}] \in G!Conditions(L, n)
BY DEF G!Conditions

(* The grammar has a third part, which may be empty and takes the token    *)
(* behind it, whatever that is.                                            *)
LEMMA IncrementMade ==
  ASSUME NEW T, NEW L, NEW n \in Nat
  PROVE  /\ [tokens |-> <<"LBRACE">>, code |-> <<>>] \in G!Increments(T, L, 1)
         /\ \A e \in L.exprs[n - 1], t \in T \ G!Continuing : n # 1 =>
              [tokens |-> e.tokens \o <<t>>, code |-> G!ExprStat(e.code, REPL)]
                \in G!Increments(T, L, n)
<1>. DEFINE f(e, t) == [tokens |-> e.tokens \o <<t>>, code |-> G!ExprStat(e.code, REPL)]
            F == {f(e, t) : e \in L.exprs[n - 1], t \in T \ G!Continuing}
<1>1. n # 1 => G!Increments(T, L, n) = F  BY SMT DEF G!Increments
<1>2. \A e \in L.exprs[n - 1], t \in T \ G!Continuing : f(e, t) \in F
  <2>. HIDE DEF f
  <2>. QED  OBVIOUS
<1>3. [tokens |-> <<"LBRACE">>, code |-> <<>>] \in G!Increments(T, L, 1)
  BY SMT DEF G!Increments
<1>. HIDE DEF f, F
<1>4. \A e \in L.exprs[n - 1], t \in T \ G!Continuing : n # 1 => f(e, t) \in G!Increments(T, L, n)
  BY <1>1, <1>2
<1>. QED  BY <1>3, <1>4 DEF f

(* The grammar has a statement behind others.                              *)
LEMMA ListMade ==
  ASSUME NEW T, NEW L, NEW n, NEW k \in 0 .. n - 1, NEW l \in L.lists[k],
         NEW s \in L.stmts[n - k], G!Starts(s, l.excluded)
  PROVE  G!StmtOf(l.tokens \o s.tokens, l.code \o s.code, s.excluded) \in G!Lists(L, n)
<1>. DEFINE f(m, x) == G!StmtOf(m.tokens \o x.tokens, m.code \o x.code, x.excluded)
            A(i, m) == {f(m, x) : x \in {y \in L.stmts[n - i] : G!Starts(y, m.excluded)}}
            B(i) == UNION {A(i, m) : m \in L.lists[i]}
            C == UNION {B(i) : i \in 0 .. n - 1}
<1>1. C = G!Lists(L, n)  BY SMT DEF G!Lists
<1>2. f(l, s) \in A(k, l)
  <2>. HIDE DEF f
  <2>. QED  OBVIOUS
<1>3. f(l, s) \in B(k)
  <2>. HIDE DEF f, A
  <2>. QED  BY <1>2
<1>4. f(l, s) \in C
  <2>. HIDE DEF f, B
  <2>. QED  BY <1>3
<1>. HIDE DEF f, C
<1>. QED  BY <1>1, <1>4 DEF f

-----------------------------------------------------------------------------
(* Each rule of the language, for the tokens read and the code emitted.    *)

Context(a, rd, cd) == a \in Alphabets /\ Reads(a, rd) /\ cd \in Seq(Bytes)

(* What is known of the tokens and the code between two places.            *)
LEMMA Stretches ==
  ASSUME NEW a, NEW rd, NEW cd, Context(a, rd, cd),
         NEW p, NEW j, NEW q, NEW r, Span(rd, cd, p, j, q, r)
  PROVE  /\ a \in Alphabets /\ Reads(a, rd) /\ cd \in Seq(Bytes) /\ Len(cd) \in Nat
         /\ rd \in Seq(Tokens(a) \cup {"EOF"}) /\ Len(rd) \in Nat
         /\ p \in Nat /\ j \in Nat /\ q \in Nat /\ r \in Nat
         /\ p <= j /\ j < Len(rd) /\ j <= Len(rd) - 1 /\ q <= r /\ r <= Len(cd)
         /\ Seg(cd, q, r) \in Seq(Bytes) /\ Len(Seg(cd, q, r)) = r - q
<1>1. /\ a \in Alphabets /\ Reads(a, rd) /\ cd \in Seq(Bytes) /\ Len(cd) \in Nat
      /\ rd \in Seq(Tokens(a) \cup {"EOF"}) /\ Len(rd) \in Nat
  BY DEF Context, Reads, Tokens
<1>2. /\ p \in Nat /\ j \in Nat /\ q \in Nat /\ r \in Nat
      /\ p <= j /\ j < Len(rd) /\ q <= r /\ r <= Len(cd)
  BY DEF Span
<1>3. Seg(cd, q, r) \in Seq(Bytes) /\ Len(Seg(cd, q, r)) = r - q
  BY <1>1, <1>2, SegIs
<1>. QED  BY <1>1, <1>2, <1>3

(* A phrase that the rules compose is in the language. *)
LEMMA ExpressionMade ==
  ASSUME NEW a, NEW rd, NEW cd, Context(a, rd, cd),
         NEW p, NEW j, NEW q, NEW r, Span(rd, cd, p, j, q, r), p < j, NEW level,
         NEW s \in G!Exprs(Tokens(a), Language[a], j - p),
         s.tokens = Seg(rd, p, j), s.code = Seg(cd, q, r), Ranked(s, level, rd[j + 1])
  PROVE  Operand(Language[a], rd, cd, p, j, q, r, level)
<1>1. s \in Language[a].exprs[j - p]  BY Stretches, Composes
<1>. QED  BY <1>1 DEF Operand

(* A statement of the grammar that has the tokens read and the code        *)
(* emitted is a statement here.                                            *)
LEMMA StatementMade ==
  ASSUME NEW a, NEW rd, NEW cd, Context(a, rd, cd),
         NEW p, NEW j, NEW q, NEW r, Span(rd, cd, p, j, q, r), p < j,
         NEW s \in G!Stmts(Tokens(a), Language[a], j - p),
         s.tokens = Seg(rd, p, j), s.code = Seg(cd, q, r), rd[j + 1] \notin s.excluded
  PROVE  Statement(Language[a], rd, cd, p, j, q, r)
<1>1. s \in Language[a].stmts[j - p]  BY Stretches, Composes
<1>. QED  BY <1>1 DEF Statement

(* An operand, an operator and a value of a higher level make an operand.  *)
LEMMA BinaryOperand ==
  ASSUME NEW a, NEW rd, NEW cd, Context(a, rd, cd),
         NEW p, NEW j, NEW k, NEW q, NEW u, NEW v, NEW r, NEW level \in 1 .. 9,
         Operand(Language[a], rd, cd, p, j, q, u, level),
         rd[j + 1] \in BinaryTokens, level <= Precedence(rd[j + 1]),
         Value(Language[a], rd, cd, j + 1, k, u, v, Precedence(rd[j + 1]) + 1),
         r \in Nat, v <= r, r <= Len(cd), Seg(cd, v, r) = BinaryBytes(rd[j + 1])
  PROVE  Operand(Language[a], rd, cd, p, k, q, r, level)
<1>. DEFINE t == rd[j + 1]
            L == Language[a]
            n == k - p
            lv == Precedence(t)
<1>1. Span(rd, cd, p, j, q, u) /\ p < j /\ Span(rd, cd, j + 1, k, u, v) /\ j + 1 < k
  BY DEF Operand, Value
<1>2. /\ a \in Alphabets /\ Reads(a, rd) /\ cd \in Seq(Bytes)
      /\ rd \in Seq(Tokens(a) \cup {"EOF"})
      /\ Seg(cd, q, u) \in Seq(Bytes) /\ Seg(cd, u, v) \in Seq(Bytes)
  BY <1>1, Stretches
<1>0. /\ Len(cd) \in Nat /\ Len(rd) \in Nat
      /\ p \in Nat /\ j \in Nat /\ q \in Nat /\ u \in Nat /\ p < j /\ q <= u
      /\ k \in Nat /\ v \in Nat /\ j + 1 < k /\ k < Len(rd) /\ k <= Len(rd) - 1
      /\ u <= v /\ v <= Len(cd)
  BY <1>1, Stretches
<1>3. PICK x \in L.exprs[j - p] :
        /\ x.tokens = Seg(rd, p, j) /\ x.code = Seg(cd, q, u)
        /\ x.low \in Nat /\ x.edge \in Nat /\ x.low >= level /\ lv < x.edge
  BY DEF Operand, Ranked
<1>4. PICK y \in L.exprs[k - (j + 1)] :
        /\ y.tokens = Seg(rd, j + 1, k) /\ y.code = Seg(cd, u, v)
        /\ y.low \in Nat /\ y.edge \in Nat /\ y.low >= lv + 1
        /\ Precedence(rd[k + 1]) < y.edge
  BY DEF Operand, Value, Ranked
<1>5. Precedence(rd[k + 1]) < lv + 1 /\ lv \in 3 .. 7 /\ G!LevelOf(t) = lv
  BY Precedences, SameLevels DEF Value
<1>6. Precedence(rd[k + 1]) \in 0 .. 9  BY Precedences
<1>7. t \in Tokens(a) \cap G!Binaries
  <2>1. j + 1 # 0 /\ j + 1 \in Nat /\ j + 1 <= Len(rd) - 1  BY <1>0
  <2>. QED  BY <1>2, <2>1, TokenRead, SameLevels
<1>8. j - p \in 1 .. n - 2 /\ n - 1 - (j - p) = k - (j + 1)  BY <1>0
<1>9. Seg(rd, p, j) \o <<t>> \o Seg(rd, j + 1, k) = Seg(rd, p, k)
  <2>1. p \in Nat /\ j \in Nat /\ k \in Nat /\ p <= j /\ j < k /\ k <= Len(rd)  BY <1>0
  <2>2. rd \in Seq(Tokens(a) \cup {"EOF"})  BY <1>2
  <2>. HIDE DEF t, L, n, lv
  <2>3. Seg(rd, p, j) \o <<rd[j + 1]>> \o Seg(rd, j + 1, k) = Seg(rd, p, k)
    BY ONLY <2>1, <2>2, SegBetween
  <2>. QED  BY <2>3 DEF t
<1>10. Seg(cd, q, u) \o Seg(cd, u, v) \o Seg(cd, v, r) = Seg(cd, q, r)
  <2>1. /\ q \in Nat /\ u \in Nat /\ v \in Nat /\ r \in Nat /\ q <= u /\ u <= v /\ v <= r
        /\ r <= Len(cd)
    BY <1>0
  <2>2. cd \in Seq(Bytes)  BY <1>2
  <2>. HIDE DEF t, L, n, lv
  <2>. QED  BY ONLY <2>1, <2>2, SegThree
<1>. DEFINE low == G!Lower(x.low, G!LevelOf(t))
            edge == G!Lower(G!LevelOf(t) + 1, y.edge)
            s == G!ExprOf(x.tokens \o <<t>> \o y.tokens,
                          G!BinaryCode(G!Opname(t), x.code, y.code), low, edge)
<1>11. low \in Nat /\ low >= level /\ edge \in Nat /\ Precedence(rd[k + 1]) < edge
  BY <1>3, <1>4, <1>5, <1>6 DEF G!Lower
<1>12. s.code = Seg(cd, q, r)
  BY <1>2, <1>3, <1>4, <1>10, SameBinary DEF G!ExprOf
<1>13. s.tokens = Seg(rd, p, k) /\ s.low = low /\ s.edge = edge
  BY <1>3, <1>4, <1>9 DEF G!ExprOf
<1>14. s \in G!Exprs(Tokens(a), L, n)
  <2>1. x.edge > G!LevelOf(t) /\ y.low > G!LevelOf(t) /\ y \in L.exprs[n - 1 - (j - p)]
    BY <1>3, <1>4, <1>5, <1>8
  <2>. HIDE DEF t, n, L, lv
  <2>. QED  BY <1>7, <1>8, <2>1, BinaryMade
<1>. HIDE DEF s, low, edge
<1>16. Ranked(s, level, rd[k + 1])  BY <1>11, <1>13 DEF Ranked
<1>15. Span(rd, cd, p, k, q, r) /\ p < k
  <2>1. p <= k /\ q <= r /\ p < k  BY <1>0
  <2>. QED  BY <1>0, <2>1 DEF Span
<1>. QED  BY <1>12, <1>13, <1>14, <1>15, <1>16, ExpressionMade

(* A name and a literal are operands.                                      *)
LEMMA AtomOperand ==
  ASSUME NEW a, NEW rd, NEW cd, Context(a, rd, cd),
         NEW p, NEW k, k = p + 1, NEW q, NEW r, Span(rd, cd, p, k, q, r), NEW level \in 1 .. 9,
         \/ rd[p + 1] \in Names /\ Seg(cd, q, r) = OperandCode("LOADGLOBAL", Index[rd[p + 1]])
         \/ rd[p + 1] \in Literals /\ Seg(cd, q, r) = ConstantCode(Index[rd[p + 1]])
  PROVE  Operand(Language[a], rd, cd, p, k, q, r, level)
<1>. DEFINE t == rd[p + 1]
            s == G!ExprOf(<<t>>, Seg(cd, q, r), 10, 10)
<1>1. /\ a \in Alphabets /\ Reads(a, rd) /\ rd \in Seq(Tokens(a) \cup {"EOF"}) /\ Len(rd) \in Nat
      /\ p \in Nat /\ k \in Nat /\ k <= Len(rd) - 1
  BY Stretches
<1>0. p < Len(rd) /\ p < k /\ k - p = 1 /\ k # 0  BY <1>1
<1>2. t \in Tokens(a)  BY <1>0, <1>1, TokenRead
<1>3. Seg(rd, p, k) = <<t>>
  <2>1. Seg(rd, p, p + 1) = <<rd[p + 1]>>  BY <1>0, <1>1, SegOne
  <2>. QED  BY <2>1
<1>4. s \in G!Exprs(Tokens(a), Language[a], 1)
  <2>. HIDE DEF t
  <2>. QED  BY <1>2, AtomMade, SameOperands DEF t
<1>5. s.tokens = Seg(rd, p, k) /\ s.code = Seg(cd, q, r) /\ s.low = 10 /\ s.edge = 10
  BY <1>3 DEF G!ExprOf
<1>6. Precedence(rd[k + 1]) \in 0 .. 9  BY Precedences
<1>. HIDE DEF s
<1>7. Ranked(s, level, rd[k + 1])  BY <1>5, <1>6 DEF Ranked
<1>. QED  BY <1>0, <1>4, <1>5, <1>7, ExpressionMade

(* A prefix operator and a value make an operand.                          *)
LEMMA UnaryOperand ==
  ASSUME NEW a, NEW rd, NEW cd, Context(a, rd, cd),
         NEW p \in Nat, NEW j, NEW q, NEW u, NEW r, NEW level \in 1 .. 9,
         rd[p + 1] \in UnaryTokens,
         Value(Language[a], rd, cd, p + 1, j, q, u, Precedence(rd[p + 1]) + 1),
         r \in Nat, u <= r, r <= Len(cd), Seg(cd, u, r) = UnaryBytes(rd[p + 1])
  PROVE  Operand(Language[a], rd, cd, p, j, q, r, level)
<1>. DEFINE t == rd[p + 1]
            L == Language[a]
            n == j - p
            lv == Precedence(t)
<1>1. Span(rd, cd, p + 1, j, q, u) /\ p + 1 < j
  BY DEF Operand, Value
<1>2. /\ a \in Alphabets /\ Reads(a, rd) /\ cd \in Seq(Bytes)
      /\ rd \in Seq(Tokens(a) \cup {"EOF"}) /\ Seg(cd, q, u) \in Seq(Bytes)
  BY <1>1, Stretches
<1>0. /\ Len(cd) \in Nat /\ Len(rd) \in Nat /\ j \in Nat /\ q \in Nat /\ u \in Nat /\ q <= u
      /\ p + 1 < j /\ j < Len(rd) /\ j <= Len(rd) - 1 /\ u <= Len(cd)
  BY <1>1, Stretches
<1>3. PICK y \in L.exprs[j - (p + 1)] :
        /\ y.tokens = Seg(rd, p + 1, j) /\ y.code = Seg(cd, q, u)
        /\ y.low \in Nat /\ y.edge \in Nat /\ y.low >= lv + 1
        /\ Precedence(rd[j + 1]) < y.edge
  BY DEF Operand, Value, Ranked
<1>4. Precedence(rd[j + 1]) < lv + 1 /\ lv \in 6 .. 8 /\ G!LevelOf(t) = lv
  BY Precedences, SameLevels DEF Value
<1>5. Precedence(rd[j + 1]) \in 0 .. 9  BY Precedences
<1>6. t \in Tokens(a) \cap UnaryTokens
  <2>1. p + 1 # 0 /\ p + 1 \in Nat /\ p + 1 <= Len(rd) - 1  BY <1>0
  <2>. QED  BY <1>2, <2>1, TokenRead
<1>7. n \in Nat /\ n >= 2 /\ n - 1 = j - (p + 1)  BY <1>0
<1>8. <<t>> \o Seg(rd, p + 1, j) = Seg(rd, p, j)
  <2>1. p \in Nat /\ p <= p /\ p < j /\ j <= Len(rd)  BY <1>0
  <2>2. j \in Nat  BY <1>0
  <2>. HIDE DEF t, L, n, lv
  <2>3. <<rd[p + 1]>> \o Seg(rd, p + 1, j) = Seg(rd, p, j)
    BY ONLY <1>2, <2>1, <2>2, SegBetween
  <2>. QED  BY <2>3 DEF t
<1>9. Seg(cd, q, u) \o Seg(cd, u, r) = Seg(cd, q, r)
  <2>1. cd \in Seq(Bytes)  BY <1>2
  <2>2. q \in Nat /\ u \in Nat /\ r \in Nat /\ q <= u /\ u <= r /\ r <= Len(cd)  BY <1>0
  <2>. HIDE DEF t, L, n, lv
  <2>. QED  BY ONLY <2>1, <2>2, SegCat
<1>. DEFINE edge == G!Lower(G!LevelOf(t) + 1, y.edge)
            s == G!ExprOf(<<t>> \o y.tokens, G!Prefixed(t, y.code), 10, edge)
<1>10. edge \in Nat /\ Precedence(rd[j + 1]) < edge
  BY <1>3, <1>4, <1>5 DEF G!Lower
<1>11. s.code = Seg(cd, q, r)
  BY <1>2, <1>3, <1>9, SameSteps DEF G!ExprOf
<1>12. s.tokens = Seg(rd, p, j) /\ s.low = 10 /\ s.edge = edge
  BY <1>3, <1>8 DEF G!ExprOf
<1>13. s \in G!Exprs(Tokens(a), L, n)
  <2>1. y.low > G!LevelOf(t) /\ y \in L.exprs[n - 1]  BY <1>3, <1>4, <1>7
  <2>. HIDE DEF t, n, L, lv
  <2>. QED  BY <1>6, <1>7, <2>1, UnaryMade
<1>. HIDE DEF s, edge
<1>15. Ranked(s, level, rd[j + 1])  BY <1>10, <1>12 DEF Ranked
<1>14. Span(rd, cd, p, j, q, r) /\ p < j
  <2>1. p <= j /\ q <= r /\ p < j  BY <1>0
  <2>. QED  BY <1>0, <2>1 DEF Span
<1>. QED  BY <1>11, <1>12, <1>13, <1>14, <1>15, ExpressionMade

(* An operand and a step make an operand.                                  *)
LEMMA PostfixOperand ==
  ASSUME NEW a, NEW rd, NEW cd, Context(a, rd, cd),
         NEW p, NEW j, NEW q, NEW u, NEW r, NEW level \in 1 .. 8,
         Operand(Language[a], rd, cd, p, j, q, u, level),
         rd[j + 1] \in {"INC", "DEC"}, NEW k, k = j + 1, k < Len(rd),
         r \in Nat, u <= r, r <= Len(cd), Seg(cd, u, r) = StepBytes(rd[j + 1])
  PROVE  Operand(Language[a], rd, cd, p, k, q, r, level)
<1>. DEFINE t == rd[j + 1]
            L == Language[a]
            n == k - p
<1>1. Span(rd, cd, p, j, q, u) /\ p < j  BY DEF Operand
<1>2. /\ a \in Alphabets /\ Reads(a, rd) /\ cd \in Seq(Bytes)
      /\ rd \in Seq(Tokens(a) \cup {"EOF"}) /\ Seg(cd, q, u) \in Seq(Bytes)
  BY <1>1, Stretches
<1>0. /\ Len(cd) \in Nat /\ Len(rd) \in Nat /\ p \in Nat /\ j \in Nat /\ q \in Nat /\ u \in Nat
      /\ q <= u /\ p < j /\ j < Len(rd) /\ u <= Len(cd) /\ k \in Nat
  <2>1. /\ Len(cd) \in Nat /\ Len(rd) \in Nat /\ p \in Nat /\ j \in Nat /\ q \in Nat
        /\ u \in Nat /\ q <= u /\ j < Len(rd) /\ u <= Len(cd)
    BY <1>1, Stretches
  <2>. QED  BY <1>1, <2>1
<1>3. PICK x \in L.exprs[j - p] :
        /\ x.tokens = Seg(rd, p, j) /\ x.code = Seg(cd, q, u)
        /\ x.low \in Nat /\ x.edge \in Nat /\ x.low >= level
        /\ Precedence(t) < x.edge
  BY DEF Operand, Ranked
<1>4. Precedence(t) = 8  BY DEF Precedence, Level
<1>5. Precedence(rd[k + 1]) \in 0 .. 9  BY Precedences
<1>6. t \in Tokens(a) \cap {"INC", "DEC"}
  <2>1. k # 0 /\ k <= Len(rd) - 1  BY <1>0
  <2>. QED  BY <1>0, <1>2, <2>1, TokenRead
<1>7. n \in Nat /\ n >= 2 /\ n - 1 = j - p  BY <1>0
<1>8. Seg(rd, p, j) \o <<t>> = Seg(rd, p, k)
  <2>1. p \in Nat /\ p <= j /\ j < k /\ k <= Len(rd)  BY <1>0
  <2>2. j \in Nat /\ k \in Nat  BY <1>0
  <2>. HIDE DEF t, L, n
  <2>3. Seg(rd, p, j) \o <<rd[j + 1]>> = Seg(rd, p, j + 1)
    BY ONLY <1>2, <2>1, <2>2, SegBetween
  <2>. QED  BY <2>3 DEF t
<1>9. Seg(cd, q, u) \o Seg(cd, u, r) = Seg(cd, q, r)
  <2>1. cd \in Seq(Bytes)  BY <1>2
  <2>2. q \in Nat /\ u \in Nat /\ r \in Nat /\ q <= u /\ u <= r /\ r <= Len(cd)  BY <1>0
  <2>. HIDE DEF t, L, n
  <2>. QED  BY ONLY <2>1, <2>2, SegCat
<1>. DEFINE low == G!Lower(x.low, 8)
            s == G!ExprOf(x.tokens \o <<t>>, G!Stepped(t, x.code), low, 10)
<1>10. low \in Nat /\ low >= level
  BY <1>3 DEF G!Lower
<1>11. s.code = Seg(cd, q, r)
  BY <1>2, <1>3, <1>9, SameSteps DEF G!ExprOf
<1>12. s.tokens = Seg(rd, p, k) /\ s.low = low /\ s.edge = 10
  BY <1>3, <1>8 DEF G!ExprOf
<1>13. s \in G!Exprs(Tokens(a), L, n)
  <2>1. x.edge > 8 /\ x \in L.exprs[n - 1]  BY <1>3, <1>4, <1>7
  <2>. HIDE DEF t, n, L
  <2>. QED  BY <1>6, <1>7, <2>1, PostfixMade
<1>. HIDE DEF s, low
<1>15. Ranked(s, level, rd[k + 1])  BY <1>5, <1>10, <1>12 DEF Ranked
<1>14. Span(rd, cd, p, k, q, r) /\ p < k
  <2>1. p <= k /\ q <= r /\ p < k  BY <1>0
  <2>. QED  BY <1>0, <2>1 DEF Span
<1>. QED  BY <1>11, <1>12, <1>13, <1>14, <1>15, ExpressionMade

(* A value in parentheses is an operand.                                   *)
LEMMA GroupOperand ==
  ASSUME NEW a, NEW rd, NEW cd, NEW p, NEW i, NEW j, NEW q, NEW r, NEW level, NEW k,
         Context(a, rd, cd), p \in Nat, i = p + 1, level \in 1 .. 9,
         rd[i] = "(", Value(Language[a], rd, cd, i, j, q, r, 1), rd[j + 1] = ")",
         k = j + 1, k < Len(rd)
  PROVE  Operand(Language[a], rd, cd, p, k, q, r, level)
<1>. DEFINE L == Language[a]
            n == k - p
<1>1. Span(rd, cd, i, j, q, r) /\ i < j  BY DEF Operand, Value
<1>2. /\ a \in Alphabets /\ Reads(a, rd) /\ cd \in Seq(Bytes)
      /\ rd \in Seq(Tokens(a) \cup {"EOF"})
  BY <1>1, Stretches
<1>0. /\ Len(cd) \in Nat /\ Len(rd) \in Nat /\ i \in Nat /\ j \in Nat /\ q \in Nat /\ r \in Nat
      /\ q <= r /\ i < j /\ j < Len(rd) /\ r <= Len(cd)
  BY <1>1, Stretches
<1>3. PICK x \in L.exprs[j - i] : x.tokens = Seg(rd, i, j) /\ x.code = Seg(cd, q, r)
  BY DEF Operand, Value
<1>4. Precedence(rd[k + 1]) \in 0 .. 9  BY Precedences
<1>5. "(" \in Tokens(a)
  <2>1. i # 0 /\ i <= Len(rd) - 1  BY <1>0
  <2>. QED  BY <1>0, <1>2, <2>1, TokenRead
<1>6. n \in Nat /\ n >= 3 /\ n - 2 = j - i  BY <1>0
<1>7. G!Parens(Seg(rd, i, j)) = Seg(rd, p, k)
  <2>1. /\ p \in Nat /\ i \in Nat /\ j \in Nat /\ k \in Nat /\ p <= p /\ p < j /\ i <= j
        /\ p <= j /\ j < k /\ k <= Len(rd) /\ j <= Len(rd) /\ i = p + 1
    BY <1>0
  <2>. HIDE DEF L, n
  <2>2. Seg(rd, p, j) = <<rd[i]>> \o Seg(rd, i, j)  BY ONLY <1>2, <2>1, SegFirst
  <2>3. Seg(rd, p, k) = Seg(rd, p, j) \o <<rd[k]>>  BY ONLY <1>2, <2>1, k = j + 1, SegLast
  <2>. QED  BY <2>2, <2>3 DEF G!Parens
<1>. DEFINE s == G!ExprOf(G!Parens(x.tokens), x.code, 10, 10)
<1>8. s.tokens = Seg(rd, p, k) /\ s.code = Seg(cd, q, r) /\ s.low = 10 /\ s.edge = 10
  BY <1>3, <1>7 DEF G!ExprOf
<1>9. s \in G!Exprs(Tokens(a), L, n)
  <2>1. x \in L.exprs[n - 2]  BY <1>3, <1>6
  <2>. HIDE DEF n, L
  <2>. QED  BY <1>5, <1>6, <2>1, GroupMade
<1>. HIDE DEF s
<1>10. Ranked(s, level, rd[k + 1])  BY <1>4, <1>8 DEF Ranked
<1>11. Span(rd, cd, p, k, q, r) /\ p < k
  <2>1. p <= k /\ p < k /\ k \in Nat  BY <1>0
  <2>. QED  BY <1>0, <2>1 DEF Span
<1>. QED  BY <1>8, <1>9, <1>10, <1>11, ExpressionMade

(* A name, `=` and a value make an operand at the lowest level.            *)
LEMMA AssignOperand ==
  ASSUME NEW a, NEW rd, NEW cd, Context(a, rd, cd),
         NEW p \in Nat, NEW i, i = p + 2, NEW j, NEW q, NEW u, NEW r,
         rd[p + 1] \in Names, rd[i] = "=", Value(Language[a], rd, cd, i, j, q, u, 1),
         r \in Nat, u <= r, r <= Len(cd),
         Seg(cd, u, r) = OperandCode("SETGLOBAL", Index[rd[p + 1]])
  PROVE  Operand(Language[a], rd, cd, p, j, q, r, 1)
<1>. DEFINE t == rd[p + 1]
            L == Language[a]
            n == j - p
<1>1. Span(rd, cd, i, j, q, u) /\ i < j  BY DEF Operand, Value
<1>2. /\ a \in Alphabets /\ Reads(a, rd) /\ cd \in Seq(Bytes)
      /\ rd \in Seq(Tokens(a) \cup {"EOF"}) /\ Seg(cd, q, u) \in Seq(Bytes)
  BY <1>1, Stretches
<1>0. /\ Len(cd) \in Nat /\ Len(rd) \in Nat /\ i \in Nat /\ j \in Nat /\ q \in Nat /\ u \in Nat
      /\ q <= u /\ i < j /\ j < Len(rd) /\ u <= Len(cd)
  BY <1>1, Stretches
<1>3. PICK x \in L.exprs[j - i] : x.tokens = Seg(rd, i, j) /\ x.code = Seg(cd, q, u)
  BY DEF Operand, Value
<1>4. Precedence(rd[j + 1]) \in 0 .. 9 /\ Precedence(rd[j + 1]) < 1  BY Precedences DEF Value
<1>5. "=" \in Tokens(a) /\ t \in Tokens(a)
  <2>1. i # 0 /\ i <= Len(rd) - 1 /\ p + 1 # 0 /\ p + 1 \in Nat /\ p + 1 <= Len(rd) - 1  BY <1>0
  <2>. QED  BY <1>0, <1>2, <2>1, TokenRead
<1>6. n \in Nat /\ n >= 3 /\ n - 2 = j - i  BY <1>0
<1>7. <<t, "=">> \o Seg(rd, i, j) = Seg(rd, p, j)
  <2>. DEFINE m == p + 1
  <2>1. /\ p \in Nat /\ m \in Nat /\ i \in Nat /\ j \in Nat /\ p < m /\ m < i /\ i < j /\ j <= Len(rd)
        /\ p <= m /\ m <= i /\ i <= j /\ p <= i
    BY <1>0
  <2>2. i = m + 1  OBVIOUS
  <2>3. m < Len(rd) /\ p < Len(rd) /\ i <= Len(rd) /\ p <= p /\ m <= m  BY <1>0
  <2>4. Seg(rd, p, m) = <<rd[m]>>  BY <1>2, <2>1, <2>3, SegOne
  <2>. HIDE DEF L, n, t, m
  <2>5. Seg(rd, m, i) = <<rd[i]>>  BY ONLY <1>2, <2>1, <2>2, <2>3, SegOne
  <2>6. Seg(rd, p, i) = Seg(rd, p, m) \o Seg(rd, m, i)  BY ONLY <1>2, <2>1, <2>3, SegCat
  <2>7. Seg(rd, p, j) = Seg(rd, p, i) \o Seg(rd, i, j)  BY ONLY <1>2, <2>1, <2>3, SegCat
  <2>8. <<rd[m]>> \o <<rd[i]>> = <<rd[m], rd[i]>>  BY Pairs
  <2>. QED  BY <2>4, <2>5, <2>6, <2>7, <2>8 DEF t, m
<1>8. Seg(cd, q, u) \o Seg(cd, u, r) = Seg(cd, q, r)
  <2>1. cd \in Seq(Bytes)  BY <1>2
  <2>2. q \in Nat /\ u \in Nat /\ r \in Nat /\ q <= u /\ u <= r /\ r <= Len(cd)  BY <1>0
  <2>. HIDE DEF t, L, n
  <2>. QED  BY ONLY <2>1, <2>2, SegCat
<1>. DEFINE s == G!ExprOf(<<t, "=">> \o x.tokens, G!AssignName(Index[t], x.code), 1, 1)
<1>9. s.tokens = Seg(rd, p, j) /\ s.code = Seg(cd, q, r) /\ s.low = 1 /\ s.edge = 1
  BY <1>3, <1>7, <1>8, SameOperands DEF G!ExprOf
<1>10. s \in G!Exprs(Tokens(a), L, n)
  <2>1. x \in L.exprs[n - 2] /\ t \in Tokens(a) \cap Names  BY <1>3, <1>5, <1>6
  <2>. HIDE DEF n, L, t
  <2>. QED  BY <1>5, <1>6, <2>1, AssignMade
<1>. HIDE DEF s
<1>11. Ranked(s, 1, rd[j + 1])  BY <1>4, <1>9 DEF Ranked
<1>12. Span(rd, cd, p, j, q, r) /\ p < j
  <2>1. p <= j /\ p < j /\ q <= r  BY <1>0
  <2>. QED  BY <1>0, <2>1 DEF Span
<1>. QED  BY <1>9, <1>10, <1>11, <1>12, ExpressionMade

(* An operand and its arguments in parentheses make an operand.            *)
LEMMA CallOperand ==
  ASSUME NEW a, NEW rd, NEW cd, Context(a, rd, cd),
         NEW p, NEW j, NEW q, NEW u, NEW level \in 1 .. 9,
         Operand(Language[a], rd, cd, p, j, q, u, level),
         NEW i, i = j + 1, rd[i] = "(", NEW k, NEW v, NEW count,
         \/ count = 0 /\ k = i /\ v = u
         \/ count # 0 /\ Arguments(Language[a], rd, cd, i, k, u, v, count),
         NEW m, m = k + 1, m < Len(rd), rd[m] = ")",
         NEW r \in Nat, v <= r, r <= Len(cd), Seg(cd, v, r) = <<Opcode("CALL"), count>>
  PROVE  Operand(Language[a], rd, cd, p, m, q, r, level)
<1>. DEFINE L == Language[a]
            n == m - p
<1>1. Span(rd, cd, p, j, q, u) /\ p < j  BY DEF Operand
<1>2. /\ a \in Alphabets /\ Reads(a, rd) /\ cd \in Seq(Bytes)
      /\ rd \in Seq(Tokens(a) \cup {"EOF"})
  BY <1>1, Stretches
<1>3. /\ Len(cd) \in Nat /\ Len(rd) \in Nat /\ p \in Nat /\ j \in Nat /\ q \in Nat
      /\ u \in Nat /\ q <= u /\ j < Len(rd) /\ u <= Len(cd)
  BY <1>1, Stretches
<1>4. count # 0 => Span(rd, cd, i, k, u, v) /\ i < k  BY DEF Arguments
<1>5. count # 0 => k \in Nat /\ v \in Nat /\ u <= v  BY <1>4 DEF Span
<1>0. /\ i \in Nat /\ k \in Nat /\ v \in Nat /\ m \in Nat /\ u <= v /\ i <= k /\ p < j /\ j < i
      /\ (count # 0 => i < k)
  <2>1. i \in Nat /\ j < i  BY ONLY <1>3, i = j + 1
  <2>2. CASE count = 0
    <3>1. k = i /\ v = u  BY <2>2 DEF Arguments, Span
    <3>. QED  BY <1>1, <1>3, <2>1, <2>2, <3>1
  <2>3. CASE count # 0
    <3>1. k \in Nat /\ v \in Nat /\ u <= v /\ i < k  BY <1>4, <1>5, <2>3
    <3>2. m \in Nat /\ i <= k  BY ONLY <2>1, <3>1, m = k + 1
    <3>. QED  BY <1>1, <2>1, <3>1, <3>2
  <2>. QED  BY <2>2, <2>3
<1>6. PICK x \in L.exprs[j - p] :
        /\ x.tokens = Seg(rd, p, j) /\ x.code = Seg(cd, q, u)
        /\ x.low \in Nat /\ x.edge \in Nat /\ x.low >= level /\ Precedence("(") < x.edge
  BY DEF Operand, Ranked
<1>7. \E l \in G!Arguments(L, k - i) :
        l.tokens = Seg(rd, i, k) /\ l.args.code = Seg(cd, u, v) /\ l.args.count = count
  <2>1. CASE count = 0
    <3>. DEFINE l == [tokens |-> <<>>, args |-> G!NoArgs]
    <3>1. k = i /\ v = u  BY <2>1 DEF Arguments, Span
    <3>2. k - i = 0  BY <1>0, <3>1
    <3>3. l \in G!Arguments(L, k - i)  BY <3>2 DEF G!Arguments
    <3>4. Seg(rd, i, k) = <<>> /\ Seg(cd, u, v) = <<>>  BY <1>0, <1>3, <3>1, SegNone
    <3>5. l.tokens = <<>> /\ l.args.code = <<>> /\ l.args.count = 0  BY DEF G!NoArgs
    <3>. HIDE DEF l
    <3>. QED  BY <2>1, <3>3, <3>4, <3>5
  <2>2. CASE count # 0
    <3>1. PICK l \in L.args[k - i] :
            l.tokens = Seg(rd, i, k) /\ l.args.code = Seg(cd, u, v) /\ l.args.count = count
      BY <2>2 DEF Arguments
    <3>2. k - i # 0  BY <1>0, <2>2
    <3>. QED  BY <3>1, <3>2 DEF G!Arguments
  <2>. QED  BY <2>1, <2>2
<1>8. PICK l \in G!Arguments(L, k - i) :
        l.tokens = Seg(rd, i, k) /\ l.args.code = Seg(cd, u, v) /\ l.args.count = count
  BY <1>7
<1>9. Precedence("(") = 9  BY DEF Precedence, Level
<1>10. Precedence(rd[m + 1]) \in 0 .. 9  BY Precedences
<1>11. "(" \in Tokens(a)
  <2>1. i # 0 /\ i <= Len(rd) - 1  BY <1>0, <1>3
  <2>. QED  BY <1>0, <1>2, <2>1, TokenRead
<1>12. n \in Nat /\ n >= 3 /\ n - 2 - (j - p) = k - i /\ j - p \in 1 .. n - 2  BY <1>0, <1>3
<1>13. Seg(rd, p, j) \o G!Parens(Seg(rd, i, k)) = Seg(rd, p, m)
  <2>1. /\ p \in Nat /\ i \in Nat /\ j \in Nat /\ k \in Nat /\ m \in Nat /\ p <= j /\ i <= k
        /\ j <= k /\ j <= m /\ k <= Len(rd) /\ m <= Len(rd) /\ i = j + 1 /\ m = k + 1
    BY <1>0, <1>3
  <2>0. rd \in Seq(Tokens(a) \cup {"EOF"})  BY <1>2
  <2>. HIDE DEF L, n
  <2>2. Seg(rd, j, k) = <<rd[i]>> \o Seg(rd, i, k)
    <3>1. j \in Nat /\ i = j + 1 /\ k \in Nat /\ i <= k /\ k <= Len(rd)  BY <2>1
    <3>. QED  BY ONLY <2>0, <3>1, SegFirst
  <2>3. Seg(rd, j, m) = Seg(rd, j, k) \o <<rd[m]>>
    <3>1. j \in Nat /\ k \in Nat /\ j <= k /\ m = k + 1 /\ m <= Len(rd)  BY <2>1
    <3>. QED  BY ONLY <2>0, <3>1, SegLast
  <2>4. Seg(rd, p, m) = Seg(rd, p, j) \o Seg(rd, j, m)
    <3>1. p \in Nat /\ j \in Nat /\ m \in Nat /\ p <= j /\ j <= m /\ m <= Len(rd)  BY <2>1
    <3>. QED  BY ONLY <2>0, <3>1, SegCat
  <2>. QED  BY <2>2, <2>3, <2>4 DEF G!Parens
<1>14. Seg(cd, q, u) \o Seg(cd, u, v) \o Seg(cd, v, r) = Seg(cd, q, r)
  <2>1. cd \in Seq(Bytes)  BY <1>2
  <2>2. /\ q \in Nat /\ u \in Nat /\ v \in Nat /\ r \in Nat /\ q <= u /\ u <= v /\ v <= r
        /\ r <= Len(cd)
    BY <1>0, <1>3
  <2>3. Seg(cd, q, r) = Seg(cd, q, u) \o Seg(cd, u, v) \o Seg(cd, v, r)
    <3>1. Cut(cd, q, u, v) /\ Cut(cd, q, v, r)  BY ONLY <2>1, <2>2 DEF Cut
    <3>. QED  BY ONLY <3>1, CutInThree
  <2>. QED  BY <2>3
<1>. DEFINE low == G!Lower(x.low, 9)
            s == G!ExprOf(x.tokens \o G!Parens(l.tokens), G!CallCode(x.code, l.args), low, 10)
<1>15. s.tokens = Seg(rd, p, m) /\ s.low = low /\ s.edge = 10
  BY <1>6, <1>8, <1>13 DEF G!ExprOf
<1>16. s.code = Seg(cd, q, r)
  BY <1>6, <1>8, <1>14, SameOpcode DEF G!ExprOf, G!CallCode
<1>17. s \in G!Exprs(Tokens(a), L, n)
  <2>1. x.edge > 9  BY <1>6, <1>9
  <2>2. l \in G!Arguments(L, n - 2 - (j - p))  BY <1>8, <1>12
  <2>. HIDE DEF n, L
  <2>. QED  BY <1>6, <1>11, <1>12, <2>1, <2>2, CallMade
<1>18. low \in Nat /\ low >= level  BY <1>6 DEF G!Lower
<1>. HIDE DEF s, low
<1>19. Ranked(s, level, rd[m + 1])  BY <1>10, <1>15, <1>18 DEF Ranked
<1>20. Span(rd, cd, p, m, q, r) /\ p < m
  <2>1. p <= m /\ p < m /\ q <= r  BY <1>0, <1>3
  <2>. QED  BY <1>0, <1>3, <2>1 DEF Span
<1>. QED  BY <1>15, <1>16, <1>17, <1>19, <1>20, ExpressionMade

(* Arguments of the grammar that have the tokens and the code are          *)
(* arguments here.                                                         *)
LEMMA ArgumentsMade ==
  ASSUME NEW a, NEW rd, NEW cd, Context(a, rd, cd),
         NEW p, NEW j, NEW q, NEW r, Span(rd, cd, p, j, q, r), p < j, NEW count,
         NEW s \in G!ArgLists(Tokens(a), Language[a], j - p),
         s.tokens = Seg(rd, p, j), s.args.code = Seg(cd, q, r), s.args.count = count
  PROVE  Arguments(Language[a], rd, cd, p, j, q, r, count)
<1>1. s \in Language[a].args[j - p]  BY Stretches, Composes
<1>. QED  BY <1>1 DEF Arguments

(* A value behind the arguments passed is one more.                        *)
LEMMA MoreArguments ==
  ASSUME NEW a, NEW rd, NEW cd, Context(a, rd, cd), "(" \in Tokens(a),
         NEW p, NEW j, NEW k, NEW q, NEW u, NEW r, NEW count \in Nat, count < MAX_ARGUMENTS,
         Passed(Language[a], rd, cd, p, j, q, u, count),
         Value(Language[a], rd, cd, j, k, u, r, 1)
  PROVE  Arguments(Language[a], rd, cd, p, k, q, r, count + 1)
<1>. DEFINE L == Language[a]
            n == k - p
<1>1. Span(rd, cd, j, k, u, r) /\ j < k  BY DEF Operand, Value
<1>2. /\ a \in Alphabets /\ Reads(a, rd) /\ cd \in Seq(Bytes)
      /\ rd \in Seq(Tokens(a) \cup {"EOF"})
  BY <1>1, Stretches
<1>3. /\ Len(cd) \in Nat /\ Len(rd) \in Nat /\ j \in Nat /\ k \in Nat /\ u \in Nat
      /\ r \in Nat /\ u <= r /\ k < Len(rd) /\ r <= Len(cd)
  BY <1>1, Stretches
<1>7. ASSUME NEW i \in Nat, p \in Nat, p <= i, j = i + 1
      PROVE  Seg(rd, p, k) = Seg(rd, p, i) \o <<rd[j]>> \o Seg(rd, j, k)
  <2>1. rd \in Seq(Tokens(a) \cup {"EOF"})  BY <1>2
  <2>2. p \in Nat /\ p <= i /\ j = i + 1 /\ j <= k /\ k \in Nat /\ k <= Len(rd)
    BY <1>1, <1>3, <1>7
  <2>. HIDE DEF L, n
  <2>. QED  BY ONLY <2>1, <2>2, SegMiddle
<1>4. PICK y \in L.exprs[k - j] : y.tokens = Seg(rd, j, k) /\ y.code = Seg(cd, u, r)
  BY DEF Operand, Value
<1>5. CASE count = 0
  <2>1. j = p /\ u = q  BY <1>5 DEF Passed
  <2>. DEFINE s == G!ArgsOf(y.tokens, G!Arg(y.code))
  <2>2. s \in G!ArgLists(Tokens(a), L, n)
    <3>. HIDE DEF L, n
    <3>1. y \in L.exprs[n]  BY <1>4, <2>1 DEF n
    <3>. QED  BY <3>1, ArgumentMade
  <2>3. s.tokens = Seg(rd, p, k) /\ s.args.code = Seg(cd, q, r) /\ s.args.count = 1
    BY <1>4, <2>1 DEF G!ArgsOf, G!Arg
  <2>. HIDE DEF s
  <2>4. Span(rd, cd, p, k, q, r) /\ p < k  BY <1>1, <2>1
  <2>5. count + 1 = 1  BY <1>5
  <2>. QED  BY <2>2, <2>3, <2>4, <2>5, ArgumentsMade
<1>6. CASE count # 0
  <2>1. j # 0 /\ j \in Nat /\ rd[j] = "COMMA" /\ Arguments(L, rd, cd, p, j - 1, q, u, count)
    BY <1>3, <1>6 DEF Passed
  <2>0. j - 1 \in Nat /\ j = (j - 1) + 1
    <3>1. j # 0 /\ j \in Nat  BY <2>1
    <3>. QED  BY ONLY <3>1
  <2>2. PICK i \in Nat : j = i + 1 /\ Arguments(L, rd, cd, p, i, q, u, count)
    <3>. HIDE DEF L
    <3>. QED  BY <2>0, <2>1, Zenon
  <2>3. Span(rd, cd, p, i, q, u) /\ p < i  BY <2>2 DEF Arguments
  <2>4. p \in Nat /\ q \in Nat /\ q <= u  BY <2>3 DEF Span
  <2>8. Seg(rd, p, i) \o <<"COMMA">> \o Seg(rd, j, k) = Seg(rd, p, k)
    <3>1. p <= i  BY <2>3, <2>4
    <3>. QED  BY <1>7, <2>1, <2>2, <2>4, <3>1
  <2>5. PICK l \in L.args[i - p] :
          l.tokens = Seg(rd, p, i) /\ l.args.code = Seg(cd, q, u) /\ l.args.count = count
    BY <2>2 DEF Arguments
  <2>. DEFINE b == [code |-> l.args.code \o y.code, count |-> l.args.count + 1]
              s == G!ArgsOf(l.tokens \o <<"COMMA">> \o y.tokens, b)
  <2>6. i - p \in 1 .. n - 2 /\ n - 1 - (i - p) = k - j  BY <1>1, <1>3, <2>2, <2>3, <2>4
  <2>7. s \in G!ArgLists(Tokens(a), L, n)
    <3>1. l \in L.args[i - p] /\ y \in L.exprs[n - 1 - (i - p)] /\ l.args.count < MAX_ARGUMENTS
      BY <1>4, <2>5, <2>6
    <3>. HIDE DEF L, n
    <3>. QED  BY <2>6, <3>1, ArgumentMade
  <2>9. Seg(cd, q, u) \o Seg(cd, u, r) = Seg(cd, q, r)
    <3>1. q \in Nat /\ u \in Nat /\ r \in Nat /\ q <= u /\ u <= r /\ r <= Len(cd)
      BY <1>3, <2>4
    <3>. HIDE DEF L, n
    <3>. QED  BY ONLY <1>2, <3>1, SegCat
  <2>10. s.tokens = Seg(rd, p, k) /\ s.args.code = Seg(cd, q, r) /\ s.args.count = count + 1
    BY <1>4, <2>5, <2>8, <2>9 DEF G!ArgsOf
  <2>. HIDE DEF s, b
  <2>11. Span(rd, cd, p, k, q, r) /\ p < k
    <3>1. p <= k /\ p < k /\ q <= r  BY <1>1, <1>3, <2>2, <2>3, <2>4
    <3>. QED  BY <1>3, <2>4, <3>1 DEF Span
  <2>. QED  BY <2>7, <2>10, <2>11, ArgumentsMade
<1>. QED  BY <1>5, <1>6

(* A jump depends on the length of what it skips.                          *)
LEMMA SameJumps ==
  ASSUME NEW x, NEW y, Len(x) = Len(y)
  PROVE  /\ \A op : G!JumpCode(op) = JumpCode(op)
         /\ G!BackwardJump(x) = G!BackwardJump(y)
<1>1. G!MaxByte = MaxByte  BY DEF G!MaxByte, MaxByte
<1>2. \A op : G!JumpCode(op) = JumpCode(op)  BY <1>1, SameOpcode DEF G!JumpCode, JumpCode
<1>3. G!BackwardJump(x) = G!BackwardJump(y)  BY DEF G!BackwardJump
<1>. QED  BY <1>2, <1>3

(* A script has no locals to pop at the end of a scope.                    *)
LEMMA NoPops == ASSUME NEW c \in Seq(Bytes)  PROVE G!ScopeStat(c, 0) = c /\ c \o G!Pops(0) = c
<1>1. G!Pops(0) = <<>>  BY DEF G!Pops
<1>. QED  BY <1>1 DEF G!ScopeStat

(* The first token of a stretch.                                           *)
LEMMA FirstToken ==
  ASSUME NEW S, NEW s \in Seq(S), NEW i \in Nat, NEW j \in Nat, i < j, j <= Len(s)
  PROVE  Seg(s, i, j)[1] = s[i + 1]
<1>1. 1 \in 1 .. j - i /\ i <= j  OBVIOUS
<1>. QED  BY <1>1, SegIs

(* Nothing that could go on with a value follows it.                       *)
LEMMA EndsValue ==
  ASSUME NEW L, NEW rd, NEW cd, NEW p, NEW j, NEW q, NEW r, Value(L, rd, cd, p, j, q, r, 1)
  PROVE  /\ rd[j + 1] \notin G!Continuing
         /\ Span(rd, cd, p, j, q, r) /\ p < j
         /\ \E e \in L.exprs[j - p] : e.tokens = Seg(rd, p, j) /\ e.code = Seg(cd, q, r)
<1>1. Precedence(rd[j + 1]) < 1 /\ rd[j + 1] # "="  BY DEF Value
<1>2. Precedence(rd[j + 1]) \in 0 .. 9  BY Precedences
<1>3. ~ (Precedence(rd[j + 1]) >= 1)  BY <1>1, <1>2
<1>. QED  BY <1>1, <1>3, SameLevels DEF Value, Operand

(* A value and what drops or prints it make a statement.                   *)
LEMMA ExpressionStatement ==
  ASSUME NEW a, NEW rd, NEW cd, Context(a, rd, cd),
         NEW p, NEW j, NEW q, NEW u, NEW r, Value(Language[a], rd, cd, p, j, q, u, 1),
         r \in Nat, u <= r, r <= Len(cd), Seg(cd, u, r) = StatCode
  PROVE  Statement(Language[a], rd, cd, p, j, q, r)
<1>. DEFINE L == Language[a]
            n == j - p
<1>1. rd[j + 1] \notin G!Continuing /\ Span(rd, cd, p, j, q, u) /\ p < j
  BY EndsValue
<1>2. cd \in Seq(Bytes)  BY DEF Context
<1>0. /\ p \in Nat /\ j \in Nat /\ q \in Nat /\ u \in Nat /\ q <= u /\ j < Len(rd)
  BY <1>1 DEF Span
<1>3. Seg(cd, q, r) = Seg(cd, q, u) \o Seg(cd, u, r)
  <2>1. q \in Nat /\ u \in Nat /\ r \in Nat /\ q <= u /\ u <= r /\ r <= Len(cd)  BY <1>0
  <2>. HIDE DEF L, n
  <2>. QED  BY ONLY <1>2, <2>1, SegCat
<1>4. PICK e \in L.exprs[n] : e.tokens = Seg(rd, p, j) /\ e.code = Seg(cd, q, u)
  BY EndsValue
<1>. DEFINE s == G!StmtOf(e.tokens, G!ExprStat(e.code, REPL), G!Continuing)
<1>5. s \in G!Stmts(Tokens(a), L, n)
  <2>1. n \in Nat  BY <1>0, <1>1
  <2>. HIDE DEF L, n
  <2>. QED  BY <1>4, <2>1, SimpleMade
<1>6. s.tokens = Seg(rd, p, j) /\ s.code = Seg(cd, q, r) /\ s.excluded = G!Continuing
  BY <1>3, <1>4, SameEmit DEF G!StmtOf, G!ExprStat, StatCode
<1>. HIDE DEF s
<1>7. Span(rd, cd, p, j, q, r)
  <2>1. q <= r  BY <1>0
  <2>. QED  BY <1>0, <1>1, <2>1 DEF Span
<1>. QED  BY <1>1, <1>5, <1>6, <1>7, StatementMade

(* A lone semicolon or `bind` is a statement.                              *)
LEMMA SkippedStatement ==
  ASSUME NEW a, NEW rd, NEW cd, NEW p, NEW k, NEW q,
         Context(a, rd, cd), k = p + 1, Span(rd, cd, p, k, q, q),
         rd[k] \in {"SEMICOLON", "BIND"}
  PROVE  Statement(Language[a], rd, cd, p, k, q, q)
<1>. DEFINE t == rd[k]
            s == G!StmtOf(<<t>>, <<>>, {})
<1>1. /\ a \in Alphabets /\ Reads(a, rd) /\ rd \in Seq(Tokens(a) \cup {"EOF"}) /\ Len(rd) \in Nat
      /\ p \in Nat /\ k \in Nat /\ q \in Nat /\ k <= Len(rd) - 1
  BY Stretches
<1>0. p < Len(rd) /\ p < k /\ k - p = 1 /\ k # 0  BY <1>1
<1>2. t \in Tokens(a)  BY <1>0, <1>1, TokenRead
<1>3. Seg(rd, p, k) = <<t>>
  <2>1. Seg(rd, p, p + 1) = <<rd[p + 1]>>  BY <1>0, <1>1, SegOne
  <2>. QED  BY <2>1
<1>4. Seg(cd, q, q) = <<>>  BY <1>1, SegNone
<1>5. s \in G!Stmts(Tokens(a), Language[a], k - p)
  <2>1. \A T, L : t \in T /\ t \in {"SEMICOLON", "BIND"} => s \in G!Stmts(T, L, 1)
    <3>. HIDE DEF t
    <3>. QED  BY SimpleMade
  <2>. QED  BY <1>0, <1>2, <2>1
<1>6. s.tokens = Seg(rd, p, k) /\ s.code = Seg(cd, q, q) /\ s.excluded = {}
  BY <1>3, <1>4 DEF G!StmtOf
<1>. HIDE DEF s
<1>7. rd[k + 1] \notin s.excluded  BY <1>6
<1>. QED  BY <1>0, <1>5, <1>6, <1>7, StatementMade

(* print and return make a statement with a value.                         *)
LEMMA KeywordStatement ==
  ASSUME NEW a, NEW rd, NEW cd, NEW p, NEW i, NEW j, NEW q, NEW u, NEW r,
         Context(a, rd, cd), p \in Nat, i = p + 1, rd[i] \in {"PRINT", "RETURN"},
         Value(Language[a], rd, cd, i, j, q, u, 1), r \in Nat, u <= r, r <= Len(cd),
         Seg(cd, u, r) = <<Opcode(rd[i])>>
  PROVE  Statement(Language[a], rd, cd, p, j, q, r)
<1>. DEFINE L == Language[a]
            n == j - p
            t == rd[i]
<1>1. rd[j + 1] \notin G!Continuing /\ Span(rd, cd, i, j, q, u) /\ i < j
  BY EndsValue
<1>2. /\ cd \in Seq(Bytes) /\ a \in Alphabets /\ Reads(a, rd)
      /\ rd \in Seq(Tokens(a) \cup {"EOF"})
  BY <1>1, Stretches
<1>0. /\ i \in Nat /\ j \in Nat /\ q \in Nat /\ u \in Nat /\ q <= u /\ j < Len(rd)
      /\ Len(rd) \in Nat
  BY <1>1, Stretches
<1>3. Seg(cd, q, r) = Seg(cd, q, u) \o Seg(cd, u, r)
  <2>1. q \in Nat /\ u \in Nat /\ r \in Nat /\ q <= u /\ u <= r /\ r <= Len(cd)  BY <1>0
  <2>. HIDE DEF L, n, t
  <2>. QED  BY ONLY <1>2, <2>1, SegCat
<1>4. Seg(rd, p, j) = <<t>> \o Seg(rd, i, j)
  <2>1. p \in Nat /\ i = p + 1 /\ j \in Nat /\ i <= j /\ j <= Len(rd)  BY <1>0, <1>1
  <2>. HIDE DEF L, n
  <2>. QED  BY ONLY <1>2, <2>1, SegFirst
<1>5. t \in Tokens(a)
  <2>1. i # 0 /\ i <= Len(rd) - 1  BY <1>0, <1>1
  <2>. QED  BY <1>0, <1>2, <2>1, TokenRead
<1>6. PICK e \in L.exprs[j - i] : e.tokens = Seg(rd, i, j) /\ e.code = Seg(cd, q, u)
  BY EndsValue
<1>7. n \in Nat /\ n # 1 /\ n - 1 = j - i  BY <1>0, <1>1
<1>. DEFINE s == G!StmtOf(<<t>> \o e.tokens,
                          IF t = "PRINT" THEN G!PrintStat(e.code) ELSE G!ReturnStat(e.code),
                          G!Continuing)
<1>8. s \in G!Stmts(Tokens(a), L, n)
  <2>1. e \in L.exprs[n - 1]  BY <1>6, <1>7
  <2>2. /\ t = "PRINT" => G!StmtOf(<<t>> \o e.tokens, G!PrintStat(e.code), G!Continuing)
                            \in G!Stmts(Tokens(a), L, n)
        /\ t = "RETURN" => G!StmtOf(<<t>> \o e.tokens, G!ReturnStat(e.code), G!Continuing)
                             \in G!Stmts(Tokens(a), L, n)
    <3>. HIDE DEF L, n, t, s
    <3>. QED  BY <1>5, <1>7, <2>1, SimpleMade
  <2>. QED  BY <2>2
<1>9. s.tokens = Seg(rd, p, j) /\ s.code = Seg(cd, q, r) /\ s.excluded = G!Continuing
  BY <1>3, <1>4, <1>6, SameEmit DEF G!StmtOf, G!PrintStat, G!ReturnStat
<1>. HIDE DEF s
<1>10. Span(rd, cd, p, j, q, r) /\ p < j
  <2>1. q <= r /\ p <= j /\ p < j  BY <1>0, <1>1
  <2>. QED  BY <1>0, <2>1 DEF Span
<1>. QED  BY <1>1, <1>8, <1>9, <1>10, StatementMade

(* return and a semicolon are a statement that returns void.               *)
LEMMA ReturnsVoid ==
  ASSUME NEW a, NEW rd, NEW cd, NEW p, NEW k, NEW q, NEW u, NEW r,
         Context(a, rd, cd), k = p + 2, u \in Nat, Span(rd, cd, p, k, q, r), q <= u,
         u <= r, rd[p + 1] = "RETURN", rd[k] = "SEMICOLON",
         Seg(cd, q, u) = ConstantCode(Index["void"]),
         Seg(cd, u, r) = <<Opcode("RETURN")>>
  PROVE  Statement(Language[a], rd, cd, p, k, q, r)
<1>. DEFINE s == G!StmtOf(<<"RETURN", "SEMICOLON">>, G!ReturnStat(G!Literal(Index["void"])), {})
<1>1. /\ a \in Alphabets /\ Reads(a, rd) /\ cd \in Seq(Bytes)
      /\ rd \in Seq(Tokens(a) \cup {"EOF"}) /\ Len(rd) \in Nat
      /\ p \in Nat /\ k \in Nat /\ q \in Nat /\ r \in Nat /\ k <= Len(rd) - 1 /\ r <= Len(cd)
  BY Stretches
<1>0. /\ p + 1 \in Nat /\ p < Len(rd) /\ p + 1 < Len(rd) /\ p < k /\ k - p = 2 /\ k # 0
      /\ p + 1 # 0 /\ p + 1 <= Len(rd) - 1 /\ p <= p + 1 /\ p + 1 <= k /\ k <= Len(rd)
  BY <1>1
<1>2. "RETURN" \in Tokens(a) /\ "SEMICOLON" \in Tokens(a)
  <2>1. rd[p + 1] \in Tokens(a)  BY <1>0, <1>1, TokenRead
  <2>2. rd[k] \in Tokens(a)  BY <1>0, <1>1, TokenRead
  <2>. QED  BY <2>1, <2>2
<1>3. Seg(rd, p, k) = <<"RETURN", "SEMICOLON">>
  <2>. DEFINE m == p + 1
  <2>0. /\ p \in Nat /\ m \in Nat /\ k \in Nat /\ p <= m /\ m <= k /\ k <= Len(rd) /\ k = m + 1
        /\ m < Len(rd) /\ p < Len(rd)
    BY <1>0, <1>1
  <2>1. Seg(rd, p, m) = <<rd[m]>>  BY <1>0, <1>1, SegOne
  <2>. HIDE DEF m, s
  <2>2. Seg(rd, p, k) = Seg(rd, p, m) \o <<rd[k]>>  BY ONLY <1>1, <2>0, SegLast
  <2>3. <<rd[m]>> \o <<rd[k]>> = <<rd[m], rd[k]>>  BY Pairs
  <2>4. rd[m] = "RETURN"  BY DEF m
  <2>. QED  BY <2>1, <2>2, <2>3, <2>4
<1>4. Seg(cd, q, r) = Seg(cd, q, u) \o Seg(cd, u, r)
  <2>1. q \in Nat /\ u \in Nat /\ r \in Nat /\ q <= u /\ u <= r /\ r <= Len(cd)  BY <1>1
  <2>. QED  BY ONLY <1>1, <2>1, SegCat
<1>5. s \in G!Stmts(Tokens(a), Language[a], k - p)
  <2>1. \A T, L : {"RETURN", "SEMICOLON"} \subseteq T => s \in G!Stmts(T, L, 2)
    BY SimpleMade
  <2>. HIDE DEF s
  <2>. QED  BY <1>0, <1>2, <2>1
<1>6. s.tokens = Seg(rd, p, k) /\ s.code = Seg(cd, q, r) /\ s.excluded = {}
  BY <1>3, <1>4, SameOperands, SameEmit DEF G!StmtOf, G!ReturnStat
<1>. HIDE DEF s
<1>7. rd[k + 1] \notin s.excluded  BY <1>6
<1>. QED  BY <1>0, <1>5, <1>6, <1>7, StatementMade

(* A condition and a statement behind it, from behind the keyword.         *)
Conditional(L, rd, cd, T, p, i, t, j, q, h, v, u) ==
  /\ i \in Nat /\ t \in Nat /\ j \in Nat /\ q \in Nat /\ h \in Nat /\ v \in Nat /\ u \in Nat
  /\ i < t /\ t < j /\ j < Len(rd) /\ q <= h /\ v <= u /\ u <= Len(cd) /\ h <= Len(cd)
  /\ rd[i] \in T
  /\ <<rd[i]>> \o Seg(rd, i, t) \o Seg(rd, t, j) = Seg(rd, p, j)
  /\ \E e \in L.exprs[t - i], s \in L.stmts[j - t] :
       /\ e.tokens = Seg(rd, i, t) /\ e.code = Seg(cd, q, h)
       /\ s.tokens = Seg(rd, t, j) /\ s.code = Seg(cd, v, u)
       /\ rd[j + 1] \notin s.excluded
       /\ [cond |-> e, body |-> s] \in G!Guarded(L, j - i)

(* A condition and a body, as the rules of while and if need them.         *)
LEMMA ConditionAndBody ==
  ASSUME NEW a, NEW rd, NEW cd, Context(a, rd, cd),
         NEW p \in Nat, NEW i, i = p + 1, NEW t, NEW j, NEW q, NEW h, NEW v, NEW u,
         Value(Language[a], rd, cd, i, t, q, h, 1),
         Statement(Language[a], rd, cd, t, j, v, u)
  PROVE  Conditional(Language[a], rd, cd, Tokens(a), p, i, t, j, q, h, v, u)
<1>. DEFINE L == Language[a]
<1>1. rd[t + 1] \notin G!Continuing /\ Span(rd, cd, i, t, q, h) /\ i < t
  BY EndsValue
<1>2. Span(rd, cd, t, j, v, u) /\ t < j  BY DEF Statement
<1>3. /\ a \in Alphabets /\ Reads(a, rd) /\ rd \in Seq(Tokens(a) \cup {"EOF"})
      /\ Len(rd) \in Nat
  BY <1>1, Stretches
<1>4. /\ i \in Nat /\ t \in Nat /\ q \in Nat /\ h \in Nat /\ q <= h /\ h <= Len(cd)
      /\ j \in Nat /\ v \in Nat /\ u \in Nat /\ v <= u /\ u <= Len(cd) /\ j < Len(rd)
  BY <1>1, <1>2 DEF Span
<1>5. rd[i] \in Tokens(a)
  <2>1. i # 0 /\ i <= Len(rd) - 1  BY <1>1, <1>2, <1>3, <1>4
  <2>. QED  BY <1>3, <1>4, <2>1, TokenRead
<1>6. <<rd[i]>> \o Seg(rd, i, t) \o Seg(rd, t, j) = Seg(rd, p, j)
  <2>1. /\ p \in Nat /\ i = p + 1 /\ t \in Nat /\ i <= t /\ t <= Len(rd)
        /\ j \in Nat /\ p <= t /\ t <= j /\ j <= Len(rd)
    BY <1>1, <1>2, <1>3, <1>4
  <2>. HIDE DEF L
  <2>2. Seg(rd, p, t) = <<rd[i]>> \o Seg(rd, i, t)  BY ONLY <1>3, <2>1, SegFirst
  <2>3. Seg(rd, p, j) = Seg(rd, p, t) \o Seg(rd, t, j)  BY ONLY <1>3, <2>1, SegCat
  <2>. QED  BY <2>2, <2>3
<1>7. Seg(rd, t, j)[1] = rd[t + 1]
  <2>1. t \in Nat /\ j \in Nat /\ t < j /\ j <= Len(rd)  BY <1>2, <1>3, <1>4
  <2>. HIDE DEF L
  <2>. QED  BY ONLY <1>3, <2>1, FirstToken
<1>8. PICK e \in L.exprs[t - i] : e.tokens = Seg(rd, i, t) /\ e.code = Seg(cd, q, h)
  BY EndsValue
<1>9. PICK s \in L.stmts[j - t] :
        s.tokens = Seg(rd, t, j) /\ s.code = Seg(cd, v, u) /\ rd[j + 1] \notin s.excluded
  BY DEF Statement
<1>10. G!Starts(s, G!Continuing)  BY <1>1, <1>7, <1>9 DEF G!Starts
<1>11. [cond |-> e, body |-> s] \in G!Guarded(L, j - i)
  <2>1. t - i \in 1 .. (j - i) - 1 /\ (j - i) - (t - i) = j - t
    <3>1. i \in Nat /\ t \in Nat /\ j \in Nat /\ i < t /\ t < j  BY <1>1, <1>2, <1>4
    <3>. QED  BY ONLY <3>1
  <2>2. s \in L.stmts[(j - i) - (t - i)]  BY <1>9, <2>1
  <2>. HIDE DEF L
  <2>. QED  BY <1>8, <1>10, <2>1, <2>2, GuardedMade
<1>. QED  BY <1>1, <1>2, <1>4, <1>5, <1>6, <1>8, <1>9, <1>11 DEF Conditional

(* The length of three sequences put together.                             *)
LEMMA LenThree ==
  ASSUME NEW S, NEW x \in Seq(S), NEW y \in Seq(S), NEW z \in Seq(S)
  PROVE  x \o y \o z \in Seq(S) /\ Len(x \o y \o z) = Len(x) + Len(y) + Len(z)
<1>1. x \o y \in Seq(S) /\ Len(x \o y) = Len(x) + Len(y)  OBVIOUS
<1>. QED  BY <1>1

(* A condition, a body and the two jumps make a while.                     *)
LEMMA WhileStatement ==
  ASSUME NEW a, NEW rd, NEW cd, NEW p, NEW i, NEW t, NEW j, NEW q, NEW h, NEW v, NEW u,
         NEW r,
         Context(a, rd, cd), p \in Nat, i = p + 1, v = h + 3, rd[i] = "WHILE",
         Value(Language[a], rd, cd, i, t, q, h, 1),
         Statement(Language[a], rd, cd, t, j, v, u), r \in Nat, u <= r, r <= Len(cd),
         Seg(cd, h, v) = G!JumpOver("JMPF", Seg(cd, v, r)),
         Seg(cd, u, r) = G!BackwardJump(Seg(cd, q, u))
  PROVE  Statement(Language[a], rd, cd, p, j, q, r)
<1>. DEFINE L == Language[a]
            n == j - p
<1>0. Conditional(L, rd, cd, Tokens(a), p, i, t, j, q, h, v, u)
  BY ConditionAndBody
<1>1. /\ i \in Nat /\ t \in Nat /\ j \in Nat /\ q \in Nat /\ h \in Nat /\ v \in Nat /\ u \in Nat
      /\ i < t /\ t < j /\ j < Len(rd) /\ q <= h /\ v <= u /\ u <= Len(cd) /\ h <= Len(cd)
      /\ rd[i] \in Tokens(a)
  BY <1>0 DEF Conditional
<1>t. <<rd[i]>> \o Seg(rd, i, t) \o Seg(rd, t, j) = Seg(rd, p, j)
  BY <1>0 DEF Conditional
<1>2. cd \in Seq(Bytes)  BY DEF Context
<1>3. h <= v /\ q <= u /\ v <= r /\ h <= r  BY <1>1
<1>4. Seg(cd, q, h) \o G!JumpOver("JMPF", Seg(cd, v, u) \o Seg(cd, u, r))
        \o (Seg(cd, v, u) \o Seg(cd, u, r)) = Seg(cd, q, r)
  <2>1. /\ q \in Nat /\ h \in Nat /\ v \in Nat /\ u \in Nat /\ r \in Nat
        /\ q <= h /\ h <= v /\ v <= u /\ u <= r /\ v <= r /\ r <= Len(cd)
    BY <1>1, <1>3
  <2>. HIDE DEF L, n
  <2>2. Seg(cd, v, r) = Seg(cd, v, u) \o Seg(cd, u, r)  BY ONLY <1>2, <2>1, SegCat
  <2>3. Seg(cd, q, r) = Seg(cd, q, h) \o Seg(cd, h, v) \o Seg(cd, v, r)
    BY ONLY <1>2, <2>1, SegThree, SMTT(30)
  <2>. QED  BY <2>2, <2>3
<1>5. G!BackwardJump(Seg(cd, q, h) \o G!JumpCode("JMPF") \o Seg(cd, v, u)) = Seg(cd, u, r)
  <2>. DEFINE x == Seg(cd, q, h)
              y == Seg(cd, v, u)
              w == G!JumpCode("JMPF")
  <2>1. w \in Seq(Bytes) /\ Len(w) = 3  BY SameJumps, JumpBytes
  <2>2. x \in Seq(Bytes) /\ Len(x) = h - q /\ y \in Seq(Bytes) /\ Len(y) = u - v
        /\ Len(Seg(cd, q, u)) = u - q
    <3>1. q \in Nat /\ h \in Nat /\ v \in Nat /\ u \in Nat /\ q <= h /\ h <= Len(cd)
          /\ v <= u /\ u <= Len(cd) /\ q <= u
      BY <1>1, <1>3
    <3>. QED  BY ONLY <1>2, <3>1, SegIs
  <2>. HIDE DEF x, y, w, L, n
  <2>9. x \in Seq(Bytes)  BY <2>2
  <2>10. y \in Seq(Bytes)  BY <2>2
  <2>11. w \in Seq(Bytes)  BY <2>1
  <2>3. Len(x \o w \o y) = Len(x) + Len(w) + Len(y)
    BY ONLY <2>9, <2>10, <2>11, LenThree
  <2>4. (h - q) + 3 + (u - v) = u - q  BY <1>1
  <2>6. Len(x \o w \o y) = Len(Seg(cd, q, u))  BY ONLY <2>1, <2>2, <2>3, <2>4
  <2>5. G!BackwardJump(x \o w \o y) = G!BackwardJump(Seg(cd, q, u))  BY <2>6, SameJumps
  <2>. QED  BY <2>5 DEF x, y, w
<1>6. PICK e \in L.exprs[t - i], b \in L.stmts[j - t] :
           /\ e.tokens = Seg(rd, i, t) /\ e.code = Seg(cd, q, h)
           /\ b.tokens = Seg(rd, t, j) /\ b.code = Seg(cd, v, u)
           /\ rd[j + 1] \notin b.excluded
           /\ [cond |-> e, body |-> b] \in G!Guarded(L, j - i)
  BY <1>0 DEF Conditional
<1>. DEFINE s == G!StmtOf(<<"WHILE">> \o e.tokens \o b.tokens, G!WhileStat(e.code, b.code), b.excluded)
<1>7. s \in G!Stmts(Tokens(a), L, n)
  <2>1. n - 1 = j - i  BY <1>1
  <2>. HIDE DEF L, n
  <2>. QED  BY <1>1, <1>6, <2>1, WhileMade
<1>8. s.tokens = Seg(rd, p, j) /\ s.excluded = b.excluded
  BY <1>1, <1>t, <1>6 DEF G!StmtOf
<1>9. s.code = Seg(cd, q, r)
  <2>1. s.code = G!WhileStat(e.code, b.code)  BY DEF G!StmtOf
  <2>. HIDE DEF s
  <2>. QED  BY <1>4, <1>5, <1>6, <2>1 DEF G!WhileStat
<1>. HIDE DEF s
<1>10. Span(rd, cd, p, j, q, r) /\ p < j
  <2>1. q <= r /\ p <= j /\ p < j  BY <1>1, <1>3
  <2>. QED  BY <1>1, <2>1 DEF Span
<1>. QED  BY <1>6, <1>7, <1>8, <1>9, <1>10, StatementMade

(* Without an else, the jump behind the statement leads nowhere.           *)
IfParts(a, rd, cd, p, i, t, j, q, h, v, k, r) ==
  /\ Context(a, rd, cd) /\ p \in Nat /\ i = p + 1 /\ v = h + 3 /\ r = k + 3 /\ r <= Len(cd)
  /\ rd[i] = "IF" /\ Value(Language[a], rd, cd, i, t, q, h, 1)
  /\ Statement(Language[a], rd, cd, t, j, v, k) /\ rd[j + 1] # "ELSE"
  /\ Seg(cd, h, v) = G!JumpOver("JMPF", Seg(cd, v, r))
  /\ Seg(cd, k, r) = G!JumpOver("JMP", <<>>)

(* A condition, a body and the two jumps make an if, also where no else    *)
(* follows.                                                                *)
LEMMA IfStatement ==
  ASSUME NEW a, NEW rd, NEW cd, NEW p, NEW i, NEW t, NEW j, NEW q, NEW h, NEW v, NEW k,
         NEW r,
         IfParts(a, rd, cd, p, i, t, j, q, h, v, k, r)
  PROVE  Statement(Language[a], rd, cd, p, j, q, r)
<1>. USE DEF IfParts
<1>. DEFINE L == Language[a]
            n == j - p
<1>0. Conditional(L, rd, cd, Tokens(a), p, i, t, j, q, h, v, k)
  BY ConditionAndBody
<1>1. /\ i \in Nat /\ t \in Nat /\ j \in Nat /\ q \in Nat /\ h \in Nat /\ v \in Nat /\ k \in Nat
      /\ i < t /\ t < j /\ j < Len(rd) /\ q <= h /\ v <= k
      /\ rd[i] \in Tokens(a)
  BY <1>0 DEF Conditional
<1>t. <<rd[i]>> \o Seg(rd, i, t) \o Seg(rd, t, j) = Seg(rd, p, j)
  BY <1>0 DEF Conditional
<1>2. cd \in Seq(Bytes)  BY DEF Context
<1>3. h <= v /\ k <= r /\ v <= r /\ r \in Nat /\ q <= r  BY <1>1
<1>4. Seg(cd, q, h) \o G!JumpOver("JMPF", Seg(cd, v, k) \o Seg(cd, k, r))
        \o (Seg(cd, v, k) \o Seg(cd, k, r)) = Seg(cd, q, r) /\ Seg(cd, q, r) \in Seq(Bytes)
  <2>1. /\ q \in Nat /\ h \in Nat /\ v \in Nat /\ k \in Nat /\ r \in Nat
        /\ q <= h /\ h <= v /\ v <= k /\ k <= r /\ v <= r /\ r <= Len(cd) /\ q <= r
    BY <1>1, <1>3
  <2>. HIDE DEF L, n
  <2>2. Seg(cd, v, r) = Seg(cd, v, k) \o Seg(cd, k, r)  BY ONLY <1>2, <2>1, SegCat
  <2>3. Seg(cd, q, r) = Seg(cd, q, h) \o Seg(cd, h, v) \o Seg(cd, v, r)
    BY ONLY <1>2, <2>1, SegThree, SMTT(30)
  <2>4. Seg(cd, q, r) \in Seq(Bytes)  BY ONLY <1>2, <2>1, SegIs
  <2>. QED  BY <2>2, <2>3, <2>4
<1>5. PICK e \in L.exprs[t - i], b \in L.stmts[j - t] :
           /\ e.tokens = Seg(rd, i, t) /\ e.code = Seg(cd, q, h)
           /\ b.tokens = Seg(rd, t, j) /\ b.code = Seg(cd, v, k)
           /\ rd[j + 1] \notin b.excluded
           /\ [cond |-> e, body |-> b] \in G!Guarded(L, j - i)
  BY <1>0 DEF Conditional
<1>. DEFINE s == G!StmtOf(<<"IF">> \o e.tokens \o b.tokens, G!IfStat(e.code, b.code, <<>>),
                          b.excluded \cup {"ELSE"})
<1>6. s \in G!Stmts(Tokens(a), L, n)
  <2>1. n - 1 = j - i  BY <1>1
  <2>. HIDE DEF L, n
  <2>. QED  BY <1>1, <1>5, <2>1, IfMade
<1>7. s.tokens = Seg(rd, p, j) /\ rd[j + 1] \notin s.excluded
  BY <1>1, <1>t, <1>5 DEF G!StmtOf
<1>8. s.code = Seg(cd, q, r)
  <2>1. s.code = G!IfStat(e.code, b.code, <<>>)  BY DEF G!StmtOf
  <2>. HIDE DEF s, L, n
  <2>2. s.code = Seg(cd, q, r) \o <<>>  BY <1>4, <1>5, <2>1 DEF G!IfStat
  <2>. QED  BY ONLY <1>4, <2>2
<1>. HIDE DEF s
<1>9. Span(rd, cd, p, j, q, r) /\ p < j
  <2>1. p <= j /\ p < j  BY <1>1
  <2>. QED  BY <1>1, <1>3, <2>1 DEF Span
<1>. QED  BY <1>6, <1>7, <1>8, <1>9, StatementMade

IfElseParts(a, rd, cd, p, i, t, j, q, h, v, k, w, o, m, r) ==
  /\ Context(a, rd, cd) /\ p \in Nat /\ i = p + 1 /\ v = h + 3 /\ w = k + 3 /\ o = j + 1
  /\ rd[i] = "IF" /\ Value(Language[a], rd, cd, i, t, q, h, 1)
  /\ Statement(Language[a], rd, cd, t, j, v, k) /\ rd[o] = "ELSE"
  /\ Statement(Language[a], rd, cd, o, m, w, r)
  /\ Seg(cd, h, v) = G!JumpOver("JMPF", Seg(cd, v, w))
  /\ Seg(cd, k, w) = G!JumpOver("JMP", Seg(cd, w, r))

(* With an else and its statement, they make an if too.                    *)
LEMMA IfElseStatement ==
  ASSUME NEW a, NEW rd, NEW cd, NEW p, NEW i, NEW t, NEW j, NEW q, NEW h, NEW v, NEW k,
         NEW w, NEW o, NEW m, NEW r,
         IfElseParts(a, rd, cd, p, i, t, j, q, h, v, k, w, o, m, r)
  PROVE  Statement(Language[a], rd, cd, p, m, q, r)
<1>. USE DEF IfElseParts
<1>. DEFINE L == Language[a]
            n == m - p
<1>0. Conditional(L, rd, cd, Tokens(a), p, i, t, j, q, h, v, k)
  BY ConditionAndBody
<1>1. /\ i \in Nat /\ t \in Nat /\ j \in Nat /\ q \in Nat /\ h \in Nat /\ v \in Nat /\ k \in Nat
      /\ i < t /\ t < j /\ j < Len(rd) /\ q <= h /\ v <= k
      /\ rd[i] \in Tokens(a)
  BY <1>0 DEF Conditional
<1>t. <<rd[i]>> \o Seg(rd, i, t) \o Seg(rd, t, j) = Seg(rd, p, j)
  BY <1>0 DEF Conditional
<1>2. Span(rd, cd, o, m, w, r) /\ o < m  BY DEF Statement
<1>3. /\ cd \in Seq(Bytes) /\ a \in Alphabets /\ Reads(a, rd)
      /\ rd \in Seq(Tokens(a) \cup {"EOF"}) /\ Len(rd) \in Nat
  BY <1>2, Stretches
<1>4. o \in Nat /\ m \in Nat /\ w \in Nat /\ r \in Nat /\ m < Len(rd) /\ w <= r /\ r <= Len(cd)
  BY <1>2 DEF Span
<1>5. h <= v /\ k <= w /\ v <= w /\ q <= r /\ j < o  BY <1>1, <1>4
<1>6. Seg(cd, q, h) \o G!JumpOver("JMPF", Seg(cd, v, k) \o Seg(cd, k, w))
        \o (Seg(cd, v, k) \o Seg(cd, k, w)) \o Seg(cd, w, r) = Seg(cd, q, r)
  <2>1. /\ q \in Nat /\ h \in Nat /\ v \in Nat /\ k \in Nat /\ w \in Nat /\ r \in Nat
        /\ q <= h /\ h <= v /\ v <= k /\ k <= w /\ v <= w /\ w <= Len(cd) /\ r <= Len(cd)
        /\ w <= r /\ q <= w
    BY <1>1, <1>3, <1>4, <1>5
  <2>. HIDE DEF L, n
  <2>2. Seg(cd, v, w) = Seg(cd, v, k) \o Seg(cd, k, w)  BY ONLY <1>3, <2>1, SegCat
  <2>3. Seg(cd, q, w) = Seg(cd, q, h) \o Seg(cd, h, v) \o Seg(cd, v, w)
    BY ONLY <1>3, <2>1, SegThree, SMTT(30)
  <2>4. Seg(cd, q, r) = Seg(cd, q, w) \o Seg(cd, w, r)  BY ONLY <1>3, <2>1, SegCat
  <2>. QED  BY <2>2, <2>3, <2>4
<1>7. Seg(rd, p, m) = Seg(rd, p, j) \o <<rd[o]>> \o Seg(rd, o, m)
  <2>1. p <= j /\ o = j + 1 /\ o <= m /\ m <= Len(rd)
    BY <1>1, <1>2, <1>3, <1>4
  <2>2. p \in Nat /\ j \in Nat /\ m \in Nat /\ rd \in Seq(Tokens(a) \cup {"EOF"})
    BY <1>1, <1>3, <1>4
  <2>. HIDE DEF L, n
  <2>. QED  BY ONLY <2>1, <2>2, SegMiddle
<1>8. "ELSE" \in Tokens(a) /\ "IF" \in Tokens(a)
  <2>1. o # 0 /\ o <= Len(rd) - 1  BY <1>1, <1>2, <1>3, <1>4
  <2>2. rd[o] \in Tokens(a)  BY <1>3, <1>4, <2>1, TokenRead
  <2>. QED  BY <1>1, <2>2
<1>9. PICK e \in L.exprs[t - i], b \in L.stmts[j - t] :
           /\ e.tokens = Seg(rd, i, t) /\ e.code = Seg(cd, q, h)
           /\ b.tokens = Seg(rd, t, j) /\ b.code = Seg(cd, v, k)
           /\ rd[j + 1] \notin b.excluded
           /\ [cond |-> e, body |-> b] \in G!Guarded(L, j - i)
  BY <1>0 DEF Conditional
<1>10. PICK x \in L.stmts[m - o] :
         x.tokens = Seg(rd, o, m) /\ x.code = Seg(cd, w, r) /\ rd[m + 1] \notin x.excluded
  BY DEF Statement
<1>. DEFINE s == G!StmtOf(<<"IF">> \o e.tokens \o b.tokens \o <<"ELSE">> \o x.tokens,
                          G!IfStat(e.code, b.code, x.code), x.excluded)
<1>11. s \in G!Stmts(Tokens(a), L, n)
  <2>a. p \in Nat /\ i = p + 1 /\ o = j + 1  OBVIOUS
  <2>b. i \in Nat /\ t \in Nat /\ j \in Nat /\ m \in Nat /\ i < t /\ t < j /\ o < m
    BY <1>1, <1>2, <1>4
  <2>0. j - i \in 2 .. (m - p) - 3 /\ (m - p) - 2 - (j - i) = m - o
    BY ONLY <2>a, <2>b
  <2>1. j - i \in 2 .. n - 3 /\ n - 2 - (j - i) = m - o  BY ONLY <2>0
  <2>2. "ELSE" \notin b.excluded /\ x \in L.stmts[n - 2 - (j - i)]  BY <1>9, <1>10, <2>1
  <2>. HIDE DEF L, n
  <2>. QED  BY <1>8, <1>9, <2>1, <2>2, IfElseMade
<1>12. s.tokens = Seg(rd, p, m) /\ s.excluded = x.excluded
  BY <1>1, <1>t, <1>7, <1>9, <1>10 DEF G!StmtOf
<1>13. s.code = Seg(cd, q, r)
  <2>1. s.code = G!IfStat(e.code, b.code, x.code)  BY DEF G!StmtOf
  <2>. HIDE DEF s, L, n
  <2>. QED  BY <1>6, <1>9, <1>10, <2>1 DEF G!IfStat
<1>. HIDE DEF s
<1>14. Span(rd, cd, p, m, q, r) /\ p < m
  <2>1. p <= m /\ p < m  BY <1>1, <1>2, <1>4
  <2>. QED  BY <1>1, <1>4, <1>5, <2>1 DEF Span
<1>. QED  BY <1>10, <1>11, <1>12, <1>13, <1>14, StatementMade

(* A block: a list between braces.                                         *)
LEMMA BlockStatement ==
  ASSUME NEW a, NEW rd, NEW cd, NEW p, NEW i, NEW m, NEW j, NEW q, NEW r,
         Context(a, rd, cd), p \in Nat, i = p + 1, j = m + 1, j < Len(rd),
         rd[i] = "LBRACE", rd[j] = "RBRACE", List(Language[a], rd, cd, i, m, q, r)
  PROVE  Statement(Language[a], rd, cd, p, j, q, r)
<1>. DEFINE L == Language[a]
            n == j - p
<1>1. Span(rd, cd, i, m, q, r)  BY DEF List
<1>2. /\ a \in Alphabets /\ Reads(a, rd) /\ rd \in Seq(Tokens(a) \cup {"EOF"})
      /\ Len(rd) \in Nat /\ Seg(cd, q, r) \in Seq(Bytes)
      /\ i \in Nat /\ m \in Nat /\ q \in Nat /\ r \in Nat /\ i <= m /\ q <= r /\ r <= Len(cd)
  BY <1>1, Stretches
<1>3. j \in Nat /\ p <= i /\ p <= m /\ p < j /\ i # 0 /\ i <= Len(rd) - 1 /\ m - i = n - 2 /\ n >= 2
      /\ n \in Nat /\ j <= Len(rd) /\ m <= Len(rd) /\ p <= j
  BY <1>2
<1>4. PICK l \in L.lists[m - i] : l.tokens = Seg(rd, i, m) /\ l.code = Seg(cd, q, r)
  BY DEF List
<1>5. rd[i] \in Tokens(a)  BY <1>2, <1>3, TokenRead
<1>6. Seg(rd, p, j) = <<rd[i]>> \o Seg(rd, i, m) \o <<rd[j]>>
  <2>1. /\ rd \in Seq(Tokens(a) \cup {"EOF"}) /\ p \in Nat /\ i = p + 1 /\ m \in Nat /\ i <= m
        /\ m <= Len(rd) /\ p <= m /\ j = m + 1 /\ j <= Len(rd)
    BY <1>2, <1>3
  <2>. HIDE DEF L, n
  <2>2. Seg(rd, p, m) = <<rd[i]>> \o Seg(rd, i, m)  BY ONLY <2>1, SegFirst
  <2>3. Seg(rd, p, j) = Seg(rd, p, m) \o <<rd[j]>>  BY ONLY <2>1, SegLast
  <2>. QED  BY <2>2, <2>3
<1>. DEFINE s == G!StmtOf(<<"LBRACE">> \o l.tokens \o <<"RBRACE">>, G!ScopeStat(l.code, 0), {})
<1>7. s \in G!Stmts(Tokens(a), L, n)
  <2>1. l \in L.lists[n - 2]  BY <1>3, <1>4
  <2>. HIDE DEF L, n
  <2>. QED  BY <1>3, <1>5, <2>1, BlockMade
<1>8. s.tokens = Seg(rd, p, j) /\ s.excluded = {} /\ s.code = Seg(cd, q, r)
  <2>1. G!ScopeStat(l.code, 0) = l.code  BY <1>2, <1>4, NoPops
  <2>. QED  BY <1>4, <1>6, <2>1 DEF G!StmtOf
<1>. HIDE DEF s
<1>9. Span(rd, cd, p, j, q, r) /\ p < j  BY <1>2, <1>3 DEF Span
<1>. QED  BY <1>7, <1>8, <1>9, StatementMade

(* The parts of a for statement.                                           *)
InitIs(L, rd, cd, p, j, q, r) ==
  \E d \in G!Inits(L, j - p) : d.tokens = Seg(rd, p, j) /\ d.code = Seg(cd, q, r)
ConditionIs(L, rd, p, j, c) ==
  \E d \in G!Conditions(L, j - p) : d.tokens = Seg(rd, p, j) /\ d.code = c
IncrementIs(a, L, rd, cd, p, j, q, r) ==
  \E d \in G!Increments(Tokens(a), L, j - p) : d.tokens = Seg(rd, p, j) /\ d.code = Seg(cd, q, r)

(* A first part, as the rule of for needs it.                              *)
LEMMA InitialIs ==
  ASSUME NEW a, NEW rd, NEW cd, Context(a, rd, cd),
         NEW p, NEW j, NEW q, NEW r, Initial(Language[a], rd, cd, p, j, q, r)
  PROVE  InitIs(Language[a], rd, cd, p, j, q, r)
<1>. DEFINE L == Language[a]
            n == j - p
<1>1. Span(rd, cd, p, j, q, r) /\ p < j /\ rd[j] = "SEMICOLON"  BY DEF Initial
<1>2. /\ rd \in Seq(Tokens(a) \cup {"EOF"}) /\ Len(rd) \in Nat
      /\ p \in Nat /\ j \in Nat /\ q \in Nat /\ j <= Len(rd) - 1
  BY <1>1, Stretches
<1>3. n \in Nat /\ p < Len(rd)  BY <1>1, <1>2
<1>4. CASE j = p + 1 /\ r = q
  <2>1. Seg(rd, p, p + 1) = <<rd[p + 1]>>  BY <1>2, <1>3, SegOne
  <2>2. Seg(cd, q, r) = <<>>  BY <1>2, <1>4, SegNone
  <2>3. n = 1  BY <1>2, <1>4
  <2>4. [tokens |-> <<"SEMICOLON">>, code |-> <<>>] \in G!Inits(L, n)  BY <1>3, <2>3, InitMade
  <2>. HIDE DEF L
  <2>. QED  BY <1>1, <1>4, <2>1, <2>2, <2>4 DEF InitIs, L
<1>5. CASE rd[p + 1] # "SEMICOLON" /\ Statement(L, rd, cd, p, j - 1, q, r)
  <2>1. PICK i \in Nat : j = i + 1
    <3>1. j - 1 \in Nat /\ j = (j - 1) + 1  BY <1>1, <1>2
    <3>. QED  BY <3>1
  <2>2. j - 1 = i /\ i - p = n - 1  BY <1>1, <1>2, <2>1
  <2>3. p < i  BY <1>5, <2>2 DEF Statement
  <2>4. /\ Seg(rd, p, j) = Seg(rd, p, i) \o <<rd[j]>>
        /\ Seg(rd, p, i)[1] = rd[p + 1]
    <3>1. p <= i /\ i \in Nat /\ p \in Nat /\ j = i + 1 /\ j <= Len(rd) /\ i <= Len(rd) /\ p < i
      BY <1>2, <2>1, <2>3
    <3>2. rd \in Seq(Tokens(a) \cup {"EOF"})  BY <1>2
    <3>. HIDE DEF L, n
    <3>3. Seg(rd, p, j) = Seg(rd, p, i) \o <<rd[j]>>  BY ONLY <3>1, <3>2, SegLast
    <3>4. Seg(rd, p, i)[1] = rd[p + 1]  BY ONLY <3>1, <3>2, FirstToken
    <3>. QED  BY <3>3, <3>4
  <2>5. PICK s \in L.stmts[n - 1] : s.tokens = Seg(rd, p, i) /\ s.code = Seg(cd, q, r)
    BY <1>5, <2>2 DEF Statement
  <2>6. G!Starts(s, {"SEMICOLON"}) /\ n # 1  BY <1>2, <1>5, <2>2, <2>3, <2>4, <2>5 DEF G!Starts
  <2>. HIDE DEF L, n
  <2>7. [tokens |-> s.tokens \o <<"SEMICOLON">>, code |-> s.code] \in G!Inits(L, n)
    BY <1>3, <2>5, <2>6, InitMade
  <2>. QED  BY <1>1, <2>4, <2>5, <2>7 DEF InitIs, L, n
<1>. QED  BY <1>4, <1>5 DEF Initial

(* An empty second part.                                                   *)
LEMMA NoConditionIs ==
  ASSUME NEW a, NEW rd, NEW cd, Context(a, rd, cd),
         NEW p \in Nat, NEW j, j = p + 1, j < Len(rd), rd[j] = "SEMICOLON"
  PROVE  ConditionIs(Language[a], rd, p, j, {})
<1>1. rd \in Seq(Tokens(a) \cup {"EOF"}) /\ Len(rd) \in Nat  BY DEF Context, Reads, Tokens
<1>2. Seg(rd, p, p + 1) = <<rd[p + 1]>>
  <2>1. p < Len(rd)  BY <1>1
  <2>. QED  BY <1>1, <2>1, SegOne
<1>3. j - p = 1  OBVIOUS
<1>4. [tokens |-> <<"SEMICOLON">>, code |-> {}] \in G!Conditions(Language[a], 1)
  BY ConditionMade
<1>. QED  BY <1>2, <1>3, <1>4 DEF ConditionIs

(* A second part with a condition.                                         *)
LEMMA SomeConditionIs ==
  ASSUME NEW a, NEW rd, NEW cd, Context(a, rd, cd),
         NEW p, NEW j, NEW q, NEW r, Condition(Language[a], rd, cd, p, j, q, r)
  PROVE  ConditionIs(Language[a], rd, p, j, {Seg(cd, q, r)})
<1>. DEFINE L == Language[a]
            n == j - p
<1>1. Span(rd, cd, p, j, q, r) /\ p < j /\ rd[j] = "SEMICOLON" /\ Value(L, rd, cd, p, j - 1, q, r, 1)
  BY DEF Condition
<1>2. /\ rd \in Seq(Tokens(a) \cup {"EOF"}) /\ Len(rd) \in Nat
      /\ p \in Nat /\ j \in Nat /\ j <= Len(rd) - 1
  BY <1>1, Stretches
<1>3. PICK i \in Nat : j = i + 1
  <2>1. j - 1 \in Nat /\ j = (j - 1) + 1  BY <1>1, <1>2
  <2>. QED  BY <2>1
<1>4. j - 1 = i /\ i - p = n - 1 /\ n \in Nat  BY <1>1, <1>2, <1>3
<1>5. p < i  BY <1>1, <1>4, EndsValue
<1>6. Seg(rd, p, j) = Seg(rd, p, i) \o <<rd[j]>>
  <2>1. p <= i /\ i \in Nat /\ p \in Nat /\ j = i + 1 /\ j <= Len(rd)  BY <1>2, <1>3, <1>5
  <2>2. rd \in Seq(Tokens(a) \cup {"EOF"})  BY <1>2
  <2>. HIDE DEF L, n
  <2>. QED  BY ONLY <2>1, <2>2, SegLast
<1>7. Value(L, rd, cd, p, i, q, r, 1)  BY <1>1, <1>4
<1>. HIDE DEF L
<1>8. PICK e \in L.exprs[i - p] : e.tokens = Seg(rd, p, i) /\ e.code = Seg(cd, q, r)
  BY <1>7, EndsValue
<1>9. n # 1 /\ e \in L.exprs[n - 1]  BY <1>2, <1>4, <1>5, <1>8
<1>. HIDE DEF n
<1>10. [tokens |-> e.tokens \o <<"SEMICOLON">>, code |-> {e.code}] \in G!Conditions(L, n)
  BY <1>4, <1>9, ConditionMade
<1>. QED  BY <1>1, <1>6, <1>8, <1>10 DEF ConditionIs, L, n

(* The increment with the token for the brace.                             *)
LEMMA IncrementMadeIs ==
  ASSUME NEW a, NEW rd, NEW cd, Context(a, rd, cd),
         NEW p, NEW j, NEW k, k = j + 1, k < Len(rd), NEW q, NEW r,
         Increment(Language[a], rd, cd, p, j, q, r)
  PROVE  IncrementIs(a, Language[a], rd, cd, p, k, q, r)
<1>. DEFINE L == Language[a]
            n == k - p
            T == Tokens(a)
<1>1. Span(rd, cd, p, j, q, r)  BY DEF Increment
<1>2. /\ a \in Alphabets /\ Reads(a, rd) /\ rd \in Seq(T \cup {"EOF"}) /\ Len(rd) \in Nat
      /\ cd \in Seq(Bytes) /\ p \in Nat /\ j \in Nat /\ q \in Nat /\ r \in Nat /\ r <= Len(cd)
      /\ p <= j /\ j <= Len(rd) - 1
  BY <1>1, Stretches
<1>3. n \in Nat /\ p < Len(rd) /\ k \in Nat /\ k # 0 /\ k <= Len(rd) - 1 /\ k <= Len(rd)
  BY <1>2
<1>4. rd[k] \in T  BY <1>2, <1>3, TokenRead
<1>5. CASE j = p /\ r = q /\ rd[j + 1] = "LBRACE"
  <2>1. Seg(rd, p, p + 1) = <<rd[p + 1]>>  BY <1>2, <1>3, SegOne
  <2>2. Seg(cd, q, r) = <<>>  BY <1>2, <1>5, SegNone
  <2>3. n = 1  BY <1>2, <1>5
  <2>. HIDE DEF L, T
  <2>4. [tokens |-> <<"LBRACE">>, code |-> <<>>] \in G!Increments(T, L, n)
    BY <1>3, <2>3, IncrementMade
  <2>. QED  BY <1>5, <2>1, <2>2, <2>4 DEF IncrementIs, T, L
<1>6. CASE \E u \in q .. r : Value(L, rd, cd, p, j, q, u, 1) /\ Seg(cd, u, r) = StatCode
  <2>1. PICK u \in q .. r : Value(L, rd, cd, p, j, q, u, 1) /\ Seg(cd, u, r) = StatCode
    BY <1>6
  <2>2. rd[k] \notin G!Continuing /\ p < j  BY <2>1, EndsValue
  <2>3. Seg(cd, q, r) = Seg(cd, q, u) \o Seg(cd, u, r)
    <3>1. cd \in Seq(Bytes) /\ q \in Nat /\ u \in Nat /\ r \in Nat /\ q <= u /\ u <= r /\ r <= Len(cd)
      BY <1>2
    <3>. HIDE DEF L, n, T
    <3>. QED  BY ONLY <3>1, SegCat
  <2>4. Seg(rd, p, k) = Seg(rd, p, j) \o <<rd[k]>>
    <3>1. p \in Nat /\ j \in Nat /\ p <= j /\ k = j + 1 /\ k <= Len(rd)  BY <1>2, <1>3
    <3>2. rd \in Seq(T \cup {"EOF"})  BY <1>2
    <3>. HIDE DEF L, n, T
    <3>. QED  BY ONLY <3>1, <3>2, SegLast
  <2>. HIDE DEF L
  <2>5. PICK e \in L.exprs[j - p] : e.tokens = Seg(rd, p, j) /\ e.code = Seg(cd, q, u)
    BY <2>1, EndsValue
  <2>6. n # 1 /\ e \in L.exprs[n - 1]
    <3>1. (k - p) - 1 = j - p /\ k - p # 1  BY <1>2, <2>2
    <3>. QED  BY <2>5, <3>1
  <2>. HIDE DEF n, T
  <2>7. [tokens |-> e.tokens \o <<rd[k]>>, code |-> G!ExprStat(e.code, REPL)]
           \in G!Increments(T, L, n)
    BY <1>3, <1>4, <2>2, <2>6, IncrementMade
  <2>8. G!ExprStat(e.code, REPL) = Seg(cd, q, r)
    BY <2>1, <2>3, <2>5, SameEmit DEF G!ExprStat, StatCode
  <2>. QED  BY <2>4, <2>5, <2>7, <2>8 DEF IncrementIs, T, L, n
<1>. QED  BY <1>5, <1>6 DEF Increment

(* All of it, with its code still in parts.                                *)
ForIs(a, L, rd, p, j, code0) ==
  G!StmtOf(Seg(rd, p, j), code0, {}) \in G!Stmts(Tokens(a), L, j - p)

(* The tokens of a for.                                                    *)
LEMMA ForTokens ==
  ASSUME NEW a, NEW rd, NEW cd, Context(a, rd, cd),
         NEW p \in Nat, NEW i, i = p + 1, NEW t, NEW k, NEW m, NEW l, NEW j, j = l + 1,
         j < Len(rd), NEW q, NEW start, NEW w, NEW v, NEW x, NEW u, NEW cond,
         rd[i] = "FOR", rd[j] = "RBRACE", rd[t] = "SEMICOLON",
         t \in Nat, k \in Nat, m \in Nat, i < t, t < k, k < m,
         InitIs(Language[a], rd, cd, i, t, q, start),
         ConditionIs(Language[a], rd, t, k, cond),
         IncrementIs(a, Language[a], rd, cd, k, m, w, v),
         List(Language[a], rd, cd, m, l, x, u)
  PROVE  ForIs(a, Language[a], rd, p, j,
               G!ForCode(Seg(cd, q, start), cond, Seg(cd, w, v), Seg(cd, x, u)))
<1>. DEFINE L == Language[a]
            T == Tokens(a)
            n == j - p
            c0 == Seg(cd, q, start)
            c1 == Seg(cd, w, v)
            c2 == Seg(cd, x, u)
<1>1. Span(rd, cd, m, l, x, u)  BY DEF List
<1>2. /\ a \in Alphabets /\ Reads(a, rd) /\ rd \in Seq(T \cup {"EOF"}) /\ Len(rd) \in Nat
      /\ l \in Nat /\ m <= l /\ l < Len(rd)
  BY <1>1, Stretches
<1>3. i \in Nat /\ j \in Nat /\ i # 0 /\ j # 0 /\ t # 0 /\ i <= Len(rd) - 1 /\ j <= Len(rd) - 1
      /\ t <= Len(rd) - 1
  BY <1>2
<1>4. {"FOR", "RBRACE", "SEMICOLON"} \subseteq T
  <2>1. rd[i] \in T /\ rd[j] \in T /\ rd[t] \in T  BY <1>2, <1>3, TokenRead
  <2>. QED  BY <2>1
<1>5. PICK d \in G!Inits(L, t - i) : d.tokens = Seg(rd, i, t) /\ d.code = c0
  BY DEF InitIs
<1>6. PICK e \in G!Conditions(L, k - t) : e.tokens = Seg(rd, t, k) /\ e.code = cond
  BY DEF ConditionIs
<1>7. PICK y \in G!Increments(T, L, m - k) : y.tokens = Seg(rd, k, m) /\ y.code = c1
  BY DEF IncrementIs
<1>8. PICK z \in L.lists[l - m] : z.tokens = Seg(rd, m, l) /\ z.code = c2
  BY DEF List
<1>9. /\ t - i \in 1 .. (k - i) - 1 /\ (k - i) - (t - i) = k - t
      /\ k - i \in 2 .. (m - i) - 1 /\ (m - i) - (k - i) = m - k
      /\ m - i \in 3 .. (j - p) - 2 /\ (j - p) - 2 - (m - i) = l - m
  BY <1>2, <1>3
<1>. DEFINE hd == [tokens |-> d.tokens \o e.tokens, init |-> d.code, cond |-> e.code]
            hr == [tokens |-> hd.tokens \o y.tokens, init |-> hd.init, cond |-> hd.cond,
                   step |-> y.code]
<1>. HIDE DEF L, T, c0, c1, c2, n
<1>10. hd \in G!Heads(L, k - i)
  <2>1. e \in G!Conditions(L, (k - i) - (t - i))  BY <1>6, <1>9
  <2>. QED  BY <1>5, <1>9, <2>1, HeadMade
<1>11. hr \in G!Headers(T, L, m - i)
  <2>1. y \in G!Increments(T, L, (m - i) - (k - i))  BY <1>7, <1>9
  <2>. HIDE DEF hd
  <2>. QED  BY <1>9, <1>10, <2>1, HeaderMade
<1>12. /\ hr.tokens = Seg(rd, i, t) \o Seg(rd, t, k) \o Seg(rd, k, m)
       /\ hr.init = c0 /\ hr.cond = cond /\ hr.step = c1
  BY <1>5, <1>6, <1>7
<1>. HIDE DEF hd, hr
<1>13. G!StmtOf(<<"FOR">> \o hr.tokens \o z.tokens \o <<"RBRACE">>,
                G!ForCode(hr.init, hr.cond, hr.step, z.code), {}) \in G!Stmts(T, L, n)
  <2>1. z \in L.lists[n - 2 - (m - i)] /\ m - i \in 3 .. n - 2  BY <1>8, <1>9 DEF n
  <2>. QED  BY <1>4, <1>11, <2>1, ForMade
<1>14. Seg(rd, p, j) = <<rd[i]>> \o hr.tokens \o z.tokens \o <<rd[j]>>
  <2>1. rd \in Seq(T \cup {"EOF"})  BY <1>2
  <2>2. /\ p \in Nat /\ i = p + 1 /\ m \in Nat /\ i <= m /\ m <= Len(rd) /\ l \in Nat /\ m <= l
        /\ l <= Len(rd) /\ j = l + 1 /\ j <= Len(rd) /\ p <= m /\ p <= l
    BY <1>2, <1>3
  <2>3. i \in Nat /\ t \in Nat /\ k \in Nat /\ i <= t /\ t <= k /\ k <= m
    BY <1>2, <1>3
  <2>4. Seg(rd, i, m) = hr.tokens
    <3>1. Seg(rd, i, m) = Seg(rd, i, t) \o Seg(rd, t, k) \o Seg(rd, k, m)
      BY ONLY <2>1, <2>2, <2>3, SegThree, SMTT(30)
    <3>. QED  BY <1>12, <3>1
  <2>5. Seg(rd, p, m) = <<rd[i]>> \o Seg(rd, i, m)  BY ONLY <2>1, <2>2, SegFirst
  <2>6. Seg(rd, p, l) = Seg(rd, p, m) \o Seg(rd, m, l)  BY ONLY <2>1, <2>2, SegCat
  <2>7. Seg(rd, p, j) = Seg(rd, p, l) \o <<rd[j]>>  BY ONLY <2>1, <2>2, SegLast
  <2>. QED  BY <1>8, <2>4, <2>5, <2>6, <2>7
<1>. QED  BY <1>8, <1>12, <1>13, <1>14 DEF ForIs, L, T, n, c0, c1, c2

(* The code of a for statement without condition.                          *)
LEMMA ForCodeFree ==
  ASSUME NEW cd \in Seq(Bytes), NEW q \in Nat, NEW b \in Nat, NEW w, w = b + 3, NEW v \in Nat,
         NEW x, x = v + 3, NEW u \in Nat, NEW r, r = u + 3, q <= b, w <= v, x <= u, r <= Len(cd),
         Seg(cd, b, w) = G!JumpOver("JMP", Seg(cd, w, x)),
         Seg(cd, v, x) = G!BackwardJump(Seg(cd, b, v)),
         Seg(cd, u, r) = G!BackwardJump(Seg(cd, w, u))
  PROVE  Seg(cd, q, r) = G!ForCode(Seg(cd, q, b), {}, Seg(cd, w, v), Seg(cd, x, u))
<1>. DEFINE inc == Seg(cd, w, v)
            jmp == G!JumpCode("JMP")
<1>0. cd \in Seq(Bytes) /\ q \in Nat /\ b \in Nat /\ v \in Nat /\ u \in Nat
      /\ q <= b /\ w <= v /\ x <= u /\ r <= Len(cd)
  OBVIOUS
<1>1. /\ w \in Nat /\ x \in Nat /\ r \in Nat /\ b <= w /\ v <= x /\ w <= x /\ u <= r /\ x <= r
      /\ w <= u /\ u <= Len(cd) /\ v <= Len(cd) /\ x <= Len(cd) /\ b <= v /\ w <= Len(cd)
      /\ b <= Len(cd) /\ q <= x /\ q <= u /\ q <= w
  OBVIOUS
<1>c. /\ Cut(cd, w, v, x) /\ Cut(cd, w, x, u) /\ Cut(cd, q, b, w) /\ Cut(cd, q, w, x)
      /\ Cut(cd, q, x, u) /\ Cut(cd, q, u, r)
  BY ONLY <1>0, <1>1 DEF Cut
<1>2. Seg(cd, w, x) = inc \o Seg(cd, v, x)  BY <1>c, CutInTwo
<1>3. Seg(cd, w, u) = Seg(cd, w, x) \o Seg(cd, x, u)  BY <1>c, CutInTwo
<1>4. G!BackwardJump(jmp \o inc) = Seg(cd, v, x)
  <2>1. jmp \in Seq(Bytes) /\ Len(jmp) = 3  BY SameJumps, JumpBytes
  <2>2. inc \in Seq(Bytes) /\ Len(inc) = v - w  BY ONLY <1>0, <1>1, SegIs
  <2>3. Len(Seg(cd, b, v)) = v - b  BY ONLY <1>0, <1>1, SegIs
  <2>. HIDE DEF jmp, inc
  <2>4. Len(jmp \o inc) = Len(jmp) + Len(inc)
    <3>1. jmp \in Seq(Bytes) /\ inc \in Seq(Bytes)  BY <2>1, <2>2
    <3>. QED  BY ONLY <3>1
  <2>5. 3 + (v - w) = v - b  OBVIOUS
  <2>6. Len(jmp \o inc) = Len(Seg(cd, b, v))  BY <2>1, <2>2, <2>3, <2>4, <2>5
  <2>. QED  BY <2>6, SameJumps
<1>5. Seg(cd, q, r) = Seg(cd, q, b) \o Seg(cd, b, w) \o Seg(cd, w, x) \o Seg(cd, x, u) \o Seg(cd, u, r)
  <2>1. Seg(cd, q, w) = Seg(cd, q, b) \o Seg(cd, b, w)  BY <1>c, CutInTwo
  <2>2. Seg(cd, q, x) = Seg(cd, q, w) \o Seg(cd, w, x)  BY <1>c, CutInTwo
  <2>3. Seg(cd, q, u) = Seg(cd, q, x) \o Seg(cd, x, u)  BY <1>c, CutInTwo
  <2>4. Seg(cd, q, r) = Seg(cd, q, u) \o Seg(cd, u, r)  BY <1>c, CutInTwo
  <2>. QED  BY <2>1, <2>2, <2>3, <2>4, Zenon
<1>. HIDE DEF inc, jmp
<1>6. G!ForCode(Seg(cd, q, b), {}, inc, Seg(cd, x, u))
        = Seg(cd, q, b) \o G!JumpOver("JMP", inc \o G!BackwardJump(jmp \o inc))
          \o (inc \o G!BackwardJump(jmp \o inc)) \o Seg(cd, x, u)
          \o G!BackwardJump((inc \o G!BackwardJump(jmp \o inc)) \o Seg(cd, x, u))
  BY DEF G!ForCode, jmp
<1>. QED  BY <1>2, <1>3, <1>4, <1>5, <1>6 DEF inc

(* ... and with one, which ends in a jump behind the statement.            *)
GuardedCode(cd, q, s, h, b, w, v, x, u, r) ==
  /\ cd \in Seq(Bytes) /\ q \in Nat /\ s \in Nat /\ h \in Nat /\ v \in Nat /\ u \in Nat
  /\ b = h + 3 /\ w = b + 3 /\ x = v + 3 /\ r = u + 3
  /\ q <= s /\ s <= h /\ w <= v /\ x <= u /\ r <= Len(cd)
  /\ Seg(cd, h, b) = G!JumpOver("JMPF", Seg(cd, b, r))
  /\ Seg(cd, b, w) = G!JumpOver("JMP", Seg(cd, w, x))
  /\ Seg(cd, v, x) = G!BackwardJump(Seg(cd, s, v))
  /\ Seg(cd, u, r) = G!BackwardJump(Seg(cd, w, u))

(* The code of a for that has a condition.                                 *)
LEMMA ForCodeGuarded ==
  ASSUME NEW cd, NEW q, NEW s, NEW h, NEW b, NEW w, NEW v, NEW x, NEW u, NEW r,
         GuardedCode(cd, q, s, h, b, w, v, x, u, r)
  PROVE  Seg(cd, q, r) = G!ForCode(Seg(cd, q, s), {Seg(cd, s, h)}, Seg(cd, w, v), Seg(cd, x, u))
<1>n. b = h + 3 /\ w = b + 3 /\ x = v + 3 /\ r = u + 3  BY DEF GuardedCode
<1>j. /\ Seg(cd, h, b) = G!JumpOver("JMPF", Seg(cd, b, r))
      /\ Seg(cd, b, w) = G!JumpOver("JMP", Seg(cd, w, x))
      /\ Seg(cd, v, x) = G!BackwardJump(Seg(cd, s, v))
      /\ Seg(cd, u, r) = G!BackwardJump(Seg(cd, w, u))
  BY DEF GuardedCode
<1>. DEFINE inc == Seg(cd, w, v)
            jmp == G!JumpCode("JMP")
            jmpf == G!JumpCode("JMPF")
            c == Seg(cd, s, h)
            back == Seg(cd, v, x)
            last == Seg(cd, u, r)
            body == Seg(cd, x, u)
            init == Seg(cd, q, s)
<1>0. cd \in Seq(Bytes) /\ q \in Nat /\ s \in Nat /\ h \in Nat /\ v \in Nat /\ u \in Nat
      /\ q <= s /\ s <= h /\ w <= v /\ x <= u /\ r <= Len(cd)
  BY DEF GuardedCode
<1>1. /\ b \in Nat /\ w \in Nat /\ x \in Nat /\ r \in Nat /\ h <= b /\ b <= w /\ v <= x /\ w <= x
      /\ u <= r /\ x <= r /\ w <= u /\ u <= Len(cd) /\ v <= Len(cd) /\ x <= Len(cd) /\ s <= v
      /\ h <= Len(cd) /\ b <= x /\ b <= u /\ b <= r /\ w <= Len(cd) /\ q <= h /\ q <= b
      /\ s <= Len(cd) /\ b <= Len(cd)
  BY <1>0, <1>n
<1>c. /\ Cut(cd, w, v, x) /\ Cut(cd, w, x, u) /\ Cut(cd, b, w, x) /\ Cut(cd, b, x, u)
      /\ Cut(cd, b, u, r)
  BY ONLY <1>0, <1>1 DEF Cut
<1>d. Cut(cd, q, s, h) /\ Cut(cd, q, h, b) /\ Cut(cd, q, b, r)
  BY ONLY <1>0, <1>1 DEF Cut
<1>2. Seg(cd, w, x) = inc \o back  BY <1>c, CutInTwo
<1>3. Seg(cd, w, u) = inc \o back \o body
  <2>1. Seg(cd, w, u) = Seg(cd, w, x) \o Seg(cd, x, u)  BY <1>c, CutInTwo
  <2>. QED  BY <1>2, <2>1
<1>4. G!BackwardJump(c \o jmpf \o jmp \o inc) = back
  <2>1. jmp \in Seq(Bytes) /\ Len(jmp) = 3 /\ jmpf \in Seq(Bytes) /\ Len(jmpf) = 3
    BY SameJumps, JumpBytes
  <2>2. inc \in Seq(Bytes) /\ Len(inc) = v - w  BY ONLY <1>0, <1>1, SegIs
  <2>3. c \in Seq(Bytes) /\ Len(c) = h - s  BY ONLY <1>0, <1>1, SegIs
  <2>4. Len(Seg(cd, s, v)) = v - s  BY ONLY <1>0, <1>1, SegIs
  <2>. HIDE DEF jmp, jmpf, inc, c, back
  <2>5. c \in Seq(Bytes) /\ jmp \in Seq(Bytes) /\ jmpf \in Seq(Bytes) /\ inc \in Seq(Bytes)
    BY <2>1, <2>2, <2>3
  <2>6. Len(c \o jmpf \o jmp \o inc) = Len(c) + Len(jmpf) + Len(jmp) + Len(inc)
    <3>1. c \o jmpf \o jmp \in Seq(Bytes) /\ Len(c \o jmpf \o jmp) = Len(c) + Len(jmpf) + Len(jmp)
      BY ONLY <2>5, LenThree
    <3>. QED  BY ONLY <2>5, <3>1
  <2>7. (h - s) + 3 + 3 + (v - w) = v - s  BY <1>0, <1>n
  <2>8. Len(c \o jmpf \o jmp \o inc) = Len(Seg(cd, s, v))
    BY ONLY <2>1, <2>2, <2>3, <2>4, <2>6, <2>7
  <2>9. G!BackwardJump(c \o jmpf \o jmp \o inc) = G!BackwardJump(Seg(cd, s, v))
    BY <2>8, SameJumps
  <2>. QED  BY <1>j, <2>9 DEF back
<1>5. Seg(cd, b, r) = Seg(cd, b, w) \o Seg(cd, w, x) \o body \o last
  <2>1. Seg(cd, b, x) = Seg(cd, b, w) \o Seg(cd, w, x)  BY <1>c, CutInTwo
  <2>2. Seg(cd, b, u) = Seg(cd, b, x) \o Seg(cd, x, u)  BY <1>c, CutInTwo
  <2>3. Seg(cd, b, r) = Seg(cd, b, u) \o Seg(cd, u, r)  BY <1>c, CutInTwo
  <2>. QED  BY <2>1, <2>2, <2>3, Zenon
<1>6. Seg(cd, q, r) = init \o c \o Seg(cd, h, b) \o Seg(cd, b, r)
  <2>1. Seg(cd, q, b) = init \o c \o Seg(cd, h, b)  BY <1>d, CutInThree
  <2>2. Seg(cd, q, r) = Seg(cd, q, b) \o Seg(cd, b, r)  BY <1>d, CutInTwo
  <2>. QED  BY ONLY <2>1, <2>2
<1>7. Seg(cd, q, r) \in Seq(Bytes)
  <2>1. q <= r  BY <1>0, <1>1
  <2>. QED  BY ONLY <1>0, <1>1, <2>1, SegIs
<1>. HIDE DEF inc, jmp, jmpf, c, back, last, body, init
<1>8. Seg(cd, b, r) = G!JumpOver("JMP", inc \o back) \o (inc \o back) \o body
                      \o G!BackwardJump((inc \o back) \o body)
  BY <1>j, <1>2, <1>3, <1>5 DEF last
<1>9. G!ForStat(init, c, inc, body, 0)
        = init \o c \o G!JumpOver("JMPF", Seg(cd, b, r)) \o Seg(cd, b, r) \o G!Pops(0)
  BY <1>4, <1>8 DEF G!ForStat, jmp, jmpf
<1>10. G!ForStat(init, c, inc, body, 0) = Seg(cd, q, r)
  BY <1>j, <1>6, <1>7, <1>9, NoPops
<1>11. (CHOOSE z \in {c} : TRUE) = c /\ {c} # {}  OBVIOUS
<1>12. G!ForCode(init, {c}, inc, body) = G!ForStat(init, c, inc, body, 0)
  BY <1>11 DEF G!ForCode
<1>. QED  BY <1>10, <1>12 DEF init, c, inc, body

(* The tokens of a for statement, whatever its condition.                  *)
LEMMA ForParts ==
  ASSUME NEW a, NEW rd, NEW cd, Context(a, rd, cd),
         NEW p \in Nat, NEW i, i = p + 1, NEW t, NEW k, NEW m, NEW n, n = m + 1, NEW l, NEW j, j = l + 1,
         NEW q, NEW start, NEW w, NEW v, NEW x, NEW u, NEW cond, k \in Nat, t < k,
         rd[i] = "FOR", rd[j] = "RBRACE", j < Len(rd),
         Initial(Language[a], rd, cd, i, t, q, start),
         ConditionIs(Language[a], rd, t, k, cond),
         Increment(Language[a], rd, cd, k, m, w, v),
         List(Language[a], rd, cd, n, l, x, u)
  PROVE  ForIs(a, Language[a], rd, p, j,
               G!ForCode(Seg(cd, q, start), cond, Seg(cd, w, v), Seg(cd, x, u)))
<1>1. Span(rd, cd, i, t, q, start) /\ i < t /\ rd[t] = "SEMICOLON"  BY DEF Initial
<1>2. Span(rd, cd, k, m, w, v)  BY DEF Increment
<1>3. Span(rd, cd, n, l, x, u)  BY DEF List
<1>4. t \in Nat /\ m \in Nat /\ k <= m /\ n \in Nat /\ n <= l /\ l < Len(rd) /\ k < n /\ n < Len(rd)
  BY <1>1, <1>2, <1>3, Stretches DEF Span
<1>5. InitIs(Language[a], rd, cd, i, t, q, start)  BY InitialIs
<1>6. IncrementIs(a, Language[a], rd, cd, k, n, w, v)  BY <1>4, IncrementMadeIs
<1>. QED  BY <1>1, <1>4, <1>5, <1>6, ForTokens

(* The tokens and the code of a for make a statement.                      *)
LEMMA ForMadeStatement ==
  ASSUME NEW a, NEW rd, NEW cd, Context(a, rd, cd),
         NEW p, NEW j, NEW q, NEW r, Span(rd, cd, p, j, q, r), p < j, NEW c,
         ForIs(a, Language[a], rd, p, j, c), c = Seg(cd, q, r)
  PROVE  Statement(Language[a], rd, cd, p, j, q, r)
<1>. DEFINE s == G!StmtOf(Seg(rd, p, j), c, {})
<1>1. s.tokens = Seg(rd, p, j) /\ s.code = Seg(cd, q, r) /\ rd[j + 1] \notin s.excluded
  BY DEF G!StmtOf
<1>2. s \in G!Stmts(Tokens(a), Language[a], j - p)  BY DEF ForIs
<1>. HIDE DEF s
<1>. QED  BY <1>1, <1>2, StatementMade

FreeParts(a, rd, cd, p, i, t, k, m, n, l, j, q, b, w, v, x, u, r) ==
  /\ Context(a, rd, cd) /\ p \in Nat /\ i = p + 1 /\ k = t + 1 /\ n = m + 1 /\ j = l + 1
  /\ w = b + 3 /\ x = v + 3 /\ r = u + 3 /\ r <= Len(cd) /\ rd[i] = "FOR"
  /\ rd[k] = "SEMICOLON" /\ rd[j] = "RBRACE" /\ j < Len(rd)
  /\ Initial(Language[a], rd, cd, i, t, q, b) /\ Increment(Language[a], rd, cd, k, m, w, v)
  /\ List(Language[a], rd, cd, n, l, x, u)
  /\ Seg(cd, b, w) = G!JumpOver("JMP", Seg(cd, w, x))
  /\ Seg(cd, v, x) = G!BackwardJump(Seg(cd, b, v))
  /\ Seg(cd, u, r) = G!BackwardJump(Seg(cd, w, u))

(* A for without a condition is a statement.                               *)
LEMMA FreeFor ==
  ASSUME NEW a, NEW rd, NEW cd, NEW p, NEW i, NEW t, NEW k, NEW m, NEW n, NEW l, NEW j,
         NEW q, NEW b, NEW w, NEW v, NEW x, NEW u, NEW r,
         FreeParts(a, rd, cd, p, i, t, k, m, n, l, j, q, b, w, v, x, u, r)
  PROVE  Statement(Language[a], rd, cd, p, j, q, r)
<1>. USE DEF FreeParts
<1>1. Span(rd, cd, i, t, q, b) /\ i < t  BY DEF Initial
<1>2. Span(rd, cd, k, m, w, v)  BY DEF Increment
<1>3. Span(rd, cd, n, l, x, u)  BY DEF List
<1>4. /\ t \in Nat /\ m \in Nat /\ l \in Nat /\ k <= m /\ n <= l /\ t < k /\ k \in Nat
      /\ q \in Nat /\ b \in Nat /\ v \in Nat /\ u \in Nat /\ q <= b /\ w <= v /\ x <= u
  BY <1>1, <1>2, <1>3 DEF Span
<1>5. cd \in Seq(Bytes) /\ Len(rd) \in Nat  BY <1>1, Stretches
<1>6. k < Len(rd)  BY <1>2, <1>4, <1>5 DEF Span
<1>7. ConditionIs(Language[a], rd, t, k, {})  BY <1>4, <1>6, NoConditionIs
<1>8. ForIs(a, Language[a], rd, p, j,
            G!ForCode(Seg(cd, q, b), {}, Seg(cd, w, v), Seg(cd, x, u)))
  BY <1>4, <1>7, ForParts
<1>9. Seg(cd, q, r) = G!ForCode(Seg(cd, q, b), {}, Seg(cd, w, v), Seg(cd, x, u))
  <2>1. /\ cd \in Seq(Bytes) /\ q \in Nat /\ b \in Nat /\ w = b + 3 /\ v \in Nat
        /\ x = v + 3 /\ u \in Nat /\ r = u + 3 /\ q <= b /\ w <= v /\ x <= u /\ r <= Len(cd)
    BY <1>4, <1>5
  <2>2. /\ Seg(cd, b, w) = G!JumpOver("JMP", Seg(cd, w, x))
        /\ Seg(cd, v, x) = G!BackwardJump(Seg(cd, b, v))
        /\ Seg(cd, u, r) = G!BackwardJump(Seg(cd, w, u))
    OBVIOUS
  <2>. QED  BY ONLY <2>1, <2>2, ForCodeFree
<1>10. Span(rd, cd, p, j, q, r) /\ p < j
  <2>1. j \in Nat /\ r \in Nat /\ p <= j /\ p < j /\ q <= r  BY <1>1, <1>4
  <2>. QED  BY <1>4, <2>1 DEF Span
<1>. QED  BY <1>8, <1>9, <1>10, ForMadeStatement

GuardedParts(a, rd, cd, p, i, t, k, m, n, l, j, q, s, h, b, w, v, x, u, r) ==
  /\ Context(a, rd, cd) /\ p \in Nat /\ i = p + 1 /\ n = m + 1 /\ j = l + 1 /\ b = h + 3
  /\ w = b + 3 /\ x = v + 3 /\ r = u + 3 /\ r <= Len(cd) /\ rd[i] = "FOR"
  /\ rd[j] = "RBRACE" /\ j < Len(rd) /\ Initial(Language[a], rd, cd, i, t, q, s)
  /\ Condition(Language[a], rd, cd, t, k, s, h)
  /\ Increment(Language[a], rd, cd, k, m, w, v) /\ List(Language[a], rd, cd, n, l, x, u)
  /\ Seg(cd, h, b) = G!JumpOver("JMPF", Seg(cd, b, r))
  /\ Seg(cd, b, w) = G!JumpOver("JMP", Seg(cd, w, x))
  /\ Seg(cd, v, x) = G!BackwardJump(Seg(cd, s, v))
  /\ Seg(cd, u, r) = G!BackwardJump(Seg(cd, w, u))

(* A for with a condition is a statement.                                  *)
LEMMA GuardedFor ==
  ASSUME NEW a, NEW rd, NEW cd, NEW p, NEW i, NEW t, NEW k, NEW m, NEW n, NEW l, NEW j,
         NEW q, NEW s, NEW h, NEW b, NEW w, NEW v, NEW x, NEW u, NEW r,
         GuardedParts(a, rd, cd, p, i, t, k, m, n, l, j, q, s, h, b, w, v, x, u, r)
  PROVE  Statement(Language[a], rd, cd, p, j, q, r)
<1>. USE DEF GuardedParts
<1>1. Span(rd, cd, i, t, q, s) /\ i < t  BY DEF Initial
<1>2. Span(rd, cd, k, m, w, v)  BY DEF Increment
<1>3. Span(rd, cd, n, l, x, u)  BY DEF List
<1>4. Span(rd, cd, t, k, s, h) /\ t < k  BY DEF Condition
<1>5. /\ t \in Nat /\ m \in Nat /\ l \in Nat /\ k <= m /\ n <= l /\ t < k /\ k \in Nat
      /\ q \in Nat /\ s \in Nat /\ h \in Nat /\ v \in Nat /\ u \in Nat
      /\ q <= s /\ s <= h /\ w <= v /\ x <= u
  BY <1>1, <1>2, <1>3, <1>4 DEF Span
<1>6. cd \in Seq(Bytes)  BY <1>1, Stretches
<1>7. ConditionIs(Language[a], rd, t, k, {Seg(cd, s, h)})  BY SomeConditionIs
<1>8. ForIs(a, Language[a], rd, p, j,
            G!ForCode(Seg(cd, q, s), {Seg(cd, s, h)}, Seg(cd, w, v), Seg(cd, x, u)))
  BY <1>5, <1>7, ForParts
<1>9. Seg(cd, q, r) = G!ForCode(Seg(cd, q, s), {Seg(cd, s, h)}, Seg(cd, w, v), Seg(cd, x, u))
  <2>1. GuardedCode(cd, q, s, h, b, w, v, x, u, r)  BY <1>5, <1>6 DEF GuardedCode
  <2>. QED  BY <2>1, ForCodeGuarded
<1>10. Span(rd, cd, p, j, q, r) /\ p < j
  <2>1. j \in Nat /\ r \in Nat /\ p <= j /\ p < j /\ q <= r  BY <1>1, <1>5
  <2>. QED  BY <1>5, <2>1 DEF Span
<1>. QED  BY <1>8, <1>9, <1>10, ForMadeStatement

(* Lists of statements. *)
LEMMA EmptyList ==
  ASSUME NEW a, NEW rd, NEW cd, Context(a, rd, cd), NEW p \in Nat, NEW q \in Nat,
         p < Len(rd), q <= Len(cd)
  PROVE  List(Language[a], rd, cd, p, p, q, q)
<1>1. G!Nothing \in Language[a].lists[0]  BY ParserAssumption DEF Context, G!IsLanguage
<1>2. Seg(rd, p, p) = <<>> /\ Seg(cd, q, q) = <<>>  BY SegNone
<1>3. G!Nothing.tokens = <<>> /\ G!Nothing.code = <<>> /\ G!Nothing.excluded = {}
  BY DEF G!Nothing, G!StmtOf
<1>4. p - p = 0  OBVIOUS
<1>. QED  BY <1>1, <1>2, <1>3, <1>4 DEF List, Span

(* A statement behind others makes a longer list.                          *)
LEMMA NextOfList ==
  ASSUME NEW a, NEW rd, NEW cd, Context(a, rd, cd),
         NEW p, NEW i, NEW j, NEW q, NEW u, NEW r,
         List(Language[a], rd, cd, p, i, q, u), Statement(Language[a], rd, cd, i, j, u, r)
  PROVE  List(Language[a], rd, cd, p, j, q, r)
<1>. DEFINE L == Language[a]
            n == j - p
<1>1. Span(rd, cd, p, i, q, u)  BY DEF List
<1>2. Span(rd, cd, i, j, u, r) /\ i < j  BY DEF Statement
<1>3. /\ a \in Alphabets /\ Reads(a, rd) /\ rd \in Seq(Tokens(a) \cup {"EOF"})
      /\ Len(rd) \in Nat /\ cd \in Seq(Bytes)
      /\ p \in Nat /\ i \in Nat /\ j \in Nat /\ q \in Nat /\ u \in Nat /\ r \in Nat
      /\ p <= i /\ j < Len(rd) /\ q <= u /\ u <= r /\ r <= Len(cd)
  BY <1>1, <1>2, Stretches
<1>4. /\ p <= j /\ p < j /\ q <= r /\ i - p \in 0 .. (j - p) - 1 /\ j <= Len(rd) - 1
      /\ (j - p) - (i - p) = j - i
  BY <1>2, <1>3
<1>5. PICK l \in L.lists[i - p] :
        l.tokens = Seg(rd, p, i) /\ l.code = Seg(cd, q, u) /\ rd[i + 1] \notin l.excluded
  BY DEF List
<1>6. PICK s \in L.stmts[j - i] :
        s.tokens = Seg(rd, i, j) /\ s.code = Seg(cd, u, r) /\ rd[j + 1] \notin s.excluded
  BY DEF Statement
<1>7. Seg(rd, p, j) = Seg(rd, p, i) \o Seg(rd, i, j) /\ Seg(rd, i, j)[1] = rd[i + 1]
  <2>1. /\ rd \in Seq(Tokens(a) \cup {"EOF"}) /\ p \in Nat /\ i \in Nat /\ j \in Nat
        /\ p <= i /\ i <= j /\ j <= Len(rd) /\ i < j
    BY <1>2, <1>3
  <2>. HIDE DEF L, n
  <2>2. Seg(rd, p, j) = Seg(rd, p, i) \o Seg(rd, i, j)  BY ONLY <2>1, SegCat
  <2>3. Seg(rd, i, j)[1] = rd[i + 1]  BY ONLY <2>1, FirstToken
  <2>. QED  BY <2>2, <2>3
<1>8. Seg(cd, q, r) = Seg(cd, q, u) \o Seg(cd, u, r)
  <2>1. cd \in Seq(Bytes) /\ q \in Nat /\ u \in Nat /\ r \in Nat /\ q <= u /\ u <= r /\ r <= Len(cd)
    BY <1>3
  <2>. HIDE DEF L, n
  <2>. QED  BY ONLY <2>1, SegCat
<1>9. G!Starts(s, l.excluded)  BY <1>5, <1>6, <1>7 DEF G!Starts
<1>. DEFINE y == G!StmtOf(l.tokens \o s.tokens, l.code \o s.code, s.excluded)
<1>10. y \in G!Lists(L, n)
  <2>1. s \in L.stmts[n - (i - p)] /\ i - p \in 0 .. n - 1  BY <1>4, <1>6
  <2>. HIDE DEF L, n
  <2>. QED  BY <1>5, <1>9, <2>1, ListMade
<1>11. y.tokens = Seg(rd, p, j) /\ y.code = Seg(cd, q, r) /\ rd[j + 1] \notin y.excluded
  BY <1>5, <1>6, <1>7, <1>8 DEF G!StmtOf
<1>. HIDE DEF y
<1>12. y \in L.lists[n]  BY <1>3, <1>4, <1>10, <1>11, Composes
<1>. QED  BY <1>3, <1>4, <1>11, <1>12 DEF List, Span

(* A list of all tokens but the last, EOF, is a source. *)
LEMMA SourceMade ==
  ASSUME NEW a, NEW rd, NEW cd, Context(a, rd, cd), NEW n, n = Len(rd) - 1,
         List(Language[a], rd, cd, 0, n, 0, Len(cd)), rd[n + 1] = "EOF"
  PROVE  <<rd, Append(cd, Opcode("HALT"))>> \in Sources[a]
<1>. DEFINE L == Language[a]
<1>1. Span(rd, cd, 0, n, 0, Len(cd))  BY DEF List
<1>2. /\ a \in Alphabets /\ Reads(a, rd) /\ rd \in Seq(Tokens(a) \cup {"EOF"})
      /\ Len(rd) \in Nat /\ cd \in Seq(Bytes) /\ n \in Nat
  BY <1>1, Stretches
<1>3. PICK s \in L.lists[n - 0] : s.tokens = Seg(rd, 0, n) /\ s.code = Seg(cd, 0, Len(cd))
  BY DEF List
<1>4. s.code = cd  BY <1>2, <1>3, SegAll
<1>5. Append(s.tokens, "EOF") = rd
  <2>1. 0 <= n /\ Len(rd) = n + 1 /\ Len(rd) <= Len(rd)  BY <1>2
  <2>2. rd = Seg(rd, 0, Len(rd))  BY <1>2, SegAll
  <2>3. rd \in Seq(Tokens(a) \cup {"EOF"}) /\ 0 \in Nat /\ n \in Nat /\ n <= Len(rd)  BY <1>2, <2>1
  <2>. HIDE DEF L
  <2>4. Seg(rd, 0, Len(rd)) = Seg(rd, 0, n) \o <<rd[Len(rd)]>>  BY ONLY <2>1, <2>3, SegLast
  <2>5. Seg(rd, 0, n) \in Seq(Tokens(a) \cup {"EOF"})  BY ONLY <2>1, <2>3, SegIs
  <2>6. Seg(rd, 0, n) \o <<"EOF">> = Append(Seg(rd, 0, n), "EOF")  BY <2>5
  <2>7. rd[Len(rd)] = "EOF"  BY <2>1
  <2>. QED  BY <1>3, <2>2, <2>4, <2>6, <2>7
<1>6. G!ScriptOf(s.code, <<>>).code = Append(cd, Opcode("HALT"))
  <2>1. cd \o <<Opcode("HALT")>> = Append(cd, Opcode("HALT"))  BY <1>2
  <2>. QED  BY <1>4, <2>1, SameEmit DEF G!ScriptOf
<1>7. n \in 0 .. a.length /\ s \in L.lists[n]
  <2>1. a.length \in Nat /\ Len(rd) - 1 <= a.length  BY <1>2, ParserAssumption DEF Reads
  <2>. QED  BY <1>2, <1>3, <2>1
<1>8. <<Append(s.tokens, "EOF"), G!ScriptOf(s.code, <<>>).code>> \in G!SourcesOf(L, a.length)
  <2>. DEFINE f(x) == <<Append(x.tokens, "EOF"), G!ScriptOf(x.code, <<>>).code>>
              A == UNION {L.lists[i] : i \in 0 .. a.length}
  <2>1. G!SourcesOf(L, a.length) = {f(x) : x \in A}  BY SMT DEF G!SourcesOf
  <2>2. s \in A  BY <1>7
  <2>. HIDE DEF f, A
  <2>3. f(s) \in {f(x) : x \in A}  BY <2>2
  <2>. QED  BY <2>1, <2>3 DEF f
<1>. QED  BY <1>2, <1>5, <1>6, <1>8 DEF Sources

-----------------------------------------------------------------------------
(* Jumps in the code. *)

(* Two stretches with the same bytes.                                      *)
Alike(s, t, i, j) == \A k \in i + 1 .. j : s[k] = t[k]

(* Sequences that agree on a stretch have it in common.                    *)
LEMMA SegAlike ==
  ASSUME NEW S, NEW s \in Seq(S), NEW t \in Seq(S), NEW i \in Nat, NEW j \in Nat,
         i <= j, j <= Len(s), j <= Len(t), Alike(s, t, i, j)
  PROVE  Seg(s, i, j) = Seg(t, i, j)
<1>1. /\ Seg(s, i, j) \in Seq(S) /\ Len(Seg(s, i, j)) = j - i
      /\ \A k \in 1 .. j - i : Seg(s, i, j)[k] = s[i + k]
  BY SegIs
<1>2. /\ Seg(t, i, j) \in Seq(S) /\ Len(Seg(t, i, j)) = j - i
      /\ \A k \in 1 .. j - i : Seg(t, i, j)[k] = t[i + k]
  BY SegIs
<1>3. \A k \in 1 .. j - i : s[i + k] = t[i + k]
  <2>1. \A k \in 1 .. j - i : i + k \in i + 1 .. j  OBVIOUS
  <2>. QED  BY <2>1 DEF Alike
<1>. QED  BY <1>1, <1>2, <1>3, SeqEqual

(* A stretch of three bytes.                                               *)
LEMMA ThreeBytes ==
  ASSUME NEW S, NEW s \in Seq(S), NEW i \in Nat, NEW j, j = i + 3, j <= Len(s)
  PROVE  Seg(s, i, j) = <<s[i + 1], s[i + 2], s[i + 3]>>
<1>1. /\ Seg(s, i, j) \in Seq(S) /\ Len(Seg(s, i, j)) = j - i
      /\ \A k \in 1 .. j - i : Seg(s, i, j)[k] = s[i + k]
  <2>1. j \in Nat /\ i <= j  OBVIOUS
  <2>. QED  BY <2>1, SegIs
<1>2. j - i = 3  OBVIOUS
<1>. DEFINE u == Seg(s, i, j)
<1>. HIDE DEF u
<1>3. u \in Seq(S) /\ Len(u) = 3 /\ \A k \in 1 .. 3 : u[k] = s[i + k]  BY <1>1, <1>2 DEF u
<1>4. u = <<u[1], u[2], u[3]>>  BY <1>3
<1>5. u[1] = s[i + 1] /\ u[2] = s[i + 2] /\ u[3] = s[i + 3]  BY <1>3
<1>. QED  BY <1>4, <1>5, Zenon DEF u

Distance(op, d) == <<Opcode(op), (d \div Byte) % Byte, d % Byte>>

(* The bytes of a jump forward.                                            *)
LEMMA JumpOverIs ==
  ASSUME NEW op \in {"JMP", "JMPF"}, NEW x \in Seq(Bytes)
  PROVE  G!JumpOver(op, x) = Distance(op, Len(x))
<1>. DEFINE c == JumpCode(op) \o x
            d == PatchedDistance(c, 1)
            b == PutShort(c, 1, d)
<1>1. JumpCode(op) \in Seq(Bytes) /\ Len(JumpCode(op)) = 3 /\ JumpCode(op)[1] = Opcode(op)
  BY JumpBytes DEF JumpCode
<1>2. c \in Seq(Bytes) /\ Len(c) = Len(x) + 3 /\ c[1] = Opcode(op)
  <2>. DEFINE y == JumpCode(op)
  <2>1. y \in Seq(Bytes) /\ Len(y) = 3 /\ y[1] = Opcode(op)  BY <1>1
  <2>. HIDE DEF y
  <2>2. /\ y \o x \in Seq(Bytes) /\ Len(y \o x) = Len(y) + Len(x)
        /\ Agree(y \o x, y, Len(y))
    BY ONLY <2>1, x \in Seq(Bytes), SegBehind
  <2>3. Len(y \o x) = Len(x) + 3  BY ONLY <2>1, <2>2, x \in Seq(Bytes)
  <2>4. (y \o x)[1] = y[1]  BY ONLY <2>1, <2>2 DEF Agree
  <2>. QED  BY ONLY <2>1, <2>2, <2>3, <2>4 DEF y
<1>3. d = Len(x)  BY <1>2 DEF PatchedDistance
<1>4. G!JumpOver(op, x) = SubSeq(b, 1, 3)
  <2>1. G!JumpCode(op) = JumpCode(op)  BY SameJumps
  <2>2. \A s, h : G!Patched(s, h) = Patched(s, h)
    BY DEF G!Patched, Patched, G!PatchedDistance, PatchedDistance
  <2>. QED  BY <2>1, <2>2, PatchedIs DEF G!JumpOver
<1>. HIDE DEF c
<1>5. d \in Int  BY <1>3
<1>. HIDE DEF d
<1>6. /\ b \in Seq(Bytes) /\ Len(b) = Len(c)
      /\ \A k \in 1 .. Len(c) : b[k] = IF k = 1 + 1 THEN (d \div Byte) % Byte
                                       ELSE IF k = 1 + 2 THEN d % Byte ELSE c[k]
  <2>1. 1 \in Nat  OBVIOUS
  <2>. QED  BY <1>2, <1>5, <2>1, PutShortBytes
<1>. HIDE DEF b
<1>7. Seg(b, 0, 3) = <<b[0 + 1], b[0 + 2], b[0 + 3]>>
  <2>1. 0 \in Nat /\ 3 = 0 + 3 /\ 3 <= Len(b)  BY <1>2, <1>6
  <2>. QED  BY <1>6, <2>1, ThreeBytes
<1>8. Seg(b, 0, 3) = SubSeq(b, 1, 3)
  <2>1. 0 + 1 = 1  OBVIOUS
  <2>. QED  BY <2>1 DEF Seg
<1>9. b[1] = c[1] /\ b[2] = (d \div Byte) % Byte /\ b[3] = d % Byte
  <2>1. 1 \in 1 .. Len(c) /\ 2 \in 1 .. Len(c) /\ 3 \in 1 .. Len(c)  BY <1>2
  <2>. QED  BY <1>6, <2>1
<1>10. 0 + 1 = 1 /\ 0 + 2 = 2 /\ 0 + 3 = 3  OBVIOUS
<1>. QED  BY <1>2, <1>3, <1>4, <1>7, <1>8, <1>9, <1>10 DEF Distance

(* A jump that is patched leads to the end of the code.                    *)
Unpatched(c, h, v, op, hole, r) ==
  /\ c \in Seq(Bytes) /\ h \in Nat /\ v = h + 3 /\ v <= Len(c) /\ op \in {"JMP", "JMPF"}
  /\ Seg(c, h, v) = JumpCode(op) /\ hole = h + 1 /\ r = Len(c)

(* A patched jump leads over the code behind it, and the rest of the code  *)
(* stays.                                                                  *)
LEMMA PatchedSegs ==
  ASSUME NEW c, NEW h, NEW v, NEW op, NEW hole, NEW r, Unpatched(c, h, v, op, hole, r)
  PROVE  /\ Patched(c, hole) \in Seq(Bytes) /\ Len(Patched(c, hole)) = Len(c)
         /\ Seg(Patched(c, hole), h, v) = G!JumpOver(op, Seg(Patched(c, hole), v, r))
         /\ \A k \in 1 .. Len(c) : k <= h \/ v < k => Patched(c, hole)[k] = c[k]
<1>. USE DEF Unpatched
<1>. DEFINE d == PatchedDistance(c, hole)
            b == PutShort(c, hole, d)
<1>1. d = r - v /\ d \in Int /\ hole \in Nat /\ v \in Nat /\ r \in Nat
  BY DEF PatchedDistance
<1>2. Patched(c, hole) = b  BY PatchedIs
<1>. HIDE DEF d
<1>3. /\ b \in Seq(Bytes) /\ Len(b) = Len(c)
      /\ \A k \in 1 .. Len(c) : b[k] = IF k = hole + 1 THEN (d \div Byte) % Byte
                                       ELSE IF k = hole + 2 THEN d % Byte ELSE c[k]
  BY ONLY c \in Seq(Bytes), <1>1, PutShortBytes DEF b
<1>. HIDE DEF b
<1>4. \A k \in 1 .. Len(c) : k <= h \/ v < k => b[k] = c[k]
  <2>1. \A k \in 1 .. Len(c) : k <= h \/ v < k => k # hole + 1 /\ k # hole + 2  OBVIOUS
  <2>. QED  BY <1>3, <2>1
<1>5. Seg(b, h, v) = <<b[h + 1], b[h + 2], b[h + 3]>>  BY <1>3, ThreeBytes
<1>6. b[h + 1] = Opcode(op) /\ b[h + 2] = (d \div Byte) % Byte /\ b[h + 3] = d % Byte
  <2>1. h + 1 \in 1 .. Len(c) /\ h + 2 \in 1 .. Len(c) /\ h + 3 \in 1 .. Len(c)
    OBVIOUS
  <2>2. c[h + 1] = Opcode(op)
    <3>1. Seg(c, h, v) = <<c[h + 1], c[h + 2], c[h + 3]>>  BY ThreeBytes
    <3>2. JumpCode(op)[1] = Opcode(op)  BY DEF JumpCode
    <3>3. <<c[h + 1], c[h + 2], c[h + 3]>>[1] = c[h + 1]  OBVIOUS
    <3>. QED  BY <3>1, <3>2, <3>3
  <2>3. /\ h + 1 # hole + 1 /\ h + 1 # hole + 2 /\ h + 2 = hole + 1
        /\ h + 3 # hole + 1 /\ h + 3 = hole + 2
    OBVIOUS
  <2>. QED  BY <1>3, <2>1, <2>2, <2>3
<1>7. Seg(b, h, v) = Distance(op, d)  BY <1>5, <1>6, Zenon DEF Distance
<1>8. Seg(b, v, r) \in Seq(Bytes) /\ Len(Seg(b, v, r)) = d
  <2>1. v <= r /\ r <= Len(b)  BY <1>3
  <2>2. b \in Seq(Bytes) /\ v \in Nat /\ r \in Nat  BY <1>1, <1>3
  <2>3. Seg(b, v, r) \in Seq(Bytes) /\ Len(Seg(b, v, r)) = r - v
    BY ONLY <2>1, <2>2, SegIs
  <2>. QED  BY <1>1, <2>3
<1>9. G!JumpOver(op, Seg(b, v, r)) = Distance(op, d)  BY <1>8, JumpOverIs
<1>. QED  BY <1>2, <1>3, <1>4, <1>7, <1>9

(* A jump behind the code. *)
LEMMA JumpSegs ==
  ASSUME NEW op, NEW h, NEW v,
         code \in Seq(Bytes), op \in {"JMP", "JMPF"}, h = Len(code), v = h + 3
  PROVE  /\ WithJump(op) \in Seq(Bytes) /\ Len(WithJump(op)) = v
         /\ Seg(WithJump(op), h, v) = JumpCode(op)
         /\ \A k \in 1 .. h : WithJump(op)[k] = code[k]
         /\ Hole = h + 1 /\ h \in Nat /\ v \in Nat /\ h <= v
<1>. DEFINE j == JumpCode(op)
<1>1. j \in Seq(Bytes) /\ Len(j) = 3  BY JumpBytes
<1>2. WithJump(op) = code \o j  BY DEF WithJump
<1>. HIDE DEF j
<1>3. /\ code \o j \in Seq(Bytes) /\ Len(code \o j) = Len(code) + Len(j)
      /\ Agree(code \o j, code, Len(code))
      /\ Seg(code \o j, Len(code), Len(code \o j)) = j
  BY <1>1, SegBehind
<1>4. Len(code \o j) = v  BY <1>1, <1>3
<1>5. Hole = h + 1 /\ h \in Nat /\ v \in Nat /\ h <= v  BY DEF Hole
<1>. QED  BY <1>2, <1>3, <1>4, <1>5 DEF Agree, j

(* A jump back to start behind the code.                                   *)
LEMMA LoopSegs ==
  ASSUME NEW start, NEW h, NEW v,
         code \in Seq(Bytes), start \in Nat, h = Len(code), start <= h, v = h + 3
  PROVE  /\ WithLoop(start) \in Seq(Bytes) /\ Len(WithLoop(start)) = v
         /\ Seg(WithLoop(start), h, v) = G!BackwardJump(Seg(code, start, h))
         /\ \A k \in 1 .. h : WithLoop(start)[k] = code[k]
         /\ h \in Nat /\ v \in Nat /\ h <= v
<1>. DEFINE d == Len(code) + 3 - start
            j == Distance("NJMP", d)
<1>1. d \in Int /\ h \in Nat /\ v \in Nat /\ h <= v  OBVIOUS
<1>2. WithLoop(start) = code \o j  BY DEF WithLoop, Distance
<1>3. j \in Seq(Bytes) /\ Len(j) = 3
  <2>. DEFINE x == (d \div Byte) % Byte
              y == d % Byte
              z == Opcode("NJMP")
  <2>1. j = <<z, x, y>>  BY DEF Distance
  <2>2. x \in Bytes /\ y \in Bytes /\ z \in Bytes
    BY <1>1, ByteRange, OpcodeByte DEF EmittedOps
  <2>. HIDE DEF x, y, z, j
  <2>. QED  BY <2>1, <2>2
<1>4. j = G!BackwardJump(Seg(code, start, h))
  <2>1. Len(Seg(code, start, h)) = h - start
    <3>1. h <= Len(code) /\ h \in Nat  OBVIOUS
    <3>. QED  BY <3>1, SegIs
  <2>2. Len(Seg(code, start, h)) + 3 = d  BY <1>1, <2>1
  <2>3. G!Opcode("NJMP") = Opcode("NJMP")  BY SameOpcode
  <2>. HIDE DEF d
  <2>. QED  BY <2>2, <2>3 DEF Distance, G!BackwardJump
<1>. HIDE DEF j
<1>5. /\ code \o j \in Seq(Bytes) /\ Len(code \o j) = Len(code) + Len(j)
      /\ Agree(code \o j, code, Len(code))
      /\ Seg(code \o j, Len(code), Len(code \o j)) = j
  BY <1>3, SegBehind
<1>6. Len(code \o j) = v  BY <1>3, <1>5
<1>. QED  BY <1>1, <1>2, <1>4, <1>5, <1>6 DEF Agree

-----------------------------------------------------------------------------
(* A mark says what has been parsed since a token and a byte, and at what  *)
(* level.  The invariant puts one between any two calls of the stack.      *)

Mark(kind, tok, pos, level) == [kind |-> kind, tok |-> tok, pos |-> pos, level |-> level]
InfixKinds == {"binary", "postfix", "call"}
Kinds == InfixKinds \cup {"here", "token", "operand", "value", "void", "stmt", "list", "init",
                          "cond", "increment", "body", "end"}
Marks == [kind : Kinds, tok : Nat, pos : Nat, level : 0 .. 9]

(* The infix operator was just read, behind an operand.                    *)
Operated(L, rd, cd, pv, m, n, c) ==
  /\ n # 0 /\ pv = rd[n] /\ Infix(pv) = m.kind /\ m.level <= Precedence(pv)
  /\ \E k \in Nat : n = k + 1 /\ Operand(L, rd, cd, m.tok, k, m.pos, c, m.level)

(* RETURN and ; were read, and what they return was emitted.               *)
Voided(rd, cd, m, n, c) ==
  /\ m.tok + 2 = n /\ Span(rd, cd, m.tok, n, m.pos, c)
  /\ rd[m.tok + 1] = "RETURN" /\ rd[n] = "SEMICOLON"
  /\ Seg(cd, m.pos, c) = ConstantCode(Index["void"])

(* What was parsed, up to the n-th token and the c-th byte.                *)
Parsed(L, rd, cd, pv, m, n, c) ==
  \/ m.kind = "here"      /\ m.tok = n /\ m.pos = c
  \/ m.kind = "token"     /\ m.tok + 1 = n /\ m.pos = c /\ pv = rd[n]
  \/ m.kind \in InfixKinds /\ Operated(L, rd, cd, pv, m, n, c)
  \/ m.kind = "operand"   /\ Operand(L, rd, cd, m.tok, n, m.pos, c, m.level)
  \/ m.kind = "value"     /\ Value(L, rd, cd, m.tok, n, m.pos, c, m.level)
  \/ m.kind = "void"      /\ Voided(rd, cd, m, n, c)
  \/ m.kind = "stmt"      /\ Statement(L, rd, cd, m.tok, n, m.pos, c)
  \/ m.kind = "list"      /\ List(L, rd, cd, m.tok, n, m.pos, c)
  \/ m.kind = "init"      /\ Initial(L, rd, cd, m.tok, n, m.pos, c)
  \/ m.kind = "cond"      /\ Condition(L, rd, cd, m.tok, n, m.pos, c)
  \/ m.kind = "increment" /\ Increment(L, rd, cd, m.tok, n, m.pos, c)
  \/ m.kind = "body"      /\ Body(L, rd, cd, m.tok, n, m.pos, c)
Holds(L, rd, cd, pv, m) == Parsed(L, rd, cd, pv, m, Len(rd) - 1, Len(cd))

-----------------------------------------------------------------------------
(* What a call needs, i, and what is parsed when it has returned, o.       *)

SameStart(i, o) == i.tok = o.tok /\ i.pos = o.pos

(* A statement that starts at p and q is wanted: alone or as the next of a *)
(* list.                                                                   *)
Wanted(L, rd, cd, o, p, q) ==
  \/ o.kind = "stmt" /\ o.tok = p /\ o.pos = q
  \/ o.kind = "list" /\ List(L, rd, cd, o.tok, p, o.pos, q)

(* ... that began with the keyword at the t-th token.                      *)
Begun(L, rd, cd, o, keyword, t, q) ==
  \E p \in Nat : t = p + 1 /\ rd[t] = keyword /\ Wanted(L, rd, cd, o, p, q)

(* Calls of the rules of expressions. *)
AsOperand(o) == o.kind = "operand" /\ o.level \in 1 .. 9

PrecLink(e, i, o) ==
  /\ i.kind = "here" /\ o.kind = "value" /\ SameStart(i, o)
  /\ o.level = e.level /\ e.level \in 1 .. 9
InfixLink(e, i, o) ==
  /\ i.kind = "operand" /\ o.kind = "value" /\ SameStart(i, o)
  /\ i.level = e.level /\ o.level = e.level /\ e.level \in 1 .. 9
  /\ e.assigns = (e.level <= 1)
PrefixLink(rd, e, i, o) ==
  /\ i.kind = "token" /\ AsOperand(o) /\ SameStart(i, o)
  /\ e.assigns = (o.level <= 1)
  /\ e.do = "grouping" => rd[i.tok + 1] = "("
OperatorLink(e, i, o) ==
  i.kind = e.do /\ i.level = o.level /\ AsOperand(o) /\ SameStart(i, o)

(* What is called: an operand, and a parenthesis as the p-th token.        *)
Callee(L, rd, cd, o, p, q) ==
  /\ AsOperand(o) /\ rd[p] = "("
  /\ \E k \in Nat : p = k + 1 /\ Operand(L, rd, cd, o.tok, k, o.pos, q, o.level)
ArgumentLink(L, rd, cd, e, i, o) ==
  /\ i.kind = "value" /\ i.level = 1
  /\ \E p \in Nat, q \in Nat :
       Callee(L, rd, cd, o, p, q) /\ Passed(L, rd, cd, p, i.tok, q, i.pos, e.count)

(* What is emitted last of each construct. *)
LoadLink(rd, bytes, i, o) ==
  /\ i.kind = "here" /\ AsOperand(o) /\ i.tok = o.tok + 1 /\ i.pos = o.pos
  /\ \/ rd[i.tok] \in Names /\ bytes = OperandCode("LOADGLOBAL", Index[rd[i.tok]])
     \/ rd[i.tok] \in Literals /\ bytes = ConstantCode(Index[rd[i.tok]])
StoreLink(rd, bytes, i, o) ==
  /\ i.kind = "value" /\ i.level = 1 /\ o.kind = "operand" /\ o.level = 1
  /\ i.tok = o.tok + 2 /\ i.pos = o.pos
  /\ rd[o.tok + 1] \in Names /\ rd[i.tok] = "="
  /\ bytes = OperandCode("SETGLOBAL", Index[rd[o.tok + 1]])
UnaryLink(rd, bytes, i, o) ==
  /\ i.kind = "value" /\ AsOperand(o) /\ i.tok = o.tok + 1 /\ i.pos = o.pos
  /\ rd[i.tok] \in UnaryTokens /\ i.level = Precedence(rd[i.tok]) + 1
  /\ bytes = UnaryBytes(rd[i.tok])
BinaryLink(L, rd, cd, bytes, i, o) ==
  /\ i.kind = "value" /\ AsOperand(o)
  /\ \E k \in Nat : i.tok = k + 1 /\ Operand(L, rd, cd, o.tok, k, o.pos, i.pos, o.level)
  /\ rd[i.tok] \in BinaryTokens /\ i.level = Precedence(rd[i.tok]) + 1
  /\ o.level <= Precedence(rd[i.tok])
  /\ bytes = BinaryBytes(rd[i.tok])
PostfixLink(L, rd, cd, bytes, i, o) ==
  /\ i.kind = "here" /\ o.kind = "operand" /\ o.level \in 1 .. 8
  /\ \E k \in Nat : i.tok = k + 1 /\ Operand(L, rd, cd, o.tok, k, o.pos, i.pos, o.level)
  /\ rd[i.tok] \in {"INC", "DEC"} /\ bytes = StepBytes(rd[i.tok])
CallLink(L, rd, cd, bytes, i, o) ==
  /\ i.kind = "here" /\ rd[i.tok] = ")"
  /\ \E p \in Nat, q \in Nat, k \in Nat, count \in Nat :
       /\ i.tok = k + 1 /\ Callee(L, rd, cd, o, p, q)
       /\ bytes = <<Opcode("CALL"), count>>
       /\ \/ count = 0 /\ k = p /\ i.pos = q
          \/ count # 0 /\ Arguments(L, rd, cd, p, k, q, i.pos, count)
StatLink(L, rd, cd, bytes, i, o) ==
  /\ i.kind = "value" /\ i.level = 1 /\ bytes = StatCode
  /\ \/ Wanted(L, rd, cd, o, i.tok, i.pos)
     \/ o.kind = "increment" /\ SameStart(i, o)
KeywordLink(L, rd, cd, bytes, i, o) ==
  /\ i.kind = "value" /\ i.level = 1 /\ rd[i.tok] \in {"PRINT", "RETURN"}
  /\ bytes = <<Opcode(rd[i.tok])>> /\ Begun(L, rd, cd, o, rd[i.tok], i.tok, i.pos)
VoidLink(rd, bytes, i, o) ==
  /\ i.kind = "here" /\ o.kind = "void" /\ i.tok = o.tok + 2 /\ i.pos = o.pos
  /\ rd[o.tok + 1] = "RETURN" /\ rd[i.tok] = "SEMICOLON"
  /\ bytes = ConstantCode(Index["void"])
ReturnVoidLink(L, rd, cd, bytes, i, o) ==
  i.kind = "void" /\ bytes = <<Opcode("RETURN")>> /\ Wanted(L, rd, cd, o, i.tok, i.pos)

EmitLink(L, rd, cd, bytes, i, o) ==
  \/ LoadLink(rd, bytes, i, o)
  \/ StoreLink(rd, bytes, i, o)
  \/ UnaryLink(rd, bytes, i, o)
  \/ BinaryLink(L, rd, cd, bytes, i, o)
  \/ PostfixLink(L, rd, cd, bytes, i, o)
  \/ CallLink(L, rd, cd, bytes, i, o)
  \/ StatLink(L, rd, cd, bytes, i, o)
  \/ KeywordLink(L, rd, cd, bytes, i, o)
  \/ VoidLink(rd, bytes, i, o)
  \/ ReturnVoidLink(L, rd, cd, bytes, i, o)

(* Tokens that must follow. *)
GroupLink(rd, i, o) ==
  /\ i.kind = "value" /\ i.level = 1 /\ AsOperand(o)
  /\ i.tok = o.tok + 1 /\ i.pos = o.pos /\ rd[i.tok] = "("
InitLink(rd, i, o) ==
  i.kind = "stmt" /\ o.kind = "init" /\ SameStart(i, o) /\ rd[i.tok + 1] # "SEMICOLON"
CondLink(i, o) ==
  i.kind = "value" /\ i.level = 1 /\ o.kind = "cond" /\ SameStart(i, o)
BlockLink(L, rd, cd, i, o) ==
  /\ i.kind = "list"
  /\ \/ o.kind = "body" /\ i.tok = o.tok + 1 /\ i.pos = o.pos
     \/ Begun(L, rd, cd, o, "LBRACE", i.tok, i.pos)
ConsumeLink(L, rd, cd, token, i, o) ==
  \/ token = ")" /\ GroupLink(rd, i, o)
  \/ token = "SEMICOLON" /\ InitLink(rd, i, o)
  \/ token = "SEMICOLON" /\ CondLink(i, o)
  \/ token = "RBRACE" /\ BlockLink(L, rd, cd, i, o)

(* Calls of the rules of statements. *)
StmtLink(L, rd, cd, i, o) == i.kind = "here" /\ Wanted(L, rd, cd, o, i.tok, i.pos)
ReturnLink(L, rd, cd, i, o) ==
  i.kind = "token" /\ rd[i.tok + 1] = "RETURN" /\ Wanted(L, rd, cd, o, i.tok, i.pos)
ScopeLink(L, rd, cd, i, o) ==
  /\ i.kind = "here"
  /\ \/ o.kind = "body" /\ SameStart(i, o)
     \/ rd[i.tok + 1] = "LBRACE" /\ Wanted(L, rd, cd, o, i.tok, i.pos)

(* A jump behind the h-th byte, with its distance or without one yet.      *)
Jumps(cd, h, bytes) == h + 3 <= Len(cd) /\ Seg(cd, h, h + 3) = bytes
Hanging(cd, h, op, e, next) ==
  e.hole = h + 1 /\ next = h + 3 /\ Jumps(cd, h, JumpCode(op))

ConditionLink(L, rd, cd, keyword, i, o) ==
  i.kind = "value" /\ i.level = 1 /\ Begun(L, rd, cd, o, keyword, i.tok, i.pos)

(* The keyword and the condition, from behind p and q up to t and h.       *)
Guarded(L, rd, cd, o, keyword, p, t, q, h) ==
  \E k \in Nat : /\ k = p + 1 /\ rd[k] = keyword
                 /\ Value(L, rd, cd, k, t, q, h, 1)
                 /\ Wanted(L, rd, cd, o, p, q)
LoopLink(L, rd, cd, e, i, o) ==
  /\ i.kind = "stmt"
  /\ \E p \in Nat, h \in Nat :
       /\ Guarded(L, rd, cd, o, "WHILE", p, i.tok, e.start, h)
       /\ Hanging(cd, h, "JMPF", e, i.pos)
ElseLink(L, rd, cd, e, i, o) ==
  /\ i.kind = "stmt"
  /\ \E p \in Nat, q \in Nat, h \in Nat :
       /\ Guarded(L, rd, cd, o, "IF", p, i.tok, q, h)
       /\ Hanging(cd, h, "JMPF", e, i.pos)
(* The first branch of an if, from behind p and q up to j and k, and the   *)
(* jump there.                                                             *)
Branch(L, rd, cd, o, p, j, q, k) ==
  \E t \in Nat, h \in Nat, v \in Nat :
    /\ Guarded(L, rd, cd, o, "IF", p, t, q, h)
    /\ v = h + 3 /\ Statement(L, rd, cd, t, j, v, k)
    /\ Jumps(cd, h, G!JumpOver("JMPF", Seg(cd, v, k + 3)))
PatchLink(L, rd, cd, e, i, o) ==
  \E p \in Nat, j \in Nat, q \in Nat, k \in Nat :
    /\ Branch(L, rd, cd, o, p, j, q, k)
    /\ Hanging(cd, k, "JMP", e, i.pos)
    /\ \/ i.kind = "here" /\ i.tok = j /\ rd[j + 1] # "ELSE"
       \/ i.kind = "stmt" /\ i.tok = j + 1 /\ rd[j + 1] = "ELSE"

(* FOR and the initial statement, from behind p and q up to t and start.   *)
ForHead(L, rd, cd, o, p, t, q, start) ==
  \E k \in Nat : /\ k = p + 1 /\ rd[k] = "FOR"
                 /\ Initial(L, rd, cd, k, t, q, start)
                 /\ Wanted(L, rd, cd, o, p, q)
(* ... and the condition, up to k and b, where the exit is, if any.        *)
ForGuard(L, rd, cd, t, k, start, b, exit) ==
  \/ exit = {} /\ k = t + 1 /\ rd[k] = "SEMICOLON" /\ b = start /\ Span(rd, cd, t, k, b, b)
  \/ \E h \in Nat : /\ exit = {h + 1} /\ b = h + 3
                    /\ Condition(L, rd, cd, t, k, start, h)
                    /\ Jumps(cd, h, JumpCode("JMPF"))
ForTop(L, rd, cd, o, k, start, b, exit) ==
  \E p \in Nat, t \in Nat, q \in Nat :
    /\ ForHead(L, rd, cd, o, p, t, q, start)
    /\ ForGuard(L, rd, cd, t, k, start, b, exit)

ForInitLink(L, rd, cd, i, o) ==
  i.kind = "here" /\ Begun(L, rd, cd, o, "FOR", i.tok, i.pos)
ForConditionLink(L, rd, cd, i, o) ==
  i.kind = "init" /\ Begun(L, rd, cd, o, "FOR", i.tok, i.pos)
ForExitLink(L, rd, cd, e, i, o) ==
  /\ i.kind = "cond" /\ e.start = i.pos
  /\ \E p \in Nat, q \in Nat : ForHead(L, rd, cd, o, p, i.tok, q, i.pos)
ForStepLink(L, rd, cd, e, i, o) ==
  i.kind = "here" /\ ForTop(L, rd, cd, o, i.tok, e.start, i.pos, e.exit)
ForBodyLink(L, rd, cd, e, i, o) ==
  /\ i.kind = "increment"
  /\ \E b \in Nat :
       /\ ForTop(L, rd, cd, o, i.tok, e.start, b, e.exit)
       /\ Hanging(cd, b, "JMP", e, i.pos) /\ e.step = b + 3
ForEndLink(L, rd, cd, e, i, o) ==
  /\ i.kind = "body"
  /\ \E k \in Nat, start \in Nat, b \in Nat, v \in Nat :
       /\ ForTop(L, rd, cd, o, k, start, b, e.exit)
       /\ e.step = b + 3 /\ i.pos = v + 3
       /\ Increment(L, rd, cd, k, i.tok, e.step, v)
       /\ Jumps(cd, b, G!JumpOver("JMP", Seg(cd, e.step, i.pos)))
       /\ Jumps(cd, v, G!BackwardJump(Seg(cd, start, v)))
ScriptLink(i, o) == i.kind = "list" /\ i.tok = 0 /\ i.pos = 0 /\ o.kind = "end"

Linked(L, rd, cd, e, i, o) ==
  \/ e.do = "prec" /\ PrecLink(e, i, o)
  \/ e.do = "infix" /\ InfixLink(e, i, o)
  \/ e.do \in {"name", "literal", "grouping", "unary"} /\ PrefixLink(rd, e, i, o)
  \/ e.do \in InfixKinds /\ OperatorLink(e, i, o)
  \/ e.do = "argument" /\ ArgumentLink(L, rd, cd, e, i, o)
  \/ e.do = "emit" /\ EmitLink(L, rd, cd, e.bytes, i, o)
  \/ e.do = "consume" /\ ConsumeLink(L, rd, cd, e.token, i, o)
  \/ e.do = "stmt" /\ StmtLink(L, rd, cd, i, o)
  \/ e.do = "return" /\ ReturnLink(L, rd, cd, i, o)
  \/ e.do = "scope" /\ ScopeLink(L, rd, cd, i, o)
  \/ e.do = "block" /\ BlockLink(L, rd, cd, i, o)
  \/ e.do = "while" /\ e.start = i.pos /\ ConditionLink(L, rd, cd, "WHILE", i, o)
  \/ e.do = "if" /\ ConditionLink(L, rd, cd, "IF", i, o)
  \/ e.do = "loop" /\ LoopLink(L, rd, cd, e, i, o)
  \/ e.do = "else" /\ ElseLink(L, rd, cd, e, i, o)
  \/ e.do = "patch" /\ PatchLink(L, rd, cd, e, i, o)
  \/ e.do = "for" /\ ForInitLink(L, rd, cd, i, o)
  \/ e.do = "for_condition" /\ ForConditionLink(L, rd, cd, i, o)
  \/ e.do = "for_exit" /\ ForExitLink(L, rd, cd, e, i, o)
  \/ e.do = "for_step" /\ ForStepLink(L, rd, cd, e, i, o)
  \/ e.do = "for_body" /\ ForBodyLink(L, rd, cd, e, i, o)
  \/ e.do = "for_end" /\ ForEndLink(L, rd, cd, e, i, o)
  \/ e.do = "script" /\ ScriptLink(i, o)

Link(L, rd, cd, e, i, o) ==
  o.tok <= i.tok /\ o.pos <= i.pos /\ Linked(L, rd, cd, e, i, o)

-----------------------------------------------------------------------------
(* Phrases stay phrases while tokens are read and code is emitted, or a    *)
(* jump is patched, elsewhere.                                             *)

(* More tokens were read, and the code from behind b to c is the same.     *)
Later(rd, cd, rd2, cd2, b, c) ==
  /\ \E S : rd \in Seq(S) /\ rd2 \in Seq(S)
  /\ cd \in Seq(Bytes) /\ cd2 \in Seq(Bytes)
  /\ Len(rd) <= Len(rd2) /\ Agree(rd2, rd, Len(rd))
  /\ b \in Nat /\ c \in Nat /\ c <= Len(cd) /\ c <= Len(cd2)
  /\ Alike(cd2, cd, b, c)

(* The tokens read stay.                                                   *)
LEMMA LaterToken ==
  ASSUME NEW rd, NEW cd, NEW rd2, NEW cd2, NEW b, NEW c, Later(rd, cd, rd2, cd2, b, c),
         NEW k \in Nat, k # 0, k <= Len(rd)
  PROVE  rd2[k] = rd[k]
<1>1. PICK S : rd \in Seq(S)  BY DEF Later
<1>2. k \in 1 .. Len(rd)  BY <1>1
<1>. QED  BY <1>2 DEF Later, Agree

(* What stays of some of the code stays of a part of it.                   *)
LEMMA LaterPart ==
  ASSUME NEW rd, NEW cd, NEW rd2, NEW cd2, NEW b, NEW c, Later(rd, cd, rd2, cd2, b, c),
         NEW d \in Nat, NEW e \in Nat, b <= d, e <= c
  PROVE  Later(rd, cd, rd2, cd2, d, e)
<1>1. /\ cd \in Seq(Bytes) /\ cd2 \in Seq(Bytes) /\ b \in Nat /\ c \in Nat
      /\ c <= Len(cd) /\ c <= Len(cd2)
  BY DEF Later
<1>2. e <= Len(cd) /\ e <= Len(cd2)  BY <1>1
<1>3. \A k \in d + 1 .. e : k \in b + 1 .. c  BY <1>1
<1>4. Alike(cd2, cd, d, e)  BY <1>3 DEF Later, Alike
<1>. QED  BY <1>1, <1>2, <1>4 DEF Later

(* The tokens and the code between two places stay.                        *)
LEMMA LaterSpan ==
  ASSUME NEW rd, NEW cd, NEW rd2, NEW cd2, NEW b, NEW c, Later(rd, cd, rd2, cd2, b, c),
         NEW p, NEW j, NEW q, NEW r, Span(rd, cd, p, j, q, r), b <= q, r <= c
  PROVE  /\ Span(rd2, cd2, p, j, q, r)
         /\ Seg(rd2, p, j) = Seg(rd, p, j) /\ Seg(cd2, q, r) = Seg(cd, q, r)
         /\ rd2[j + 1] = rd[j + 1]
         /\ p < j => rd2[j] = rd[j] /\ rd2[p + 1] = rd[p + 1]
<1>1. PICK S : rd \in Seq(S) /\ rd2 \in Seq(S)  BY DEF Later
<1>2. /\ p \in Nat /\ j \in Nat /\ q \in Nat /\ r \in Nat
      /\ p <= j /\ j < Len(rd) /\ q <= r /\ r <= Len(cd)
  BY DEF Span
<1>3. /\ cd \in Seq(Bytes) /\ cd2 \in Seq(Bytes) /\ b \in Nat /\ c \in Nat
      /\ c <= Len(cd) /\ c <= Len(cd2) /\ Len(rd) <= Len(rd2)
  BY DEF Later
<1>4. Len(rd) \in Nat /\ Len(rd2) \in Nat /\ Len(cd) \in Nat /\ Len(cd2) \in Nat
  BY <1>1, <1>3
<1>5. /\ j < Len(rd2) /\ r <= Len(cd2) /\ j <= Len(rd) /\ j <= Len(rd2)
      /\ j + 1 \in Nat /\ j + 1 # 0 /\ j + 1 <= Len(rd)
      /\ p < j => j # 0 /\ p + 1 \in Nat /\ p + 1 # 0 /\ p + 1 <= Len(rd)
  BY <1>2, <1>3, <1>4
<1>6. Span(rd2, cd2, p, j, q, r)  BY <1>2, <1>5 DEF Span
<1>7. Seg(rd2, p, j) = Seg(rd, p, j)
  <2>1. \A k \in p + 1 .. j : k \in 1 .. Len(rd)  BY <1>2, <1>4
  <2>2. Agree(rd2, rd, Len(rd))  BY DEF Later
  <2>3. Alike(rd2, rd, p, j)  BY ONLY <2>1, <2>2 DEF Alike, Agree
  <2>. QED  BY ONLY <1>1, <1>2, <1>5, <2>3, SegAlike
<1>8. Seg(cd2, q, r) = Seg(cd, q, r)
  <2>1. Later(rd, cd, rd2, cd2, q, r)  BY <1>2, LaterPart
  <2>2. Alike(cd2, cd, q, r)  BY ONLY <2>1 DEF Later
  <2>. QED  BY ONLY <1>2, <1>3, <1>5, <2>2, SegAlike
<1>9. rd2[j + 1] = rd[j + 1]  BY <1>5, LaterToken
<1>10. p < j => rd2[j] = rd[j] /\ rd2[p + 1] = rd[p + 1]  BY <1>2, <1>5, LaterToken
<1>. QED  BY <1>6, <1>7, <1>8, <1>9, <1>10

(* An operand stays one.                                                   *)
LEMMA KeepsOperand ==
  ASSUME NEW rd, NEW cd, NEW rd2, NEW cd2, NEW b, NEW c, Later(rd, cd, rd2, cd2, b, c),
         NEW L, NEW p, NEW j, NEW q, NEW r, NEW level,
         Operand(L, rd, cd, p, j, q, r, level), b <= q, r <= c
  PROVE  Operand(L, rd2, cd2, p, j, q, r, level)
<1>1. Span(rd, cd, p, j, q, r)  BY DEF Operand
<1>. QED  BY <1>1, LaterSpan DEF Operand

(* So does a value.                                                        *)
LEMMA KeepsValue ==
  ASSUME NEW rd, NEW cd, NEW rd2, NEW cd2, NEW b, NEW c, Later(rd, cd, rd2, cd2, b, c),
         NEW L, NEW p, NEW j, NEW q, NEW r, NEW level,
         Value(L, rd, cd, p, j, q, r, level), b <= q, r <= c
  PROVE  Value(L, rd2, cd2, p, j, q, r, level)
<1>1. Operand(L, rd, cd, p, j, q, r, level)  BY DEF Value
<1>2. Span(rd, cd, p, j, q, r)  BY <1>1 DEF Operand
<1>3. Operand(L, rd2, cd2, p, j, q, r, level)  BY <1>1, KeepsOperand
<1>. QED  BY <1>2, <1>3, LaterSpan DEF Value

(* So do arguments.                                                        *)
LEMMA KeepsArguments ==
  ASSUME NEW rd, NEW cd, NEW rd2, NEW cd2, NEW b, NEW c, Later(rd, cd, rd2, cd2, b, c),
         NEW L, NEW p, NEW j, NEW q, NEW r, NEW count,
         Arguments(L, rd, cd, p, j, q, r, count), b <= q, r <= c
  PROVE  Arguments(L, rd2, cd2, p, j, q, r, count)
<1>1. Span(rd, cd, p, j, q, r)  BY DEF Arguments
<1>. QED  BY <1>1, LaterSpan DEF Arguments

(* So do arguments passed, with none at first.                             *)
LEMMA KeepsPassed ==
  ASSUME NEW rd, NEW cd, NEW rd2, NEW cd2, NEW b, NEW c, Later(rd, cd, rd2, cd2, b, c),
         NEW L, NEW p, NEW j, NEW q, NEW r, NEW count,
         Passed(L, rd, cd, p, j, q, r, count), b <= q, r <= c, j \in Nat, j <= Len(rd)
  PROVE  Passed(L, rd2, cd2, p, j, q, r, count)
<1>1. CASE count = 0 /\ j = p /\ r = q /\ Span(rd, cd, p, j, q, r)
  <2>1. Span(rd2, cd2, p, j, q, r)  BY <1>1, LaterSpan
  <2>. QED  BY <1>1, <2>1 DEF Passed
<1>2. CASE count # 0 /\ j # 0 /\ rd[j] = "COMMA" /\ Arguments(L, rd, cd, p, j - 1, q, r, count)
  <2>1. rd2[j] = "COMMA"  BY <1>2, LaterToken
  <2>. DEFINE k == j - 1
  <2>. HIDE DEF k
  <2>2. Arguments(L, rd, cd, p, k, q, r, count)  BY <1>2 DEF k
  <2>3. Arguments(L, rd2, cd2, p, k, q, r, count)  BY <2>2, KeepsArguments
  <2>. QED  BY <1>2, <2>1, <2>3 DEF Passed, k
<1>. QED  BY <1>1, <1>2 DEF Passed

(* So does a statement.                                                    *)
LEMMA KeepsStatement ==
  ASSUME NEW rd, NEW cd, NEW rd2, NEW cd2, NEW b, NEW c, Later(rd, cd, rd2, cd2, b, c),
         NEW L, NEW p, NEW j, NEW q, NEW r, Statement(L, rd, cd, p, j, q, r), b <= q, r <= c
  PROVE  Statement(L, rd2, cd2, p, j, q, r)
<1>1. Span(rd, cd, p, j, q, r)  BY DEF Statement
<1>. QED  BY <1>1, LaterSpan DEF Statement

(* So does a list of statements.                                           *)
LEMMA KeepsList ==
  ASSUME NEW rd, NEW cd, NEW rd2, NEW cd2, NEW b, NEW c, Later(rd, cd, rd2, cd2, b, c),
         NEW L, NEW p, NEW j, NEW q, NEW r, List(L, rd, cd, p, j, q, r), b <= q, r <= c
  PROVE  List(L, rd2, cd2, p, j, q, r)
<1>1. Span(rd, cd, p, j, q, r)  BY DEF List
<1>. QED  BY <1>1, LaterSpan DEF List

(* So does the first part of a for.                                        *)
LEMMA KeepsInitial ==
  ASSUME NEW rd, NEW cd, NEW rd2, NEW cd2, NEW b, NEW c, Later(rd, cd, rd2, cd2, b, c),
         NEW L, NEW p, NEW j, NEW q, NEW r, Initial(L, rd, cd, p, j, q, r), b <= q, r <= c
  PROVE  Initial(L, rd2, cd2, p, j, q, r)
<1>1. Span(rd, cd, p, j, q, r) /\ p < j /\ rd[j] = "SEMICOLON"  BY DEF Initial
<1>2. Span(rd2, cd2, p, j, q, r) /\ rd2[j] = "SEMICOLON" /\ rd2[p + 1] = rd[p + 1]
  BY <1>1, LaterSpan
<1>3. \A k : Statement(L, rd, cd, p, k, q, r) => Statement(L, rd2, cd2, p, k, q, r)
  BY KeepsStatement
<1>. QED  BY <1>1, <1>2, <1>3 DEF Initial

(* So does the second.                                                     *)
LEMMA KeepsCondition ==
  ASSUME NEW rd, NEW cd, NEW rd2, NEW cd2, NEW b, NEW c, Later(rd, cd, rd2, cd2, b, c),
         NEW L, NEW p, NEW j, NEW q, NEW r, Condition(L, rd, cd, p, j, q, r), b <= q, r <= c
  PROVE  Condition(L, rd2, cd2, p, j, q, r)
<1>1. Span(rd, cd, p, j, q, r) /\ p < j /\ rd[j] = "SEMICOLON"  BY DEF Condition
<1>2. Span(rd2, cd2, p, j, q, r) /\ rd2[j] = "SEMICOLON"  BY <1>1, LaterSpan
<1>3. \A k : Value(L, rd, cd, p, k, q, r, 1) => Value(L, rd2, cd2, p, k, q, r, 1)
  BY KeepsValue
<1>. QED  BY <1>1, <1>2, <1>3 DEF Condition

(* So does the third.                                                      *)
LEMMA KeepsIncrement ==
  ASSUME NEW rd, NEW cd, NEW rd2, NEW cd2, NEW b, NEW c, Later(rd, cd, rd2, cd2, b, c),
         NEW L, NEW p, NEW j, NEW q, NEW r, Increment(L, rd, cd, p, j, q, r), b <= q, r <= c
  PROVE  Increment(L, rd2, cd2, p, j, q, r)
<1>1. Span(rd, cd, p, j, q, r)  BY DEF Increment
<1>2. Span(rd2, cd2, p, j, q, r) /\ rd2[j + 1] = rd[j + 1]  BY <1>1, LaterSpan
<1>3. ASSUME NEW u \in q .. r, Value(L, rd, cd, p, j, q, u, 1), Seg(cd, u, r) = StatCode
      PROVE  Value(L, rd2, cd2, p, j, q, u, 1) /\ Seg(cd2, u, r) = StatCode
  <2>1. /\ p \in Nat /\ j \in Nat /\ q \in Nat /\ r \in Nat /\ p <= j /\ j < Len(rd)
        /\ q <= r /\ r <= Len(cd) /\ b \in Nat /\ c \in Nat
    BY <1>1 DEF Span, Later
  <2>2. u \in Nat /\ b <= u /\ u <= c /\ u <= r  BY <2>1
  <2>3. Span(rd, cd, p, j, u, r)  BY <2>1, <2>2 DEF Span
  <2>4. Seg(cd2, u, r) = Seg(cd, u, r)  BY <2>2, <2>3, LaterSpan
  <2>5. Value(L, rd2, cd2, p, j, q, u, 1)  BY <1>3, <2>2, KeepsValue
  <2>. QED  BY <1>3, <2>4, <2>5
<1>. QED  BY <1>2, <1>3 DEF Increment

(* A statement stays wanted where it was.                                  *)
LEMMA KeepsWanted ==
  ASSUME NEW rd, NEW cd, NEW rd2, NEW cd2, NEW b, NEW c, Later(rd, cd, rd2, cd2, b, c),
         NEW L, NEW o, NEW p, NEW q, Wanted(L, rd, cd, o, p, q), b = 0, q <= c
  PROVE  Wanted(L, rd2, cd2, o, p, q)
<1>1. List(L, rd, cd, o.tok, p, o.pos, q) => List(L, rd2, cd2, o.tok, p, o.pos, q)
  <2>1. Span(rd, cd, o.tok, p, o.pos, q) => b <= o.pos  BY DEF Span
  <2>. QED  BY <2>1, KeepsList DEF List
<1>. QED  BY <1>1 DEF Wanted

(* A jump stays where it was.                                              *)
LEMMA KeepsJumps ==
  ASSUME NEW rd, NEW cd, NEW rd2, NEW cd2, NEW b, NEW c, Later(rd, cd, rd2, cd2, b, c),
         NEW h \in Nat, NEW v, v = h + 3, NEW bytes, Jumps(cd, h, bytes), b <= h, v <= c
  PROVE  Jumps(cd2, h, bytes)
<1>1. /\ cd \in Seq(Bytes) /\ cd2 \in Seq(Bytes) /\ b \in Nat /\ c \in Nat
      /\ c <= Len(cd) /\ c <= Len(cd2)
  BY DEF Later
<1>2. v \in Nat /\ h <= v /\ v <= Len(cd) /\ v <= Len(cd2)  BY <1>1
<1>3. Alike(cd2, cd, h, v)
  <2>1. Later(rd, cd, rd2, cd2, h, v)  BY <1>2, LaterPart
  <2>. QED  BY ONLY <2>1 DEF Later
<1>4. Seg(cd2, h, v) = Seg(cd, h, v)  BY ONLY <1>1, <1>2, <1>3, h \in Nat, SegAlike
<1>. QED  BY <1>2, <1>4 DEF Jumps

-----------------------------------------------------------------------------
(* Links hold on while what is parsed or emitted lies behind them.         *)

Unmoved(rd, cd, rd2, cd2, i) ==
  Later(rd, cd, rd2, cd2, 0, i.pos) /\ i.tok \in Nat /\ i.tok < Len(rd)

(* The tokens before a mark, and the one behind it, stay.                  *)
LEMMA UnmovedToken ==
  ASSUME NEW rd, NEW cd, NEW rd2, NEW cd2, NEW i, Unmoved(rd, cd, rd2, cd2, i)
  PROVE  /\ rd2[i.tok + 1] = rd[i.tok + 1]
         /\ \A k \in Nat : k # 0 /\ k <= i.tok => rd2[k] = rd[k]
         /\ Later(rd, cd, rd2, cd2, 0, i.pos) /\ i.tok \in Nat /\ i.tok < Len(rd)
<1>1. \E S : rd \in Seq(S)  BY DEF Unmoved, Later
<1>2. Len(rd) \in Nat  BY <1>1
<1>3. /\ Later(rd, cd, rd2, cd2, 0, i.pos) /\ i.tok \in Nat /\ i.tok < Len(rd)
  BY DEF Unmoved
<1>4. \A k \in Nat : k # 0 /\ k <= Len(rd) => rd2[k] = rd[k]  BY <1>3, LaterToken
<1>. QED  BY <1>2, <1>3, <1>4

(* A statement that has begun before the mark stays so.                    *)
LEMMA KeepsBegun ==
  ASSUME NEW rd, NEW cd, NEW rd2, NEW cd2, NEW i, Unmoved(rd, cd, rd2, cd2, i),
         NEW L, NEW o, NEW keyword, Begun(L, rd, cd, o, keyword, i.tok, i.pos)
  PROVE  Begun(L, rd2, cd2, o, keyword, i.tok, i.pos) /\ rd2[i.tok] = rd[i.tok]
<1>1. PICK p \in Nat : /\ i.tok = p + 1 /\ rd[i.tok] = keyword
                       /\ Wanted(L, rd, cd, o, p, i.pos)
  BY DEF Begun
<1>2. i.tok # 0 /\ i.tok <= i.tok /\ i.tok \in Nat  BY <1>1
<1>3. rd2[i.tok] = rd[i.tok] /\ Later(rd, cd, rd2, cd2, 0, i.pos)
  BY <1>2, UnmovedToken
<1>4. i.pos <= i.pos  BY <1>3 DEF Later
<1>5. Wanted(L, rd2, cd2, o, p, i.pos)  BY <1>1, <1>3, <1>4, KeepsWanted
<1>. QED  BY <1>1, <1>3, <1>5 DEF Begun

(* An operand before the mark stays one.                                   *)
LEMMA KeepsBefore ==
  ASSUME NEW rd, NEW cd, NEW rd2, NEW cd2, NEW i, Unmoved(rd, cd, rd2, cd2, i),
         NEW L, NEW tok, NEW k \in Nat, NEW pos, NEW q \in Nat, q <= i.pos, NEW level,
         Operand(L, rd, cd, tok, k, pos, q, level)
  PROVE  Operand(L, rd2, cd2, tok, k, pos, q, level)
<1>1. Later(rd, cd, rd2, cd2, 0, i.pos)  BY DEF Unmoved
<1>2. 0 <= pos  BY DEF Operand, Span
<1>. QED  BY <1>1, <1>2, KeepsOperand

(* So does the callee of a call.                                           *)
LEMMA KeepsCallee ==
  ASSUME NEW rd, NEW cd, NEW rd2, NEW cd2, NEW i, Unmoved(rd, cd, rd2, cd2, i),
         NEW L, NEW o, NEW p \in Nat, NEW q \in Nat, q <= i.pos, Callee(L, rd, cd, o, p, q)
  PROVE  Callee(L, rd2, cd2, o, p, q)
<1>1. PICK k \in Nat : p = k + 1 /\ Operand(L, rd, cd, o.tok, k, o.pos, q, o.level)
  BY DEF Callee
<1>2. Operand(L, rd2, cd2, o.tok, k, o.pos, q, o.level)  BY <1>1, KeepsBefore
<1>3. k < Len(rd)  BY <1>1 DEF Operand, Span
<1>4. rd2[p] = rd[p]
  <2>1. \E S : rd \in Seq(S)  BY DEF Unmoved, Later
  <2>2. Len(rd) \in Nat  BY <2>1
  <2>3. p # 0 /\ p <= Len(rd)  BY <1>1, <1>3, <2>2
  <2>. QED  BY <2>3, LaterToken DEF Unmoved
<1>. QED  BY <1>1, <1>2, <1>4 DEF Callee

(* The link of a prefix rule stays.                                        *)
LEMMA KeepsPrefixLink ==
  ASSUME NEW rd, NEW cd, NEW rd2, NEW cd2, NEW i, Unmoved(rd, cd, rd2, cd2, i),
         NEW e, NEW o, PrefixLink(rd, e, i, o)
  PROVE  PrefixLink(rd2, e, i, o)
BY UnmovedToken DEF PrefixLink

(* The link of an argument stays.                                          *)
LEMMA KeepsArgumentLink ==
  ASSUME NEW rd, NEW cd, NEW rd2, NEW cd2, NEW i \in Marks, Unmoved(rd, cd, rd2, cd2, i),
         NEW L, NEW e, NEW o, ArgumentLink(L, rd, cd, e, i, o)
  PROVE  ArgumentLink(L, rd2, cd2, e, i, o)
<1>1. PICK p \in Nat, q \in Nat :
        Callee(L, rd, cd, o, p, q) /\ Passed(L, rd, cd, p, i.tok, q, i.pos, e.count)
  BY DEF ArgumentLink
<1>2. Later(rd, cd, rd2, cd2, 0, i.pos) /\ i.tok \in Nat /\ i.tok < Len(rd)
  BY DEF Unmoved
<1>3. \E S : rd \in Seq(S)  BY DEF Unmoved, Later
<1>4. i.pos \in Nat /\ 0 <= q /\ i.pos <= i.pos /\ i.tok <= Len(rd)
  BY <1>2, <1>3 DEF Marks
<1>5. q <= i.pos
  <2>1. \A j, r, n : Passed(L, rd, cd, p, j, q, r, n) => q <= r
    BY DEF Passed, Arguments, Span
  <2>. QED  BY <1>1, <2>1
<1>6. Callee(L, rd2, cd2, o, p, q)  BY <1>1, <1>5, KeepsCallee
<1>7. Passed(L, rd2, cd2, p, i.tok, q, i.pos, e.count)  BY <1>1, <1>2, <1>4, KeepsPassed
<1>. QED  BY <1>6, <1>7 DEF ArgumentLink

(* The link of code to be emitted stays.                                   *)
LEMMA KeepsEmitLink ==
  ASSUME NEW rd, NEW cd, NEW rd2, NEW cd2, NEW i \in Marks, Unmoved(rd, cd, rd2, cd2, i),
         NEW L, NEW bytes, NEW o \in Marks, EmitLink(L, rd, cd, bytes, i, o)
  PROVE  EmitLink(L, rd2, cd2, bytes, i, o)
<1>1. /\ i.tok \in Nat /\ i.pos \in Nat /\ o.tok \in Nat /\ o.pos \in Nat
  BY DEF Marks
<1>2. /\ Later(rd, cd, rd2, cd2, 0, i.pos) /\ i.tok < Len(rd)
      /\ \A k \in Nat : k # 0 /\ k <= i.tok => rd2[k] = rd[k]
  BY UnmovedToken
<1>3. CASE LoadLink(rd, bytes, i, o)
  <2>1. i.tok # 0 /\ i.tok <= i.tok  BY <1>1, <1>3 DEF LoadLink
  <2>2. rd2[i.tok] = rd[i.tok]  BY <1>1, <1>2, <2>1
  <2>3. LoadLink(rd2, bytes, i, o)  BY <1>3, <2>2 DEF LoadLink
  <2>. QED  BY <2>3 DEF EmitLink
<1>4. CASE StoreLink(rd, bytes, i, o)
  <2>1. i.tok # 0 /\ i.tok <= i.tok /\ o.tok + 1 \in Nat /\ o.tok + 1 # 0 /\ o.tok + 1 <= i.tok
    BY <1>1, <1>4 DEF StoreLink
  <2>2. rd2[i.tok] = rd[i.tok] /\ rd2[o.tok + 1] = rd[o.tok + 1]  BY <1>1, <1>2, <2>1
  <2>3. StoreLink(rd2, bytes, i, o)  BY <1>4, <2>2 DEF StoreLink
  <2>. QED  BY <2>3 DEF EmitLink
<1>5. CASE UnaryLink(rd, bytes, i, o)
  <2>1. i.tok # 0 /\ i.tok <= i.tok  BY <1>1, <1>5 DEF UnaryLink
  <2>2. rd2[i.tok] = rd[i.tok]  BY <1>1, <1>2, <2>1
  <2>3. UnaryLink(rd2, bytes, i, o)  BY <1>5, <2>2 DEF UnaryLink
  <2>. QED  BY <2>3 DEF EmitLink
<1>6. CASE BinaryLink(L, rd, cd, bytes, i, o)
  <2>1. PICK k \in Nat : i.tok = k + 1 /\ Operand(L, rd, cd, o.tok, k, o.pos, i.pos, o.level)
    BY <1>6 DEF BinaryLink
  <2>2. i.tok # 0 /\ i.tok <= i.tok /\ i.pos <= i.pos  BY <1>1, <2>1
  <2>3. rd2[i.tok] = rd[i.tok]  BY <1>1, <1>2, <2>2
  <2>4. Operand(L, rd2, cd2, o.tok, k, o.pos, i.pos, o.level)  BY <1>1, <2>1, <2>2, KeepsBefore
  <2>5. BinaryLink(L, rd2, cd2, bytes, i, o)  BY <1>6, <2>1, <2>3, <2>4 DEF BinaryLink
  <2>. QED  BY <2>5 DEF EmitLink
<1>7. CASE PostfixLink(L, rd, cd, bytes, i, o)
  <2>1. PICK k \in Nat : i.tok = k + 1 /\ Operand(L, rd, cd, o.tok, k, o.pos, i.pos, o.level)
    BY <1>7 DEF PostfixLink
  <2>2. i.tok # 0 /\ i.tok <= i.tok /\ i.pos <= i.pos  BY <1>1, <2>1
  <2>3. rd2[i.tok] = rd[i.tok]  BY <1>1, <1>2, <2>2
  <2>4. Operand(L, rd2, cd2, o.tok, k, o.pos, i.pos, o.level)  BY <1>1, <2>1, <2>2, KeepsBefore
  <2>5. PostfixLink(L, rd2, cd2, bytes, i, o)  BY <1>7, <2>1, <2>3, <2>4 DEF PostfixLink
  <2>. QED  BY <2>5 DEF EmitLink
<1>8. CASE CallLink(L, rd, cd, bytes, i, o)
  <2>1. PICK p \in Nat, q \in Nat, k \in Nat, count \in Nat :
          /\ i.tok = k + 1 /\ Callee(L, rd, cd, o, p, q)
          /\ bytes = <<Opcode("CALL"), count>>
          /\ \/ count = 0 /\ k = p /\ i.pos = q
             \/ count # 0 /\ Arguments(L, rd, cd, p, k, q, i.pos, count)
    BY <1>8 DEF CallLink
  <2>2. i.tok # 0 /\ i.tok <= i.tok /\ i.pos <= i.pos /\ 0 <= q  BY <1>1, <2>1
  <2>3. rd2[i.tok] = rd[i.tok]  BY <1>1, <1>2, <2>2
  <2>4. q <= i.pos
    <3>1. Arguments(L, rd, cd, p, k, q, i.pos, count) => q <= i.pos  BY DEF Arguments, Span
    <3>. QED  BY <1>1, <2>1, <2>2, <3>1
  <2>5. Callee(L, rd2, cd2, o, p, q)  BY <1>1, <2>1, <2>4, KeepsCallee
  <2>6. Arguments(L, rd, cd, p, k, q, i.pos, count)
          => Arguments(L, rd2, cd2, p, k, q, i.pos, count)
    BY <1>2, <2>2, KeepsArguments
  <2>7. \E p2 \in Nat, q2 \in Nat, k2 \in Nat, n \in Nat :
          /\ i.tok = k2 + 1 /\ Callee(L, rd2, cd2, o, p2, q2)
          /\ bytes = <<Opcode("CALL"), n>>
          /\ \/ n = 0 /\ k2 = p2 /\ i.pos = q2
             \/ n # 0 /\ Arguments(L, rd2, cd2, p2, k2, q2, i.pos, n)
    BY <2>1, <2>5, <2>6
  <2>8. CallLink(L, rd2, cd2, bytes, i, o)  BY <1>8, <2>3, <2>7 DEF CallLink
  <2>. QED  BY <2>8 DEF EmitLink
<1>9. CASE StatLink(L, rd, cd, bytes, i, o)
  <2>1. i.pos <= i.pos  BY <1>1
  <2>2. Wanted(L, rd, cd, o, i.tok, i.pos) => Wanted(L, rd2, cd2, o, i.tok, i.pos)
    BY <1>2, <2>1, KeepsWanted
  <2>3. StatLink(L, rd2, cd2, bytes, i, o)  BY <1>9, <2>2 DEF StatLink
  <2>. QED  BY <2>3 DEF EmitLink
<1>10. CASE KeywordLink(L, rd, cd, bytes, i, o)
  <2>1. Begun(L, rd, cd, o, rd[i.tok], i.tok, i.pos)  BY <1>10 DEF KeywordLink
  <2>2. Begun(L, rd2, cd2, o, rd[i.tok], i.tok, i.pos) /\ rd2[i.tok] = rd[i.tok]
    BY <2>1, KeepsBegun
  <2>3. KeywordLink(L, rd2, cd2, bytes, i, o)  BY <1>10, <2>2 DEF KeywordLink
  <2>. QED  BY <2>3 DEF EmitLink
<1>11. CASE VoidLink(rd, bytes, i, o)
  <2>1. i.tok # 0 /\ i.tok <= i.tok /\ o.tok + 1 \in Nat /\ o.tok + 1 # 0 /\ o.tok + 1 <= i.tok
    BY <1>1, <1>11 DEF VoidLink
  <2>2. rd2[i.tok] = rd[i.tok] /\ rd2[o.tok + 1] = rd[o.tok + 1]  BY <1>1, <1>2, <2>1
  <2>3. VoidLink(rd2, bytes, i, o)  BY <1>11, <2>2 DEF VoidLink
  <2>. QED  BY <2>3 DEF EmitLink
<1>12. CASE ReturnVoidLink(L, rd, cd, bytes, i, o)
  <2>1. i.pos <= i.pos  BY <1>1
  <2>2. Wanted(L, rd, cd, o, i.tok, i.pos) => Wanted(L, rd2, cd2, o, i.tok, i.pos)
    BY <1>2, <2>1, KeepsWanted
  <2>3. ReturnVoidLink(L, rd2, cd2, bytes, i, o)  BY <1>12, <2>2 DEF ReturnVoidLink
  <2>. QED  BY <2>3 DEF EmitLink
<1>. QED
  BY <1>3, <1>4, <1>5, <1>6, <1>7, <1>8, <1>9, <1>10, <1>11, <1>12 DEF EmitLink

(* The link of a block stays.                                              *)
LEMMA KeepsBlockLink ==
  ASSUME NEW rd, NEW cd, NEW rd2, NEW cd2, NEW i, Unmoved(rd, cd, rd2, cd2, i),
         NEW L, NEW o, BlockLink(L, rd, cd, i, o)
  PROVE  BlockLink(L, rd2, cd2, i, o)
<1>1. Begun(L, rd, cd, o, "LBRACE", i.tok, i.pos)
        => Begun(L, rd2, cd2, o, "LBRACE", i.tok, i.pos)
  BY KeepsBegun
<1>. QED  BY <1>1 DEF BlockLink

(* The link of a token to be consumed stays.                               *)
LEMMA KeepsConsumeLink ==
  ASSUME NEW rd, NEW cd, NEW rd2, NEW cd2, NEW i \in Marks, Unmoved(rd, cd, rd2, cd2, i),
         NEW L, NEW token, NEW o \in Marks, ConsumeLink(L, rd, cd, token, i, o)
  PROVE  ConsumeLink(L, rd2, cd2, token, i, o)
<1>1. /\ i.tok \in Nat /\ o.tok \in Nat /\ rd2[i.tok + 1] = rd[i.tok + 1]
      /\ \A k \in Nat : k # 0 /\ k <= i.tok => rd2[k] = rd[k]
  BY UnmovedToken DEF Marks
<1>2. CASE token = ")" /\ GroupLink(rd, i, o)
  <2>1. i.tok # 0 /\ i.tok <= i.tok  BY <1>1, <1>2 DEF GroupLink
  <2>2. rd2[i.tok] = rd[i.tok]  BY <1>1, <2>1
  <2>3. GroupLink(rd2, i, o)  BY <1>2, <2>2 DEF GroupLink
  <2>. QED  BY <1>2, <2>3 DEF ConsumeLink
<1>3. CASE token = "SEMICOLON" /\ InitLink(rd, i, o)
  <2>1. InitLink(rd2, i, o)  BY <1>1, <1>3 DEF InitLink
  <2>. QED  BY <1>3, <2>1 DEF ConsumeLink
<1>4. CASE token = "SEMICOLON" /\ CondLink(i, o)  BY <1>4 DEF ConsumeLink
<1>5. CASE token = "RBRACE" /\ BlockLink(L, rd, cd, i, o)
  BY <1>5, KeepsBlockLink DEF ConsumeLink
<1>. QED  BY <1>2, <1>3, <1>4, <1>5 DEF ConsumeLink

(* A keyword and its condition stay.                                       *)
LEMMA KeepsGuarded ==
  ASSUME NEW rd, NEW cd, NEW rd2, NEW cd2, NEW c, Later(rd, cd, rd2, cd2, 0, c),
         NEW L, NEW o, NEW keyword, NEW p \in Nat, NEW t, NEW q, NEW h, h <= c,
         Guarded(L, rd, cd, o, keyword, p, t, q, h)
  PROVE  Guarded(L, rd2, cd2, o, keyword, p, t, q, h)
<1>1. PICK k \in Nat : /\ k = p + 1 /\ rd[k] = keyword
                       /\ Value(L, rd, cd, k, t, q, h, 1)
                       /\ Wanted(L, rd, cd, o, p, q)
  BY DEF Guarded
<1>2. Span(rd, cd, k, t, q, h) /\ k < t  BY <1>1 DEF Value, Operand
<1>3. 0 <= q /\ q <= h /\ q \in Nat /\ h \in Nat  BY <1>2 DEF Span
<1>4. Value(L, rd2, cd2, k, t, q, h, 1)  BY <1>1, <1>3, KeepsValue
<1>5. q <= c
  <2>1. c \in Nat  BY DEF Later
  <2>. QED  BY <1>3, <2>1
<1>6. Wanted(L, rd2, cd2, o, p, q)  BY <1>1, <1>5, KeepsWanted
<1>7. k # 0 /\ k <= Len(rd)
  <2>1. \E S : rd \in Seq(S)  BY DEF Later
  <2>2. Len(rd) \in Nat /\ t \in Nat /\ t < Len(rd)  BY <1>2, <2>1 DEF Span
  <2>. QED  BY <1>1, <1>2, <2>2
<1>8. rd2[k] = keyword  BY <1>1, <1>7, LaterToken
<1>. QED  BY <1>1, <1>4, <1>6, <1>8 DEF Guarded

(* A jump that waits for its patch stays.                                  *)
LEMMA KeepsHanging ==
  ASSUME NEW rd, NEW cd, NEW rd2, NEW cd2, NEW c, Later(rd, cd, rd2, cd2, 0, c),
         NEW h \in Nat, NEW op, NEW e, NEW next, next <= c, Hanging(cd, h, op, e, next)
  PROVE  Hanging(cd2, h, op, e, next)
<1>1. next = h + 3 /\ Jumps(cd, h, JumpCode(op)) /\ 0 <= h  BY DEF Hanging
<1>2. Jumps(cd2, h, JumpCode(op))  BY <1>1, KeepsJumps
<1>. QED  BY <1>1, <1>2 DEF Hanging

(* The links of a while and of an if's body stay.                          *)
LEMMA KeepsLoopLink ==
  ASSUME NEW rd, NEW cd, NEW rd2, NEW cd2, NEW i \in Marks, Unmoved(rd, cd, rd2, cd2, i),
         NEW L, NEW e, NEW o \in Marks
  PROVE  /\ LoopLink(L, rd, cd, e, i, o) => LoopLink(L, rd2, cd2, e, i, o)
         /\ ElseLink(L, rd, cd, e, i, o) => ElseLink(L, rd2, cd2, e, i, o)
<1>1. Later(rd, cd, rd2, cd2, 0, i.pos) /\ i.pos \in Nat /\ i.pos <= i.pos
  BY DEF Unmoved, Marks
<1>2. ASSUME NEW h \in Nat, Hanging(cd, h, "JMPF", e, i.pos)
      PROVE  h <= i.pos /\ Hanging(cd2, h, "JMPF", e, i.pos)
  <2>1. h <= i.pos  BY <1>1, <1>2 DEF Hanging
  <2>. QED  BY <1>1, <1>2, <2>1, KeepsHanging
<1>3. ASSUME NEW p \in Nat, NEW q, NEW h \in Nat, h <= i.pos, NEW keyword,
             Guarded(L, rd, cd, o, keyword, p, i.tok, q, h)
      PROVE  Guarded(L, rd2, cd2, o, keyword, p, i.tok, q, h)
  BY <1>1, <1>3, KeepsGuarded
<1>4. ASSUME LoopLink(L, rd, cd, e, i, o)  PROVE LoopLink(L, rd2, cd2, e, i, o)
  <2>1. PICK p \in Nat, h \in Nat :
          /\ Guarded(L, rd, cd, o, "WHILE", p, i.tok, e.start, h)
          /\ Hanging(cd, h, "JMPF", e, i.pos)
    BY <1>4 DEF LoopLink
  <2>2. Hanging(cd2, h, "JMPF", e, i.pos) /\ h <= i.pos  BY <1>2, <2>1
  <2>3. Guarded(L, rd2, cd2, o, "WHILE", p, i.tok, e.start, h)  BY <1>3, <2>1, <2>2
  <2>. QED  BY <1>4, <2>2, <2>3 DEF LoopLink
<1>5. ASSUME ElseLink(L, rd, cd, e, i, o)  PROVE ElseLink(L, rd2, cd2, e, i, o)
  <2>1. PICK p \in Nat, q \in Nat, h \in Nat :
          /\ Guarded(L, rd, cd, o, "IF", p, i.tok, q, h)
          /\ Hanging(cd, h, "JMPF", e, i.pos)
    BY <1>5 DEF ElseLink
  <2>2. Hanging(cd2, h, "JMPF", e, i.pos) /\ h <= i.pos  BY <1>2, <2>1
  <2>3. Guarded(L, rd2, cd2, o, "IF", p, i.tok, q, h)  BY <1>3, <2>1, <2>2
  <2>. QED  BY <1>5, <2>2, <2>3 DEF ElseLink
<1>. QED  BY <1>4, <1>5

(* A jump that was patched. *)
LEMMA KeepsJumpOver ==
  ASSUME NEW rd, NEW cd, NEW rd2, NEW cd2, NEW c, Later(rd, cd, rd2, cd2, 0, c),
         NEW h \in Nat, NEW v, v = h + 3, NEW r \in Nat, v <= r, r <= c, NEW op,
         Jumps(cd, h, G!JumpOver(op, Seg(cd, v, r)))
  PROVE  Jumps(cd2, h, G!JumpOver(op, Seg(cd2, v, r)))
<1>1. v \in Nat /\ 0 <= h /\ 0 <= v /\ v <= c /\ c \in Nat  BY DEF Later
<1>2. Jumps(cd2, h, G!JumpOver(op, Seg(cd, v, r)))  BY <1>1, KeepsJumps
<1>3. Later(rd, cd, rd2, cd2, v, r)  BY <1>1, LaterPart
<1>4. Seg(cd2, v, r) = Seg(cd, v, r)
  <2>1. /\ cd \in Seq(Bytes) /\ cd2 \in Seq(Bytes) /\ r <= Len(cd) /\ r <= Len(cd2)
        /\ Alike(cd2, cd, v, r)
    BY ONLY <1>3 DEF Later
  <2>. QED  BY ONLY <1>1, <2>1, r \in Nat, v <= r, SegAlike
<1>. QED  BY <1>2, <1>4

(* The link of an if's last patch stays.                                   *)
LEMMA KeepsPatchLink ==
  ASSUME NEW rd, NEW cd, NEW rd2, NEW cd2, NEW i \in Marks, Unmoved(rd, cd, rd2, cd2, i),
         NEW L, NEW e, NEW o \in Marks, PatchLink(L, rd, cd, e, i, o)
  PROVE  PatchLink(L, rd2, cd2, e, i, o)
<1>1. PICK p \in Nat, j \in Nat, q \in Nat, k \in Nat :
        /\ Branch(L, rd, cd, o, p, j, q, k)
        /\ Hanging(cd, k, "JMP", e, i.pos)
        /\ \/ i.kind = "here" /\ i.tok = j /\ rd[j + 1] # "ELSE"
           \/ i.kind = "stmt" /\ i.tok = j + 1 /\ rd[j + 1] = "ELSE"
  BY DEF PatchLink
<1>2. Later(rd, cd, rd2, cd2, 0, i.pos) /\ i.pos \in Nat /\ i.pos <= i.pos
  BY DEF Unmoved, Marks
<1>3. k <= i.pos /\ i.pos = k + 3 /\ Hanging(cd2, k, "JMP", e, i.pos)
  <2>1. i.pos = k + 3  BY <1>1 DEF Hanging
  <2>2. Hanging(cd2, k, "JMP", e, i.pos)  BY <1>1, <1>2, KeepsHanging
  <2>. QED  BY <2>1, <2>2
<1>4. PICK t \in Nat, h \in Nat, v \in Nat :
        /\ Guarded(L, rd, cd, o, "IF", p, t, q, h)
        /\ v = h + 3 /\ Statement(L, rd, cd, t, j, v, k)
        /\ Jumps(cd, h, G!JumpOver("JMPF", Seg(cd, v, k + 3)))
  BY <1>1 DEF Branch
<1>5. Span(rd, cd, t, j, v, k) /\ t < j  BY <1>4 DEF Statement
<1>6. h <= i.pos /\ v <= i.pos /\ 0 <= v
  <2>1. v <= k  BY <1>5 DEF Span
  <2>. QED  BY <1>2, <1>3, <1>4, <2>1
<1>7. Guarded(L, rd2, cd2, o, "IF", p, t, q, h)  BY <1>2, <1>4, <1>6, KeepsGuarded
<1>8. Statement(L, rd2, cd2, t, j, v, k) /\ rd2[j + 1] = rd[j + 1]
  BY <1>2, <1>3, <1>4, <1>5, <1>6, KeepsStatement, LaterSpan
<1>9. Jumps(cd2, h, G!JumpOver("JMPF", Seg(cd2, v, i.pos)))
  <2>1. Jumps(cd, h, G!JumpOver("JMPF", Seg(cd, v, i.pos)))  BY <1>3, <1>4
  <2>. QED  BY <1>2, <1>4, <1>6, <2>1, KeepsJumpOver
<1>10. Jumps(cd2, h, G!JumpOver("JMPF", Seg(cd2, v, k + 3)))  BY <1>3, <1>9
<1>11. Branch(L, rd2, cd2, o, p, j, q, k)  BY <1>4, <1>7, <1>8, <1>10 DEF Branch
<1>. QED  BY <1>1, <1>3, <1>8, <1>11 DEF PatchLink

(* The first part of a for stays.                                          *)
LEMMA KeepsForHead ==
  ASSUME NEW rd, NEW cd, NEW rd2, NEW cd2, NEW c, Later(rd, cd, rd2, cd2, 0, c),
         NEW L, NEW o, NEW p \in Nat, NEW t, NEW q, NEW start, start <= c,
         ForHead(L, rd, cd, o, p, t, q, start)
  PROVE  ForHead(L, rd2, cd2, o, p, t, q, start)
<1>1. PICK k \in Nat : /\ k = p + 1 /\ rd[k] = "FOR"
                       /\ Initial(L, rd, cd, k, t, q, start)
                       /\ Wanted(L, rd, cd, o, p, q)
  BY DEF ForHead
<1>2. Span(rd, cd, k, t, q, start) /\ k < t  BY <1>1 DEF Initial
<1>3. 0 <= q /\ q <= start /\ q \in Nat /\ start \in Nat  BY <1>2 DEF Span
<1>4. Initial(L, rd2, cd2, k, t, q, start)  BY <1>1, <1>3, KeepsInitial
<1>5. q <= c
  <2>1. c \in Nat  BY DEF Later
  <2>. QED  BY <1>3, <2>1
<1>6. Wanted(L, rd2, cd2, o, p, q)  BY <1>1, <1>5, KeepsWanted
<1>7. k # 0 /\ k <= Len(rd)
  <2>1. \E S : rd \in Seq(S)  BY DEF Later
  <2>2. Len(rd) \in Nat /\ t \in Nat /\ t < Len(rd)  BY <1>2, <2>1 DEF Span
  <2>. QED  BY <1>1, <1>2, <2>2
<1>8. rd2[k] = "FOR"  BY <1>1, <1>7, LaterToken
<1>. QED  BY <1>1, <1>4, <1>6, <1>8 DEF ForHead

(* Its condition, with the jump out of the loop, stays.                    *)
LEMMA KeepsForGuard ==
  ASSUME NEW rd, NEW cd, NEW rd2, NEW cd2, NEW c, Later(rd, cd, rd2, cd2, 0, c),
         NEW L, NEW t, NEW k, NEW start, NEW b, NEW exit, b <= c,
         ForGuard(L, rd, cd, t, k, start, b, exit)
  PROVE  /\ ForGuard(L, rd2, cd2, t, k, start, b, exit)
         /\ start \in Nat /\ b \in Nat /\ start <= b /\ t \in Nat /\ k \in Nat /\ t < k
<1>1. CASE /\ exit = {} /\ k = t + 1 /\ rd[k] = "SEMICOLON" /\ b = start
           /\ Span(rd, cd, t, k, b, b)
  <2>1. t \in Nat /\ k \in Nat /\ b \in Nat /\ 0 <= b /\ t < k  BY <1>1 DEF Span
  <2>2. Span(rd2, cd2, t, k, b, b) /\ rd2[k] = rd[k]  BY <1>1, <2>1, LaterSpan
  <2>. QED  BY <1>1, <2>1, <2>2 DEF ForGuard
<1>2. ASSUME NEW h \in Nat, exit = {h + 1} /\ b = h + 3,
             Condition(L, rd, cd, t, k, start, h), Jumps(cd, h, JumpCode("JMPF"))
      PROVE  /\ ForGuard(L, rd2, cd2, t, k, start, b, exit)
             /\ start \in Nat /\ b \in Nat /\ start <= b /\ t \in Nat /\ k \in Nat /\ t < k
  <2>1. Span(rd, cd, t, k, start, h) /\ t < k  BY <1>2 DEF Condition
  <2>2. start \in Nat /\ start <= h /\ t \in Nat /\ k \in Nat  BY <2>1 DEF Span
  <2>3. c \in Nat  BY DEF Later
  <2>4. h <= c /\ 0 <= start /\ 0 <= h /\ b \in Nat /\ start <= b  BY <1>2, <2>2, <2>3
  <2>5. Condition(L, rd2, cd2, t, k, start, h)  BY <1>2, <2>4, KeepsCondition
  <2>6. Jumps(cd2, h, JumpCode("JMPF"))  BY <1>2, <2>4, KeepsJumps
  <2>7. ForGuard(L, rd2, cd2, t, k, start, b, exit)  BY <1>2, <2>5, <2>6 DEF ForGuard
  <2>. QED  BY <2>1, <2>2, <2>4, <2>7
<1>. QED  BY <1>1, <1>2 DEF ForGuard

(* Both of them stay.                                                      *)
LEMMA KeepsForTop ==
  ASSUME NEW rd, NEW cd, NEW rd2, NEW cd2, NEW c, Later(rd, cd, rd2, cd2, 0, c),
         NEW L, NEW o, NEW k, NEW start, NEW b, NEW exit, b <= c,
         ForTop(L, rd, cd, o, k, start, b, exit)
  PROVE  ForTop(L, rd2, cd2, o, k, start, b, exit) /\ start \in Nat /\ b \in Nat /\ start <= b
<1>1. PICK p \in Nat, t \in Nat, q \in Nat :
        ForHead(L, rd, cd, o, p, t, q, start) /\ ForGuard(L, rd, cd, t, k, start, b, exit)
  BY DEF ForTop
<1>2. ForGuard(L, rd2, cd2, t, k, start, b, exit) /\ start \in Nat /\ b \in Nat /\ start <= b
  BY <1>1, KeepsForGuard
<1>3. start <= c
  <2>1. c \in Nat  BY DEF Later
  <2>. QED  BY <1>2, <2>1
<1>4. ForHead(L, rd2, cd2, o, p, t, q, start)  BY <1>1, <1>3, KeepsForHead
<1>. QED  BY <1>2, <1>4 DEF ForTop

(* The links of the parts of a for stay.                                   *)
LEMMA KeepsForLinks ==
  ASSUME NEW rd, NEW cd, NEW rd2, NEW cd2, NEW i \in Marks, Unmoved(rd, cd, rd2, cd2, i),
         NEW L, NEW e, NEW o \in Marks
  PROVE  /\ ForExitLink(L, rd, cd, e, i, o) => ForExitLink(L, rd2, cd2, e, i, o)
         /\ ForStepLink(L, rd, cd, e, i, o) => ForStepLink(L, rd2, cd2, e, i, o)
         /\ ForBodyLink(L, rd, cd, e, i, o) => ForBodyLink(L, rd2, cd2, e, i, o)
<1>1. Later(rd, cd, rd2, cd2, 0, i.pos) /\ i.pos \in Nat /\ i.pos <= i.pos
  BY DEF Unmoved, Marks
<1>2. ASSUME ForExitLink(L, rd, cd, e, i, o)  PROVE ForExitLink(L, rd2, cd2, e, i, o)
  BY <1>1, <1>2, KeepsForHead DEF ForExitLink
<1>3. ASSUME ForStepLink(L, rd, cd, e, i, o)  PROVE ForStepLink(L, rd2, cd2, e, i, o)
  BY <1>1, <1>3, KeepsForTop DEF ForStepLink
<1>4. ASSUME ForBodyLink(L, rd, cd, e, i, o)  PROVE ForBodyLink(L, rd2, cd2, e, i, o)
  <2>1. PICK b \in Nat : /\ ForTop(L, rd, cd, o, i.tok, e.start, b, e.exit)
                         /\ Hanging(cd, b, "JMP", e, i.pos) /\ e.step = b + 3
    BY <1>4 DEF ForBodyLink
  <2>2. b <= i.pos  BY <1>1, <2>1 DEF Hanging
  <2>3. Hanging(cd2, b, "JMP", e, i.pos)  BY <1>1, <2>1, KeepsHanging
  <2>4. ForTop(L, rd2, cd2, o, i.tok, e.start, b, e.exit)  BY <1>1, <2>1, <2>2, KeepsForTop
  <2>. QED  BY <1>4, <2>1, <2>3, <2>4 DEF ForBodyLink
<1>. QED  BY <1>2, <1>3, <1>4

(* The link of its end stays.                                              *)
LEMMA KeepsForEndLink ==
  ASSUME NEW rd, NEW cd, NEW rd2, NEW cd2, NEW i \in Marks, Unmoved(rd, cd, rd2, cd2, i),
         NEW L, NEW e, NEW o \in Marks, ForEndLink(L, rd, cd, e, i, o)
  PROVE  ForEndLink(L, rd2, cd2, e, i, o)
<1>1. PICK k \in Nat, start \in Nat, b \in Nat, v \in Nat :
        /\ ForTop(L, rd, cd, o, k, start, b, e.exit)
        /\ e.step = b + 3 /\ i.pos = v + 3
        /\ Increment(L, rd, cd, k, i.tok, e.step, v)
        /\ Jumps(cd, b, G!JumpOver("JMP", Seg(cd, e.step, i.pos)))
        /\ Jumps(cd, v, G!BackwardJump(Seg(cd, start, v)))
  BY DEF ForEndLink
<1>2. Later(rd, cd, rd2, cd2, 0, i.pos) /\ i.pos \in Nat /\ i.pos <= i.pos
  BY DEF Unmoved, Marks
<1>3. Span(rd, cd, k, i.tok, e.step, v)  BY <1>1 DEF Increment
<1>4. e.step \in Nat /\ e.step <= v  BY <1>3 DEF Span
<1>5. /\ b <= i.pos /\ v <= i.pos /\ 0 <= e.step /\ e.step <= i.pos /\ 0 <= v /\ b <= v
  BY <1>1, <1>2, <1>4
<1>6. ForTop(L, rd2, cd2, o, k, start, b, e.exit) /\ start <= b
  BY <1>1, <1>2, <1>5, KeepsForTop
<1>7. Increment(L, rd2, cd2, k, i.tok, e.step, v)  BY <1>1, <1>2, <1>5, KeepsIncrement
<1>8. Jumps(cd2, b, G!JumpOver("JMP", Seg(cd2, e.step, i.pos)))
  BY <1>1, <1>2, <1>5, KeepsJumpOver
<1>9. Jumps(cd2, v, G!BackwardJump(Seg(cd2, start, v)))
  <2>1. Jumps(cd2, v, G!BackwardJump(Seg(cd, start, v)))  BY <1>1, <1>2, <1>5, KeepsJumps
  <2>2. Later(rd, cd, rd2, cd2, start, v)
    <3>1. 0 <= start  OBVIOUS
    <3>. QED  BY <1>2, <1>5, <3>1, LaterPart
  <2>3. /\ cd \in Seq(Bytes) /\ cd2 \in Seq(Bytes) /\ v <= Len(cd) /\ v <= Len(cd2)
        /\ Alike(cd2, cd, start, v)
    BY ONLY <2>2 DEF Later
  <2>4. start <= v  BY <1>1, <1>5, <1>6
  <2>5. Seg(cd2, start, v) = Seg(cd, start, v)
    BY ONLY <2>3, <2>4, start \in Nat, v \in Nat, SegAlike
  <2>. QED  BY <2>1, <2>5
<1>10. \E k2 \in Nat, s2 \in Nat, b2 \in Nat, v2 \in Nat :
         /\ ForTop(L, rd2, cd2, o, k2, s2, b2, e.exit)
         /\ e.step = b2 + 3 /\ i.pos = v2 + 3
         /\ Increment(L, rd2, cd2, k2, i.tok, e.step, v2)
         /\ Jumps(cd2, b2, G!JumpOver("JMP", Seg(cd2, e.step, i.pos)))
         /\ Jumps(cd2, v2, G!BackwardJump(Seg(cd2, s2, v2)))
  BY <1>1, <1>6, <1>7, <1>8, <1>9
<1>. QED  BY <1>10 DEF ForEndLink

(* All links. *)
LEMMA LinkKept ==
  ASSUME NEW rd, NEW cd, NEW rd2, NEW cd2, NEW i \in Marks, Unmoved(rd, cd, rd2, cd2, i),
         NEW L, NEW e, NEW o \in Marks, Link(L, rd, cd, e, i, o)
  PROVE  Link(L, rd2, cd2, e, i, o)
<1>1. /\ Later(rd, cd, rd2, cd2, 0, i.pos) /\ i.pos \in Nat /\ i.pos <= i.pos
      /\ rd2[i.tok + 1] = rd[i.tok + 1]
  BY UnmovedToken DEF Marks
<1>2. Wanted(L, rd, cd, o, i.tok, i.pos) => Wanted(L, rd2, cd2, o, i.tok, i.pos)
  BY <1>1, KeepsWanted
<1>3. \A keyword : Begun(L, rd, cd, o, keyword, i.tok, i.pos)
                     => Begun(L, rd2, cd2, o, keyword, i.tok, i.pos)
  BY KeepsBegun
<1>4. PrefixLink(rd, e, i, o) => PrefixLink(rd2, e, i, o)  BY KeepsPrefixLink
<1>5. ArgumentLink(L, rd, cd, e, i, o) => ArgumentLink(L, rd2, cd2, e, i, o)
  BY KeepsArgumentLink
<1>6. EmitLink(L, rd, cd, e.bytes, i, o) => EmitLink(L, rd2, cd2, e.bytes, i, o)
  BY KeepsEmitLink
<1>7. ConsumeLink(L, rd, cd, e.token, i, o) => ConsumeLink(L, rd2, cd2, e.token, i, o)
  BY KeepsConsumeLink
<1>8. BlockLink(L, rd, cd, i, o) => BlockLink(L, rd2, cd2, i, o)  BY KeepsBlockLink
<1>9. /\ StmtLink(L, rd, cd, i, o) => StmtLink(L, rd2, cd2, i, o)
      /\ ReturnLink(L, rd, cd, i, o) => ReturnLink(L, rd2, cd2, i, o)
      /\ ScopeLink(L, rd, cd, i, o) => ScopeLink(L, rd2, cd2, i, o)
  BY <1>1, <1>2 DEF StmtLink, ReturnLink, ScopeLink
<1>10. \A keyword : ConditionLink(L, rd, cd, keyword, i, o)
                      => ConditionLink(L, rd2, cd2, keyword, i, o)
  BY <1>3 DEF ConditionLink
<1>11. /\ LoopLink(L, rd, cd, e, i, o) => LoopLink(L, rd2, cd2, e, i, o)
       /\ ElseLink(L, rd, cd, e, i, o) => ElseLink(L, rd2, cd2, e, i, o)
  BY KeepsLoopLink
<1>12. PatchLink(L, rd, cd, e, i, o) => PatchLink(L, rd2, cd2, e, i, o)  BY KeepsPatchLink
<1>13. /\ ForInitLink(L, rd, cd, i, o) => ForInitLink(L, rd2, cd2, i, o)
       /\ ForConditionLink(L, rd, cd, i, o) => ForConditionLink(L, rd2, cd2, i, o)
  BY <1>3 DEF ForInitLink, ForConditionLink
<1>14. /\ ForExitLink(L, rd, cd, e, i, o) => ForExitLink(L, rd2, cd2, e, i, o)
       /\ ForStepLink(L, rd, cd, e, i, o) => ForStepLink(L, rd2, cd2, e, i, o)
       /\ ForBodyLink(L, rd, cd, e, i, o) => ForBodyLink(L, rd2, cd2, e, i, o)
  BY KeepsForLinks
<1>15. ForEndLink(L, rd, cd, e, i, o) => ForEndLink(L, rd2, cd2, e, i, o)
  BY KeepsForEndLink
<1>16. Linked(L, rd, cd, e, i, o) => Linked(L, rd2, cd2, e, i, o)
  BY <1>4, <1>5, <1>6, <1>7, <1>8, <1>9, <1>10, <1>11, <1>12, <1>13, <1>14, <1>15, Zenon
  DEF Linked
<1>. QED  BY <1>16 DEF Link

-----------------------------------------------------------------------------
(* The marks of a whole stack: o is above its topmost call.                *)

Descends(in) ==
  \A i, j \in 1 .. Len(in) : i <= j => in[j].tok <= in[i].tok /\ in[j].pos <= in[i].pos
Links(L, rd, cd, calls, in) ==
  \A k \in 1 .. Len(calls) : Link(L, rd, cd, calls[k], in[k], in[k + 1])
Under(L, rd, cd, calls, o) ==
  \E in \in Seq(Marks) :
    /\ \E S : calls \in Seq(S)
    /\ Len(in) = Len(calls) + 1 /\ in[1] = o
    /\ Descends(in) /\ Links(L, rd, cd, calls, in)

(* A call on top of others.                                                *)
LEMMA ConsIs ==
  ASSUME NEW S, NEW x \in S, NEW s \in Seq(S)
  PROVE  /\ <<x>> \o s \in Seq(S) /\ Len(<<x>> \o s) = Len(s) + 1
         /\ (<<x>> \o s)[1] = x
         /\ \A k \in 1 .. Len(s) : (<<x>> \o s)[k + 1] = s[k]
OBVIOUS

(* A call may be put on others, when it is linked to their mark.           *)
LEMMA UnderPush ==
  ASSUME NEW L, NEW rd, NEW cd, NEW calls, NEW o, Under(L, rd, cd, calls, o),
         NEW e, NEW i \in Marks, Link(L, rd, cd, e, i, o)
  PROVE  Under(L, rd, cd, <<e>> \o calls, i)
<1>1. PICK in \in Seq(Marks) :
        /\ \E S : calls \in Seq(S)
        /\ Len(in) = Len(calls) + 1 /\ in[1] = o
        /\ Descends(in) /\ Links(L, rd, cd, calls, in)
  BY DEF Under
<1>2. PICK S : calls \in Seq(S)  BY <1>1
<1>. DEFINE R == S \cup {e}
            c == <<e>> \o calls
            m == <<i>> \o in
<1>3. /\ c \in Seq(R) /\ Len(c) = Len(calls) + 1 /\ c[1] = e
      /\ \A k \in 1 .. Len(calls) : c[k + 1] = calls[k]
  <2>1. e \in R /\ calls \in Seq(R)  BY <1>2
  <2>. HIDE DEF R
  <2>. QED  BY <2>1, ConsIs
<1>4. /\ m \in Seq(Marks) /\ Len(m) = Len(in) + 1 /\ m[1] = i
      /\ \A k \in 1 .. Len(in) : m[k + 1] = in[k]
  BY ConsIs
<1>. HIDE DEF c, m, R
<1>5. Len(calls) \in Nat /\ Len(in) \in Nat  BY <1>1, <1>2
<1>6. Links(L, rd, cd, c, m)
  <2>. SUFFICES ASSUME NEW k \in 1 .. Len(c)  PROVE Link(L, rd, cd, c[k], m[k], m[k + 1])
    BY DEF Links
  <2>1. CASE k = 1
    <3>1. 1 \in 1 .. Len(in)  BY <1>1, <1>5
    <3>2. m[1 + 1] = o  BY <1>1, <1>4, <3>1
    <3>. QED  BY <1>3, <1>4, <2>1, <3>2
  <2>2. CASE k # 1
    <3>1. PICK j \in 1 .. Len(calls) : k = j + 1
      <4>1. k - 1 \in 1 .. Len(calls) /\ k = (k - 1) + 1  BY <1>3, <1>5, <2>2
      <4>. QED  BY <4>1
    <3>2. j \in 1 .. Len(in) /\ j + 1 \in 1 .. Len(in)  BY <1>1, <1>5
    <3>3. c[k] = calls[j] /\ m[k] = in[j] /\ m[k + 1] = in[j + 1]
      BY <1>3, <1>4, <3>1, <3>2
    <3>4. Link(L, rd, cd, calls[j], in[j], in[j + 1])  BY <1>1 DEF Links
    <3>. QED  BY <3>3, <3>4
  <2>. QED  BY <2>1, <2>2
<1>7. Descends(m)
  <2>1. /\ o.tok <= i.tok /\ o.pos <= i.pos
        /\ i.tok \in Nat /\ i.pos \in Nat
        /\ \A k \in 1 .. Len(in) : in[k].tok \in Nat /\ in[k].pos \in Nat
    <3>1. \A k \in 1 .. Len(in) : in[k] \in Marks  BY <1>5
    <3>2. \A x \in Marks : x.tok \in Nat /\ x.pos \in Nat  BY DEF Marks
    <3>. QED  BY <3>1, <3>2 DEF Link
  <2>2. \A k \in 1 .. Len(in) : in[k].tok <= i.tok /\ in[k].pos <= i.pos
    <3>. SUFFICES ASSUME NEW k \in 1 .. Len(in)
                  PROVE  in[k].tok <= i.tok /\ in[k].pos <= i.pos
      OBVIOUS
    <3>1. 1 \in 1 .. Len(in) /\ 1 <= k  BY <1>5
    <3>2. in[k].tok <= in[1].tok /\ in[k].pos <= in[1].pos  BY <1>1, <3>1 DEF Descends
    <3>3. in[1].tok \in Nat /\ in[1].pos \in Nat  BY <2>1, <3>1
    <3>. QED  BY <1>1, <2>1, <3>2, <3>3
  <2>. SUFFICES ASSUME NEW x \in 1 .. Len(m), NEW y \in 1 .. Len(m), x <= y
                PROVE  m[y].tok <= m[x].tok /\ m[y].pos <= m[x].pos
    BY DEF Descends
  <2>3. \A k \in 1 .. Len(m) : k = 1 \/ \E j \in 1 .. Len(in) : k = j + 1
    <3>. SUFFICES ASSUME NEW k \in 1 .. Len(m), k # 1
                  PROVE  \E j \in 1 .. Len(in) : k = j + 1
      OBVIOUS
    <3>1. k - 1 \in 1 .. Len(in) /\ k = (k - 1) + 1  BY <1>4, <1>5
    <3>. QED  BY <3>1
  <2>4. CASE y = 1
    <3>1. x = 1  BY <1>5, <2>4
    <3>. QED  BY <1>4, <2>1, <2>4, <3>1
  <2>5. CASE x = 1 /\ y # 1
    <3>1. PICK j \in 1 .. Len(in) : y = j + 1  BY <2>3, <2>5
    <3>2. m[y] = in[j]  BY <1>4, <3>1
    <3>. QED  BY <1>4, <2>2, <2>5, <3>2
  <2>6. CASE x # 1 /\ y # 1
    <3>1. PICK j \in 1 .. Len(in) : y = j + 1  BY <2>3, <2>6
    <3>2. PICK l \in 1 .. Len(in) : x = l + 1  BY <2>3, <2>6
    <3>3. m[y] = in[j] /\ m[x] = in[l] /\ l <= j  BY <1>4, <3>1, <3>2
    <3>4. in[j].tok <= in[l].tok /\ in[j].pos <= in[l].pos  BY <1>1, <3>3 DEF Descends
    <3>. QED  BY <3>3, <3>4
  <2>. QED  BY <2>4, <2>5, <2>6
<1>8. Len(m) = Len(c) + 1  BY <1>1, <1>3, <1>4, <1>5
<1>. QED  BY <1>3, <1>4, <1>6, <1>7, <1>8 DEF Under, c

(* When the top is taken off, the mark below it is the others'.            *)
LEMMA UnderPop ==
  ASSUME NEW L, NEW rd, NEW cd, NEW calls, NEW i, Under(L, rd, cd, calls, i), calls # <<>>
  PROVE  \E o \in Marks : Link(L, rd, cd, calls[1], i, o) /\ Under(L, rd, cd, Tail(calls), o)
<1>1. PICK in \in Seq(Marks) :
        /\ \E S : calls \in Seq(S)
        /\ Len(in) = Len(calls) + 1 /\ in[1] = i
        /\ Descends(in) /\ Links(L, rd, cd, calls, in)
  BY DEF Under
<1>2. PICK S : calls \in Seq(S)  BY <1>1
<1>. DEFINE c == Tail(calls)
            m == Tail(in)
<1>3. /\ c \in Seq(S) /\ Len(c) = Len(calls) - 1 /\ Len(calls) \in Nat \ {0}
      /\ \A k \in 1 .. Len(c) : c[k] = calls[k + 1]
  BY <1>2
<1>4. in # <<>> /\ Len(in) \in Nat  BY <1>1, <1>3
<1>5. /\ m \in Seq(Marks) /\ Len(m) = Len(in) - 1
      /\ \A k \in 1 .. Len(m) : m[k] = in[k + 1]
  BY <1>4
<1>. HIDE DEF c, m
<1>6. Len(m) = Len(c) + 1 /\ 1 \in 1 .. Len(m) /\ 1 \in 1 .. Len(calls)
  BY <1>1, <1>3, <1>5
<1>7. m[1] \in Marks /\ m[1] = in[1 + 1]  BY <1>5, <1>6
<1>8. Link(L, rd, cd, calls[1], i, m[1])
  <2>1. Link(L, rd, cd, calls[1], in[1], in[1 + 1])  BY <1>1, <1>6 DEF Links
  <2>. QED  BY <1>1, <1>7, <2>1
<1>9. Links(L, rd, cd, c, m)
  <2>. SUFFICES ASSUME NEW k \in 1 .. Len(c)  PROVE Link(L, rd, cd, c[k], m[k], m[k + 1])
    BY DEF Links
  <2>. DEFINE j == k + 1
  <2>1. j \in 1 .. Len(calls) /\ k \in 1 .. Len(m) /\ j \in 1 .. Len(m)
    BY <1>3, <1>6
  <2>2. c[k] = calls[j] /\ m[k] = in[j] /\ m[j] = in[j + 1]  BY <1>3, <1>5, <2>1
  <2>3. Link(L, rd, cd, calls[j], in[j], in[j + 1])  BY <1>1, <2>1 DEF Links
  <2>. QED  BY <2>2, <2>3
<1>10. Descends(m)
  <2>. SUFFICES ASSUME NEW x \in 1 .. Len(m), NEW y \in 1 .. Len(m), x <= y
                PROVE  m[y].tok <= m[x].tok /\ m[y].pos <= m[x].pos
    BY DEF Descends
  <2>1. x + 1 \in 1 .. Len(in) /\ y + 1 \in 1 .. Len(in) /\ x + 1 <= y + 1
    BY <1>4, <1>5
  <2>2. in[y + 1].tok <= in[x + 1].tok /\ in[y + 1].pos <= in[x + 1].pos
    BY <1>1, <2>1 DEF Descends
  <2>. QED  BY <1>5, <2>2
<1>11. Under(L, rd, cd, c, m[1])  BY <1>3, <1>5, <1>6, <1>9, <1>10 DEF Under
<1>. QED  BY <1>7, <1>8, <1>11 DEF c

(* Any mark is that of an empty stack.                                     *)
LEMMA UnderNone ==
  ASSUME NEW L, NEW rd, NEW cd, NEW o \in Marks
  PROVE  Under(L, rd, cd, <<>>, o)
<1>1. <<o>> \in Seq(Marks) /\ Len(<<o>>) = 1 /\ <<o>>[1] = o  OBVIOUS
<1>2. Len(<<>>) = 0 /\ <<>> \in Seq(Nat)  OBVIOUS
<1>3. Links(L, rd, cd, <<>>, <<o>>)  BY <1>2 DEF Links
<1>4. o.tok <= o.tok /\ o.pos <= o.pos  BY DEF Marks
<1>5. Descends(<<o>>)
  <2>1. \A k \in 1 .. Len(<<o>>) : <<o>>[k] = o  BY <1>1
  <2>. QED  BY <1>4, <2>1 DEF Descends
<1>. DEFINE in == <<o>>
            c == <<>>
<1>6. /\ in \in Seq(Marks) /\ Len(in) = Len(c) + 1 /\ in[1] = o /\ \E S : c \in Seq(S)
      /\ Descends(in) /\ Links(L, rd, cd, c, in)
  BY <1>1, <1>2, <1>3, <1>5
<1>. HIDE DEF in, c
<1>7. Under(L, rd, cd, c, o)  BY <1>6 DEF Under
<1>. QED  BY <1>7 DEF c

(* The marks of a stack stay while everything changes above it.            *)
LEMMA UnderKept ==
  ASSUME NEW L, NEW rd, NEW cd, NEW calls, NEW o, Under(L, rd, cd, calls, o),
         NEW rd2, NEW cd2, Unmoved(rd, cd, rd2, cd2, o)
  PROVE  Under(L, rd2, cd2, calls, o)
<1>1. PICK in \in Seq(Marks) :
        /\ \E S : calls \in Seq(S)
        /\ Len(in) = Len(calls) + 1 /\ in[1] = o
        /\ Descends(in) /\ Links(L, rd, cd, calls, in)
  BY DEF Under
<1>2. Len(calls) \in Nat /\ Len(in) \in Nat  BY <1>1
<1>3. /\ Later(rd, cd, rd2, cd2, 0, o.pos) /\ o.tok \in Nat /\ o.tok < Len(rd)
      /\ o.pos \in Nat /\ Len(rd) \in Nat
  BY DEF Unmoved, Later
<1>4. ASSUME NEW k \in 1 .. Len(in)
      PROVE  in[k] \in Marks /\ Unmoved(rd, cd, rd2, cd2, in[k])
  <2>1. in[k] \in Marks  BY <1>2
  <2>2. in[k].tok \in Nat /\ in[k].pos \in Nat /\ 0 <= 0  BY <2>1 DEF Marks
  <2>3. 1 \in 1 .. Len(in) /\ 1 <= k  BY <1>2
  <2>4. in[k].tok <= in[1].tok /\ in[k].pos <= in[1].pos  BY <1>1, <2>3 DEF Descends
  <2>5. in[k].tok < Len(rd) /\ in[k].pos <= o.pos  BY <1>1, <1>3, <2>2, <2>4
  <2>6. Later(rd, cd, rd2, cd2, 0, in[k].pos)  BY <1>3, <2>2, <2>5, LaterPart
  <2>. QED  BY <2>1, <2>2, <2>5, <2>6 DEF Unmoved
<1>5. Links(L, rd2, cd2, calls, in)
  <2>. SUFFICES ASSUME NEW k \in 1 .. Len(calls)
                PROVE  Link(L, rd2, cd2, calls[k], in[k], in[k + 1])
    BY DEF Links
  <2>1. k \in 1 .. Len(in) /\ k + 1 \in 1 .. Len(in)  BY <1>1, <1>2
  <2>2. Link(L, rd, cd, calls[k], in[k], in[k + 1])  BY <1>1 DEF Links
  <2>3. in[k] \in Marks /\ in[k + 1] \in Marks /\ Unmoved(rd, cd, rd2, cd2, in[k])
    BY <1>4, <2>1
  <2>. HIDE DEF Links
  <2>. QED  BY ONLY <2>2, <2>3, LinkKept
<1>. QED  BY <1>1, <1>5 DEF Under

-----------------------------------------------------------------------------
(* The invariant: what is parsed lies between the calls of the stack.  It  *)
(* is given up where the end of the source is taken for a brace: nothing   *)
(* but an error can follow.                                                *)

Marked(L, rd, cd, pv, calls) ==
  \E i \in Marks : Under(L, rd, cd, calls, i) /\ Holds(L, rd, cd, pv, i)
Doomed(cu, calls) ==
  /\ cu = "EOF" /\ calls # <<>>
  /\ \/ calls[1].do = "block"
     \/ calls[1].do = "consume" /\ calls[1].token = "RBRACE"

(* What holds at a mark, kind by kind.                                     *)
LEMMA HoldsIs ==
  ASSUME NEW L, NEW rd, NEW cd, NEW pv, NEW m, NEW n, n = Len(rd) - 1, NEW c, c = Len(cd)
  PROVE  /\ m.kind = "here" => (Holds(L, rd, cd, pv, m) <=> m.tok = n /\ m.pos = c)
         /\ m.kind = "token"
              => (Holds(L, rd, cd, pv, m) <=> m.tok + 1 = n /\ m.pos = c /\ pv = rd[n])
         /\ m.kind \in InfixKinds
              => (Holds(L, rd, cd, pv, m) <=> Operated(L, rd, cd, pv, m, n, c))
         /\ m.kind = "operand"
              => (Holds(L, rd, cd, pv, m) <=> Operand(L, rd, cd, m.tok, n, m.pos, c, m.level))
         /\ m.kind = "value"
              => (Holds(L, rd, cd, pv, m) <=> Value(L, rd, cd, m.tok, n, m.pos, c, m.level))
         /\ m.kind = "void" => (Holds(L, rd, cd, pv, m) <=> Voided(rd, cd, m, n, c))
         /\ m.kind = "stmt"
              => (Holds(L, rd, cd, pv, m) <=> Statement(L, rd, cd, m.tok, n, m.pos, c))
         /\ m.kind = "list"
              => (Holds(L, rd, cd, pv, m) <=> List(L, rd, cd, m.tok, n, m.pos, c))
         /\ m.kind = "init"
              => (Holds(L, rd, cd, pv, m) <=> Initial(L, rd, cd, m.tok, n, m.pos, c))
         /\ m.kind = "cond"
              => (Holds(L, rd, cd, pv, m) <=> Condition(L, rd, cd, m.tok, n, m.pos, c))
         /\ m.kind = "increment"
              => (Holds(L, rd, cd, pv, m) <=> Increment(L, rd, cd, m.tok, n, m.pos, c))
         /\ m.kind = "body"
              => (Holds(L, rd, cd, pv, m) <=> Body(L, rd, cd, m.tok, n, m.pos, c))
         /\ m.kind = "end" => ~ Holds(L, rd, cd, pv, m)
<1>1. Holds(L, rd, cd, pv, m) <=> Parsed(L, rd, cd, pv, m, n, c)  BY DEF Holds
<1>. QED  BY <1>1 DEF Parsed, InfixKinds

(* What links two marks, for the rules of expressions and the simple       *)
(* statements.                                                             *)
LEMMA LinkIs ==
  ASSUME NEW L, NEW rd, NEW cd, NEW e, NEW i, NEW o
  PROVE  /\ e.do = "prec"    => (Linked(L, rd, cd, e, i, o) <=> PrecLink(e, i, o))
         /\ e.do = "infix"   => (Linked(L, rd, cd, e, i, o) <=> InfixLink(e, i, o))
         /\ e.do \in {"name", "literal", "grouping", "unary"}
              => (Linked(L, rd, cd, e, i, o) <=> PrefixLink(rd, e, i, o))
         /\ e.do \in InfixKinds => (Linked(L, rd, cd, e, i, o) <=> OperatorLink(e, i, o))
         /\ e.do = "argument"
              => (Linked(L, rd, cd, e, i, o) <=> ArgumentLink(L, rd, cd, e, i, o))
         /\ e.do = "emit" => (Linked(L, rd, cd, e, i, o) <=> EmitLink(L, rd, cd, e.bytes, i, o))
         /\ e.do = "consume"
              => (Linked(L, rd, cd, e, i, o) <=> ConsumeLink(L, rd, cd, e.token, i, o))
         /\ e.do = "stmt"   => (Linked(L, rd, cd, e, i, o) <=> StmtLink(L, rd, cd, i, o))
         /\ e.do = "return" => (Linked(L, rd, cd, e, i, o) <=> ReturnLink(L, rd, cd, i, o))
         /\ e.do = "scope"  => (Linked(L, rd, cd, e, i, o) <=> ScopeLink(L, rd, cd, i, o))
         /\ e.do = "block"  => (Linked(L, rd, cd, e, i, o) <=> BlockLink(L, rd, cd, i, o))
<1>. QED  BY DEF Linked, InfixKinds

(* What links two marks, for while, if, for and the script.                *)
LEMMA StatementLinkIs ==
  ASSUME NEW L, NEW rd, NEW cd, NEW e, NEW i, NEW o
  PROVE  /\ e.do = "while"
              => (Linked(L, rd, cd, e, i, o)
                    <=> e.start = i.pos /\ ConditionLink(L, rd, cd, "WHILE", i, o))
         /\ e.do = "if"
              => (Linked(L, rd, cd, e, i, o) <=> ConditionLink(L, rd, cd, "IF", i, o))
         /\ e.do = "loop"  => (Linked(L, rd, cd, e, i, o) <=> LoopLink(L, rd, cd, e, i, o))
         /\ e.do = "else"  => (Linked(L, rd, cd, e, i, o) <=> ElseLink(L, rd, cd, e, i, o))
         /\ e.do = "patch" => (Linked(L, rd, cd, e, i, o) <=> PatchLink(L, rd, cd, e, i, o))
         /\ e.do = "for"   => (Linked(L, rd, cd, e, i, o) <=> ForInitLink(L, rd, cd, i, o))
         /\ e.do = "for_condition"
              => (Linked(L, rd, cd, e, i, o) <=> ForConditionLink(L, rd, cd, i, o))
         /\ e.do = "for_exit"
              => (Linked(L, rd, cd, e, i, o) <=> ForExitLink(L, rd, cd, e, i, o))
         /\ e.do = "for_step"
              => (Linked(L, rd, cd, e, i, o) <=> ForStepLink(L, rd, cd, e, i, o))
         /\ e.do = "for_body"
              => (Linked(L, rd, cd, e, i, o) <=> ForBodyLink(L, rd, cd, e, i, o))
         /\ e.do = "for_end"
              => (Linked(L, rd, cd, e, i, o) <=> ForEndLink(L, rd, cd, e, i, o))
         /\ e.do = "script" => (Linked(L, rd, cd, e, i, o) <=> ScriptLink(i, o))
<1>. QED  BY DEF Linked, InfixKinds

(* There is a mark of every kind at every place.                           *)
LEMMA MarkExists ==
  ASSUME NEW kind \in Kinds, NEW tok \in Nat, NEW pos \in Nat, NEW level \in 0 .. 9
  PROVE  \E m \in Marks : m.kind = kind /\ m.tok = tok /\ m.pos = pos /\ m.level = level
<1>. DEFINE m == Mark(kind, tok, pos, level)
<1>1. m \in Marks /\ m.kind = kind /\ m.tok = tok /\ m.pos = pos /\ m.level = level
  BY DEF Mark, Marks
<1>. QED  BY <1>1

(* What holds lies among what was read and emitted.                        *)
LEMMA HoldsBehind ==
  ASSUME NEW a, NEW rd, NEW cd, Context(a, rd, cd), NEW L, NEW pv, NEW m \in Marks,
         Holds(L, rd, cd, pv, m), NEW n, n = Len(rd) - 1, NEW c, c = Len(cd)
  PROVE  /\ n \in Nat /\ c \in Nat /\ n < Len(rd) /\ n + 1 = Len(rd)
         /\ m.tok \in Nat /\ m.pos \in Nat /\ m.level \in 0 .. 9
         /\ m.tok <= n /\ m.tok < Len(rd) /\ m.pos <= c
<1>1. \E S : rd \in Seq(S) /\ rd # <<>>  BY DEF Context, Reads
<1>2. cd \in Seq(Bytes)  BY DEF Context
<1>3. n \in Nat /\ c \in Nat /\ n < Len(rd) /\ Len(rd) = n + 1 /\ Len(rd) \in Nat
  BY <1>1, <1>2
<1>4. m.tok \in Nat /\ m.pos \in Nat /\ m.level \in 0 .. 9 /\ m.kind \in Kinds  BY DEF Marks
<1>5. Parsed(L, rd, cd, pv, m, n, c)  BY DEF Holds
<1>6. \A j, r : Span(rd, cd, m.tok, j, m.pos, r) => m.tok <= j /\ m.pos <= r  BY DEF Span
<1>7. m.tok <= n /\ m.pos <= c
  <2>1. CASE m.kind \in {"here", "token"}  BY <1>3, <1>4, <1>5, <2>1 DEF Parsed, InfixKinds
  <2>2. CASE Operated(L, rd, cd, pv, m, n, c)
    <3>1. PICK k \in Nat : n = k + 1 /\ Operand(L, rd, cd, m.tok, k, m.pos, c, m.level)
      BY <2>2 DEF Operated
    <3>2. m.tok <= k /\ m.pos <= c  BY <1>6, <3>1 DEF Operand
    <3>. QED  BY <1>4, <3>1, <3>2
  <2>3. CASE Operand(L, rd, cd, m.tok, n, m.pos, c, m.level)  BY <1>6, <2>3 DEF Operand
  <2>4. CASE Value(L, rd, cd, m.tok, n, m.pos, c, m.level)  BY <1>6, <2>4 DEF Value, Operand
  <2>5. CASE Voided(rd, cd, m, n, c)  BY <1>6, <2>5 DEF Voided
  <2>6. CASE Statement(L, rd, cd, m.tok, n, m.pos, c)  BY <1>6, <2>6 DEF Statement
  <2>7. CASE List(L, rd, cd, m.tok, n, m.pos, c)  BY <1>6, <2>7 DEF List
  <2>8. CASE Initial(L, rd, cd, m.tok, n, m.pos, c)  BY <1>6, <2>8 DEF Initial
  <2>9. CASE Condition(L, rd, cd, m.tok, n, m.pos, c)  BY <1>6, <2>9 DEF Condition
  <2>10. CASE Increment(L, rd, cd, m.tok, n, m.pos, c)  BY <1>6, <2>10 DEF Increment
  <2>11. CASE Body(L, rd, cd, m.tok, n, m.pos, c)  BY <1>6, <2>11 DEF Body
  <2>. QED
    BY <1>5, <2>1, <2>2, <2>3, <2>4, <2>5, <2>6, <2>7, <2>8, <2>9, <2>10, <2>11 DEF Parsed
<1>8. m.tok < Len(rd)  BY <1>3, <1>4, <1>7
<1>. QED  BY <1>3, <1>4, <1>7, <1>8

-----------------------------------------------------------------------------
(* Calls with their marks are put on the stack. *)

(* One call in place of the top, with the mark above it.                   *)
LEMMA PushOne ==
  ASSUME NEW L, NEW rd, NEW cd, NEW pv, NEW rest, NEW o, Under(L, rd, cd, rest, o),
         NEW e, NEW m \in Marks, Link(L, rd, cd, e, m, o), Holds(L, rd, cd, pv, m)
  PROVE  Marked(L, rd, cd, pv, <<e>> \o rest)
<1>1. Under(L, rd, cd, <<e>> \o rest, m)  BY UnderPush
<1>. QED  BY <1>1 DEF Marked

(* Two calls put before others one by one.                                 *)
LEMMA RegroupedTwo ==
  ASSUME NEW S, NEW rest \in Seq(S), NEW d, NEW e
  PROVE  <<d>> \o (<<e>> \o rest) = <<d, e>> \o rest
<1>. DEFINE R == S \cup {d, e}
<1>1. rest \in Seq(R) /\ <<d>> \in Seq(R) /\ <<e>> \in Seq(R)  OBVIOUS
<1>. HIDE DEF R
<1>2. <<d>> \o (<<e>> \o rest) = (<<d>> \o <<e>>) \o rest  BY <1>1
<1>. QED  BY <1>2, Pairs

(* A call and two, or three at once.                                       *)
LEMMA RegroupedThree ==
  ASSUME NEW S, NEW rest \in Seq(S), NEW d, NEW u, NEW e, NEW f, u = <<e, f>>
  PROVE  <<d>> \o (u \o rest) = (<<d>> \o u) \o rest
<1>. DEFINE R == S \cup {d, e, f}
<1>1. rest \in Seq(R) /\ <<d>> \in Seq(R) /\ u \in Seq(R)  OBVIOUS
<1>. HIDE DEF R
<1>. QED  BY <1>1

(* Two calls on a marked stack.                                            *)
LEMMA GroupedTwo ==
  ASSUME NEW L, NEW rd, NEW cd, NEW rest, NEW o, Under(L, rd, cd, rest, o), NEW d, NEW e
  PROVE  <<d>> \o (<<e>> \o rest) = <<d, e>> \o rest
<1>1. PICK S : rest \in Seq(S)  BY DEF Under
<1>. QED  BY ONLY <1>1, RegroupedTwo

Triad(d, e, f) == <<d, e, f>>
(* Three calls on a marked stack.                                          *)
LEMMA GroupedThree ==
  ASSUME NEW L, NEW rd, NEW cd, NEW rest, NEW o, Under(L, rd, cd, rest, o),
         NEW d, NEW e, NEW f
  PROVE  <<d>> \o (<<e>> \o (<<f>> \o rest)) = Triad(d, e, f) \o rest
<1>1. PICK S : rest \in Seq(S)  BY DEF Under
<1>. DEFINE u == <<e, f>>
<1>2. <<e>> \o (<<f>> \o rest) = u \o rest  BY ONLY <1>1, RegroupedTwo
<1>3. <<d>> \o u = Triad(d, e, f)  BY Pairs DEF Triad
<1>4. u = <<e, f>>  OBVIOUS
<1>. HIDE DEF u
<1>5. <<d>> \o (u \o rest) = (<<d>> \o u) \o rest  BY ONLY <1>1, <1>4, RegroupedThree
<1>. QED  BY ONLY <1>2, <1>3, <1>5, Zenon

(* Two calls in place of the top.                                          *)
LEMMA PushTwo ==
  ASSUME NEW L, NEW rd, NEW cd, NEW pv, NEW rest, NEW o, Under(L, rd, cd, rest, o),
         NEW d, NEW e, NEW i \in Marks, Link(L, rd, cd, e, i, o),
         NEW m \in Marks, Link(L, rd, cd, d, m, i), Holds(L, rd, cd, pv, m)
  PROVE  Marked(L, rd, cd, pv, <<d, e>> \o rest)
<1>1. Under(L, rd, cd, <<e>> \o rest, i)  BY UnderPush
<1>2. Marked(L, rd, cd, pv, <<d>> \o (<<e>> \o rest))  BY <1>1, PushOne
<1>3. <<d>> \o (<<e>> \o rest) = <<d, e>> \o rest  BY GroupedTwo
<1>. QED  BY <1>2, <1>3

(* Three calls in place of the top.                                        *)
LEMMA PushThree ==
  ASSUME NEW L, NEW rd, NEW cd, NEW pv, NEW rest, NEW o, Under(L, rd, cd, rest, o),
         NEW d, NEW e, NEW f, NEW j \in Marks, Link(L, rd, cd, f, j, o),
         NEW i \in Marks, Link(L, rd, cd, e, i, j),
         NEW m \in Marks, Link(L, rd, cd, d, m, i), Holds(L, rd, cd, pv, m)
  PROVE  Marked(L, rd, cd, pv, <<d, e, f>> \o rest)
<1>1. Under(L, rd, cd, <<f>> \o rest, j)  BY UnderPush
<1>2. Under(L, rd, cd, <<e>> \o (<<f>> \o rest), i)  BY <1>1, UnderPush
<1>3. Marked(L, rd, cd, pv, <<d>> \o (<<e>> \o (<<f>> \o rest)))  BY <1>2, PushOne
<1>4. <<d>> \o (<<e>> \o (<<f>> \o rest)) = Triad(d, e, f) \o rest
  <2>1. Under(L, rd, cd, rest, o)  OBVIOUS
  <2>2. \A x, y, z : <<x>> \o (<<y>> \o (<<z>> \o rest)) = Triad(x, y, z) \o rest
    BY ONLY <2>1, GroupedThree
  <2>. QED  BY ONLY <2>2, Zenon
<1>5. Marked(L, rd, cd, pv, Triad(d, e, f) \o rest)  BY <1>3, <1>4
<1>. QED  BY <1>5 DEF Triad

(* There is a mark at the place the parser has come to.                    *)
LEMMA HereExists ==
  ASSUME NEW a, NEW rd, NEW cd, Context(a, rd, cd)
  PROVE  \E m \in Marks : /\ m.kind = "here" /\ m.tok = Len(rd) - 1 /\ m.pos = Len(cd)
                          /\ \A L, pv : Holds(L, rd, cd, pv, m)
<1>. DEFINE n == Len(rd) - 1
            c == Len(cd)
<1>1. \E S : rd \in Seq(S) /\ rd # <<>>  BY DEF Context, Reads
<1>2. cd \in Seq(Bytes)  BY DEF Context
<1>3. n \in Nat /\ c \in Nat  BY <1>1, <1>2
<1>. DEFINE m == Mark("here", n, c, 0)
<1>. HIDE DEF n, c
<1>4. m \in Marks /\ m.kind = "here" /\ m.tok = n /\ m.pos = c
  BY <1>3 DEF Mark, Marks, Kinds
<1>. HIDE DEF m
<1>5. \A L, pv : Holds(L, rd, cd, pv, m)
  BY <1>4 DEF Holds, Parsed, n, c
<1>. QED  BY <1>4, <1>5 DEF n, c

(* An expression or a statement, and what is done behind it.               *)
LEMMA PushPrec ==
  ASSUME NEW a, NEW rd, NEW cd, Context(a, rd, cd), NEW L, NEW pv, NEW rest, NEW o,
         Under(L, rd, cd, rest, o), NEW level \in 1 .. 9, NEW e,
         NEW V \in Marks, V.kind = "value", V.level = level, V.tok = Len(rd) - 1,
         V.pos = Len(cd), Link(L, rd, cd, e, V, o)
  PROVE  /\ Marked(L, rd, cd, pv, <<Prec(level), e>> \o rest)
         /\ \E m \in Marks : Link(L, rd, cd, Prec(level), m, V) /\ Holds(L, rd, cd, pv, m)
<1>1. V.tok \in Nat /\ V.pos \in Nat  BY DEF Marks
<1>2. PICK m \in Marks : /\ m.kind = "here" /\ m.tok = Len(rd) - 1 /\ m.pos = Len(cd)
                         /\ \A K, x : Holds(K, rd, cd, x, m)
  BY HereExists, Zenon
<1>3. m.kind = "here" /\ m.tok = V.tok /\ m.pos = V.pos  BY <1>2
<1>4. Holds(L, rd, cd, pv, m)  BY <1>2
<1>5. Link(L, rd, cd, Prec(level), m, V)
  <2>1. Prec(level).do = "prec" /\ Prec(level).level = level  BY DEF Prec
  <2>2. PrecLink(Prec(level), m, V)  BY <1>3, <2>1 DEF PrecLink, SameStart
  <2>3. Linked(L, rd, cd, Prec(level), m, V)  BY <2>1, <2>2, LinkIs
  <2>4. V.tok <= m.tok /\ V.pos <= m.pos  BY <1>1, <1>3
  <2>. QED  BY <2>3, <2>4 DEF Link
<1>6. Marked(L, rd, cd, pv, <<Prec(level), e>> \o rest)
  <2>. DEFINE d == Prec(level)
  <2>1. Link(L, rd, cd, d, m, V)  BY <1>5
  <2>. HIDE DEF d
  <2>2. Marked(L, rd, cd, pv, <<d, e>> \o rest)  BY <1>4, <2>1, PushTwo
  <2>. QED  BY <2>2 DEF d
<1>. QED  BY <1>4, <1>5, <1>6

(* A statement to be parsed here, below it what it belongs to.             *)
LEMMA PushStmt ==
  ASSUME NEW a, NEW rd, NEW cd, Context(a, rd, cd), NEW L, NEW pv, NEW rest, NEW o,
         Under(L, rd, cd, rest, o), NEW e,
         NEW V \in Marks, V.kind = "stmt", V.tok = Len(rd) - 1, V.pos = Len(cd),
         Link(L, rd, cd, e, V, o)
  PROVE  /\ Marked(L, rd, cd, pv, <<Do("stmt"), e>> \o rest)
         /\ \E m \in Marks : Link(L, rd, cd, Do("stmt"), m, V) /\ Holds(L, rd, cd, pv, m)
<1>1. V.tok \in Nat /\ V.pos \in Nat  BY DEF Marks
<1>2. PICK m \in Marks : /\ m.kind = "here" /\ m.tok = Len(rd) - 1 /\ m.pos = Len(cd)
                         /\ \A K, x : Holds(K, rd, cd, x, m)
  BY HereExists, Zenon
<1>3. m.kind = "here" /\ m.tok = V.tok /\ m.pos = V.pos  BY <1>2
<1>4. Holds(L, rd, cd, pv, m)  BY <1>2
<1>. DEFINE d == Do("stmt")
<1>5. Link(L, rd, cd, d, m, V)
  <2>1. d.do = "stmt"  BY DEF Do
  <2>2. StmtLink(L, rd, cd, m, V)  BY <1>3 DEF StmtLink, Wanted
  <2>3. Linked(L, rd, cd, d, m, V)  BY <2>1, <2>2, LinkIs
  <2>4. V.tok <= m.tok /\ V.pos <= m.pos  BY <1>1, <1>3
  <2>. QED  BY <2>3, <2>4 DEF Link
<1>. HIDE DEF d
<1>6. Marked(L, rd, cd, pv, <<d, e>> \o rest)  BY <1>4, <1>5, PushTwo
<1>. QED  BY <1>4, <1>5, <1>6 DEF d

(* The top is done, and what holds is the mark below it.                   *)
LEMMA PushNothing ==
  ASSUME NEW L, NEW rd, NEW cd, NEW pv, NEW rest, NEW o \in Marks, Under(L, rd, cd, rest, o),
         Holds(L, rd, cd, pv, o)
  PROVE  Marked(L, rd, cd, pv, <<>> \o rest)
<1>1. PICK S : rest \in Seq(S)  BY DEF Under
<1>2. <<>> \o rest = rest  BY <1>1, Regrouped
<1>. QED  BY <1>2 DEF Marked

(* A statement that was wanted was found. *)
LEMMA WantedFound ==
  ASSUME NEW a, NEW rd, NEW cd, Context(a, rd, cd), NEW pv, NEW o, NEW p, NEW q,
         NEW n, n = Len(rd) - 1, NEW c, c = Len(cd),
         Wanted(Language[a], rd, cd, o, p, q), Statement(Language[a], rd, cd, p, n, q, c)
  PROVE  Holds(Language[a], rd, cd, pv, o)
<1>1. CASE o.kind = "stmt" /\ o.tok = p /\ o.pos = q
  BY <1>1, HoldsIs
<1>2. CASE o.kind = "list" /\ List(Language[a], rd, cd, o.tok, p, o.pos, q)
  <2>1. List(Language[a], rd, cd, o.tok, n, o.pos, c)  BY <1>2, NextOfList
  <2>. QED  BY <1>2, <2>1, HoldsIs
<1>. QED  BY <1>1, <1>2 DEF Wanted

=============================================================================
