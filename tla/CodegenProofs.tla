---------------------------- MODULE CodegenProofs ----------------------------
(***************************************************************************)
(* Proofs about the compiler's code.  First the encoding of operands and   *)
(* jumps, for every size of a byte: what parser.c and chunk.c emit is what *)
(* vm_execute reads.                                                       *)
(*                                                                         *)
(* Then that code composed by the constructs of Codegen has maps, which    *)
(* VmProofs assumes, whatever it is composed of.  A construct's lemma says *)
(* what it does to the number of cells, if its parts do to it what         *)
(* they should: an expression adds one, a statement leaves as many.  A map *)
(* of the whole is made of the maps of its parts, joined where they meet   *)
(* and closed by the jumps between them; so where code stands does not     *)
(* matter, but that a jump goes to a place of the map is to be shown for   *)
(* each jump.                                                              *)
(***************************************************************************)
EXTENDS Codegen, VmProofs

-----------------------------------------------------------------------------
(* The encoding. *)

(* Quotient and remainder give the number back.                            *)
LEMMA DivMod ==
  ASSUME NEW n \in Nat, NEW b \in Nat \ {0}
  PROVE  /\ n = b * (n \div b) + (n % b)
         /\ n \div b \in Nat /\ n % b \in 0 .. b - 1
OBVIOUS

(* A number below b * c has a quotient below c.                            *)
LEMMA QuotientBelow ==
  ASSUME NEW n \in Nat, NEW b \in Nat \ {0}, NEW c \in Nat, n < b * c
  PROVE  n \div b < c
<1>. DEFINE q == n \div b
<1>1. n = b * q + (n % b) /\ q \in Nat /\ n % b \in 0 .. b - 1  BY DivMod
<1>. HIDE DEF q
<1>2. SUFFICES ASSUME q >= c  PROVE FALSE  BY <1>1 DEF q
<1>3. PICK k \in Nat : q = c + k
  <2>1. q - c \in Nat /\ q = c + (q - c)  BY <1>1, <1>2
  <2>. QED  BY <2>1
<1>4. b * q = b * c + b * k  BY <1>3
<1>5. b * k \in Nat /\ b * c \in Nat  BY <1>3
<1>. QED  BY <1>1, <1>4, <1>5

(* A number below the divisor is its own remainder.                        *)
LEMMA SmallRemainder ==
  ASSUME NEW n \in Nat, NEW b \in Nat \ {0}, n < b
  PROVE  n % b = n
OBVIOUS

(* Quotient and remainder are the only ones.                               *)
LEMMA DivUnique ==
  ASSUME NEW n \in Nat, NEW b \in Nat \ {0}, NEW q \in Nat, NEW r \in 0 .. b - 1,
         n = b * q + r
  PROVE  n \div b = q /\ n % b = r
<1>. DEFINE p == n \div b
            m == n % b
<1>1. n = b * p + m /\ p \in Nat /\ m \in 0 .. b - 1  BY DivMod
<1>. HIDE DEF p, m
<1>2. ASSUME NEW x \in Nat, NEW y \in Nat, NEW u \in 0 .. b - 1,
             NEW v \in 0 .. b - 1, b * x + u = b * y + v, x < y
      PROVE  FALSE
  <2>1. PICK k \in Nat : y = x + 1 + k
    <3>1. y - x - 1 \in Nat /\ y = x + 1 + (y - x - 1)  BY <1>2
    <3>. QED  BY <3>1
  <2>2. b * y = b * x + b + b * k  BY <2>1
  <2>3. b * k \in Nat /\ b * x \in Nat  BY <2>1
  <2>. QED  BY <1>2, <2>2, <2>3
<1>3. p = q  BY <1>1, <1>2
<1>4. b * q \in Nat  OBVIOUS
<1>. QED  BY <1>1, <1>3, <1>4 DEF p, m

(* The 16 bits of a jump offset and the 24 bits of a wide operand, split   *)
(* into bytes and put together again.                                      *)
LEMMA ShortSplit ==
  ASSUME NEW n \in 0 .. MaxShort
  PROVE  Byte * ((n \div Byte) % Byte) + (n % Byte) = n
<1>1. Byte \in Nat \ {0} /\ Byte * Byte \in Nat
  BY BytecodeAssumption DEF OpNames
<1>2. n \in Nat /\ n < Byte * Byte  BY <1>1 DEF MaxShort
<1>3. n \div Byte \in Nat /\ n = Byte * (n \div Byte) + (n % Byte)
  BY <1>1, <1>2, DivMod
<1>4. n \div Byte < Byte  BY <1>1, <1>2, QuotientBelow
<1>5. (n \div Byte) % Byte = n \div Byte  BY <1>1, <1>3, <1>4, SmallRemainder
<1>. QED  BY <1>3, <1>5

(* The 24 bits of a wide operand, split into bytes and put together again. *)
LEMMA U24Split ==
  ASSUME NEW n \in Nat, n < Byte * Byte * Byte
  PROVE  (n % Byte) + Byte * ((n \div Byte) % Byte)
           + Byte * Byte * ((n \div (Byte * Byte)) % Byte) = n
<1>. DEFINE q == n \div Byte
            r == n % Byte
            p == q \div Byte
            m == q % Byte
<1>1. Byte \in Nat \ {0} /\ Byte * Byte \in Nat \ {0}
  BY BytecodeAssumption DEF OpNames
<1>2. n = Byte * q + r /\ q \in Nat /\ r \in 0 .. Byte - 1
  BY <1>1, DivMod
<1>3. q = Byte * p + m /\ p \in Nat /\ m \in 0 .. Byte - 1
  BY <1>1, <1>2, DivMod
<1>. HIDE DEF q, r, p, m
<1>4. n = Byte * Byte * p + (Byte * m + r)
  <2>1. Byte * q = Byte * (Byte * p) + Byte * m  BY <1>1, <1>3
  <2>2. Byte * (Byte * p) = Byte * Byte * p  BY <1>1, <1>3
  <2>. QED  BY <1>1, <1>2, <1>3, <2>1, <2>2
<1>5. Byte * m + r \in 0 .. Byte * Byte - 1
  <2>1. PICK k \in Nat : Byte - 1 = m + k
    <3>1. Byte - 1 - m \in Nat /\ Byte - 1 = m + (Byte - 1 - m)
      BY <1>1, <1>3
    <3>. QED  BY <3>1
  <2>2. Byte * (Byte - 1) = Byte * m + Byte * k  BY <1>1, <1>3, <2>1
  <2>3. Byte * (Byte - 1) = Byte * Byte - Byte  BY <1>1
  <2>4. Byte * k \in Nat /\ Byte * m \in Nat  BY <1>1, <1>3, <2>1
  <2>. QED  BY <1>1, <1>2, <2>2, <2>3, <2>4
<1>6. n \div (Byte * Byte) = p
  BY <1>1, <1>3, <1>4, <1>5, DivUnique
<1>7. p < Byte
  BY <1>1, <1>6, QuotientBelow
<1>8. p % Byte = p  BY <1>1, <1>3, <1>7, SmallRemainder
<1>9. /\ n % Byte = r /\ (n \div Byte) % Byte = m
      /\ (n \div (Byte * Byte)) % Byte = p
  BY <1>6, <1>8 DEF q, r, m
<1>10. Byte * m \in Nat /\ Byte * Byte * p \in Nat
  BY <1>1, <1>3
<1>11. r + Byte * m + Byte * Byte * p = n
  BY <1>2, <1>4, <1>10
<1>. QED  BY <1>9, <1>11

-----------------------------------------------------------------------------
(* What is emitted is what is read. *)

(* patch_jump sets the distance with which JMP and JMPF, once they have    *)
(* read it, continue behind the code that was emitted after emit_jump --   *)
(* for every jump that passes its check (chunk.c:233-251, vm.c:202-219).   *)
THEOREM PatchedJumpLands ==
  ASSUME NEW code \in Seq(0 .. MaxByte), NEW offset \in 0 .. Len(code) - 2,
         PatchedDistance(code, offset) <= MaxShort
  PROVE  offset + 2 + ShortAt(Patched(code, offset), offset) = Len(code)
<1>. DEFINE d == PatchedDistance(code, offset)
            high == (d \div Byte) % Byte
            low == d % Byte
            patched == Patched(code, offset)
<1>1. d \in 0 .. MaxShort /\ d = Len(code) - offset - 2
  BY BytecodeAssumption DEF PatchedDistance, MaxShort
<1>2. patched = [code EXCEPT ![offset + 1] = high, ![offset + 2] = low]
  BY DEF Patched
<1>. HIDE DEF d, high, low, patched
<1>3. offset + 1 \in DOMAIN code /\ offset + 2 \in DOMAIN code
      /\ offset + 1 # offset + 2 /\ offset + 1 + 1 = offset + 2
  OBVIOUS
<1>4. patched[offset + 1] = high /\ patched[offset + 1 + 1] = low
  BY <1>2, <1>3
<1>5. ShortAt(patched, offset) = Byte * high + low
  BY <1>4 DEF ShortAt, ByteAt
<1>6. Byte * high + low = d  BY <1>1, ShortSplit DEF high, low
<1>. QED  BY <1>1, <1>5, <1>6 DEF patched

(* emit_njump: NJMP, once it has read its distance, continues at the first *)
(* byte of the loop (parser.c:535-546, vm.c:220-226).                      *)
THEOREM BackwardJumpLands ==
  ASSUME NEW loop \in Seq(0 .. MaxByte), Len(loop) + 3 <= MaxShort
  PROVE  Len(loop) + 3 - ShortAt(loop \o BackwardJump(loop), Len(loop) + 1) = 0
<1>. DEFINE d == Len(loop) + 3
            jump == BackwardJump(loop)
<1>1. d \in 0 .. MaxShort  BY BytecodeAssumption DEF MaxShort
<1>2. jump = <<Opcode("NJMP"), (d \div Byte) % Byte, d % Byte>>
  BY DEF BackwardJump
<1>3. Len(loop) \in Nat
  OBVIOUS
<1>4. /\ (loop \o jump)[Len(loop) + 1 + 1] = jump[2]
      /\ (loop \o jump)[Len(loop) + 1 + 1 + 1] = jump[3]
  BY <1>2, <1>3
<1>5. ShortAt(loop \o jump, Len(loop) + 1)
        = Byte * ((d \div Byte) % Byte) + (d % Byte)
  BY <1>2, <1>4 DEF ShortAt, ByteAt
<1>. QED  BY <1>1, <1>3, <1>5, ShortSplit

(* An operand that fits three bytes is read back as it was written, with   *)
(* or without WIDE (parser.c:231-242, vm.c:33-50).                         *)
THEOREM OperandReadBack ==
  ASSUME NEW op, NEW n \in Nat, n < Byte * Byte * Byte
  PROVE  LET code == OperandCode(op, n)
         IN  IF n <= MaxByte THEN ByteAt(code, 1) = n ELSE U24At(code, 2) = n
<1>1. CASE n <= MaxByte
  BY <1>1 DEF OperandCode, ByteAt
<1>2. CASE ~(n <= MaxByte)
  <2>. DEFINE head == <<Opcode("WIDE"), Opcode(op)>>
              code == head \o U24Bytes(n)
  <2>1. OperandCode(op, n) = code  BY <1>2 DEF OperandCode
  <2>2. /\ code[3] = n % Byte /\ code[4] = (n \div Byte) % Byte
        /\ code[5] = (n \div (Byte * Byte)) % Byte
    BY DEF U24Bytes
  <2>3. U24At(code, 2)
          = (n % Byte) + Byte * ((n \div Byte) % Byte)
              + Byte * Byte * ((n \div (Byte * Byte)) % Byte)
    <3>. HIDE DEF code
    <3>1. 2 + 1 = 3 /\ 2 + 1 + 1 = 4 /\ 2 + 2 + 1 = 5  OBVIOUS
    <3>2. U24At(code, 2) = code[3] + Byte * code[4] + Byte * Byte * code[5]
      BY <3>1 DEF U24At, ByteAt
    <3>. QED  BY <2>2, <3>2
  <2>. QED  BY <1>2, <2>1, <2>3, U24Split
<1>. QED  BY <1>1, <1>2

-----------------------------------------------------------------------------
(* Maps of pieces of code.  An offset that is never reached has no place in *)
(* the map; this is counted as zero cells.                                 *)

At(h, ip, n) == IF n = 0 THEN <<ip, FALSE>> \notin DOMAIN h ELSE GoesTo(h, ip, n)

(* An instruction at p that keeps to the map h, and is one of A.           *)
Sound(fs, f, A, h, p) ==
  /\ p[1] + 1 <= Len(fs[f].code) /\ NextAt(fs[f].code, p) <= Len(fs[f].code)
  /\ OpAt(fs[f].code, p[1]) \in A
  /\ Flows(fs, f, h, p)

(* A map of the code from lo to hi, where the instructions at X, which are *)
(* not prefixed, are still to come.                                        *)
Piece(fs, f, A, h, lo, hi, X) ==
  /\ lo \in Nat /\ hi \in Nat /\ lo <= hi /\ X \subseteq lo .. hi
  /\ h \in [DOMAIN h -> Nat \ {0}]
  /\ DOMAIN h \subseteq (lo .. hi) \X BOOLEAN
  /\ \A p \in DOMAIN h : IF p[1] \in X THEN p[2] = FALSE ELSE Sound(fs, f, A, h, p)

Contains(code, o, c) ==
  /\ o \in Nat /\ Len(code) \in Nat /\ o + Len(c) <= Len(code)
  /\ \A k \in 1 .. Len(c) : code[o + k] = c[k]

(* A map of the code from lo to hi: of n cells at lo, of m at hi.          *)
Leads(fs, f, A, h, lo, hi, n, m) ==
  Piece(fs, f, A, h, lo, hi, {hi}) /\ At(h, lo, n) /\ At(h, hi, m)

(* Wherever the code c stands in a function of a program with the script's *)
(* constants K: if there are n cells when it begins, there are m when it   *)
(* ends; and it consists of the instructions A.                            *)
Phrase(K, A, c, n, m) ==
  /\ c \in Seq(0 .. MaxByte)
  /\ \A fs, f, o :
       fs[Script].constants = K /\ Contains(fs[f].code, o, c) =>
         \E h : Leads(fs, f, A, h, o, o + Len(c), n, m)

Extends(g, h) == \A p \in DOMAIN h : p \in DOMAIN g /\ g[p] = h[p]

Joined(h, g) ==
  [p \in DOMAIN h \cup DOMAIN g |-> IF p \in DOMAIN h THEN h[p] ELSE g[p]]

(* A larger map says all that a smaller one says.                          *)
LEMMA SoundInLarger ==
  ASSUME NEW fs, NEW f, NEW A, NEW h, NEW g, NEW p \in DOMAIN h,
         Extends(g, h), Sound(fs, f, A, h, p)
  PROVE  Sound(fs, f, A, g, p)
<1>1. \A ip, n : GoesTo(h, ip, n) => GoesTo(g, ip, n)
  BY Zenon DEF GoesTo, Extends
<1>2. g[p] = h[p] /\ \A q : q \in DOMAIN h => q \in DOMAIN g /\ g[q] = h[q]
  BY DEF Extends
<1>3. Flows(fs, f, g, p)
  BY <1>1, <1>2, SMT DEF Sound, Flows
<1>. QED  BY <1>3 DEF Sound

(* The maps of two stretches of code, the second behind the first.         *)
LEMMA Glued ==
  ASSUME NEW fs, NEW f, NEW A, NEW h, NEW g, NEW X, NEW Y,
         NEW lo, NEW a, NEW b, NEW hi,
         Piece(fs, f, A, h, lo, a, X), Piece(fs, f, A, g, b, hi, Y), a < b
  PROVE  /\ Piece(fs, f, A, Joined(h, g), lo, hi, X \cup Y)
         /\ Extends(Joined(h, g), h) /\ Extends(Joined(h, g), g)
<1>. DEFINE j == Joined(h, g)
<1>0. /\ lo \in Nat /\ a \in Nat /\ b \in Nat /\ hi \in Nat
      /\ lo <= a /\ b <= hi /\ X \subseteq lo .. a /\ Y \subseteq b .. hi
  BY DEF Piece
<1>1. /\ DOMAIN h \subseteq (lo .. a) \X BOOLEAN /\ DOMAIN g \subseteq (b .. hi) \X BOOLEAN
      /\ h \in [DOMAIN h -> Nat \ {0}] /\ g \in [DOMAIN g -> Nat \ {0}]
  BY DEF Piece
<1>2. \A p \in DOMAIN h : p[1] \in lo .. a
  BY <1>1
<1>3. \A p \in DOMAIN g : p[1] \in b .. hi
  BY <1>1
<1>4. \A p \in DOMAIN h : p \notin DOMAIN g
  BY <1>0, <1>2, <1>3
<1>5. DOMAIN j = DOMAIN h \cup DOMAIN g  BY DEF Joined
<1>6. Extends(j, h) /\ Extends(j, g)
  BY <1>4 DEF Joined, Extends
<1>7. j \in [DOMAIN j -> Nat \ {0}]
  BY <1>1 DEF Joined
<1>8. DOMAIN j \subseteq (lo .. hi) \X BOOLEAN
  <2>1. (lo .. a) \X BOOLEAN \subseteq (lo .. hi) \X BOOLEAN
        /\ (b .. hi) \X BOOLEAN \subseteq (lo .. hi) \X BOOLEAN
    BY <1>0
  <2>. QED  BY <1>1, <1>5, <2>1
<1>. HIDE DEF j
<1>9. ASSUME NEW p \in DOMAIN j
      PROVE  IF p[1] \in X \cup Y THEN p[2] = FALSE ELSE Sound(fs, f, A, j, p)
  <2>1. CASE p \in DOMAIN h
    <3>1. p[1] \in Y => FALSE  BY <1>0, <1>2, <2>1
    <3>2. IF p[1] \in X THEN p[2] = FALSE ELSE Sound(fs, f, A, h, p)
      BY <2>1 DEF Piece
    <3>. QED  BY <1>6, <2>1, <3>1, <3>2, SoundInLarger
  <2>2. CASE p \in DOMAIN g
    <3>1. p[1] \in X => FALSE  BY <1>0, <1>3, <2>2
    <3>2. IF p[1] \in Y THEN p[2] = FALSE ELSE Sound(fs, f, A, g, p)
      BY <2>2 DEF Piece
    <3>. QED  BY <1>6, <2>2, <3>1, <3>2, SoundInLarger
  <2>. QED  BY <1>5, <2>1, <2>2
<1>10. lo <= hi /\ X \cup Y \subseteq lo .. hi  BY <1>0
<1>. QED  BY <1>0, <1>5, <1>6, <1>7, <1>8, <1>9, <1>10 DEF Piece, j

(* What is to come at x is there.                                          *)
LEMMA Closed ==
  ASSUME NEW fs, NEW f, NEW A, NEW h, NEW X, NEW lo, NEW hi, NEW x,
         Piece(fs, f, A, h, lo, hi, X),
         <<x, FALSE>> \in DOMAIN h => Sound(fs, f, A, h, <<x, FALSE>>)
  PROVE  Piece(fs, f, A, h, lo, hi, X \ {x})
<1>. DEFINE Y == X \ {x}
<1>1. ASSUME NEW p \in DOMAIN h
      PROVE  IF p[1] \in Y THEN p[2] = FALSE ELSE Sound(fs, f, A, h, p)
  <2>1. IF p[1] \in X THEN p[2] = FALSE ELSE Sound(fs, f, A, h, p)
    BY DEF Piece
  <2>2. CASE p[1] = x /\ x \in X
    <3>1. p \in (lo .. hi) \X BOOLEAN  BY DEF Piece
    <3>2. p = <<p[1], p[2]>>  BY <3>1
    <3>3. p = <<x, FALSE>>  BY <2>1, <2>2, <3>2
    <3>. QED  BY <2>2, <3>3
  <2>. QED  BY <2>1, <2>2
<1>2. Y \subseteq X  OBVIOUS
<1>. QED  BY <1>1, <1>2 DEF Piece

(* One code behind the other.                                              *)
LEMMA Chained ==
  ASSUME NEW fs, NEW f, NEW A, NEW h, NEW g,
         NEW lo, NEW mid, NEW hi, NEW n, NEW k, NEW m,
         Leads(fs, f, A, h, lo, mid, n, k), Leads(fs, f, A, g, mid, hi, k, m)
  PROVE  \E j : Leads(fs, f, A, j, lo, hi, n, m)
<1>. DEFINE j == Joined(h, g)
<1>0. /\ Piece(fs, f, A, h, lo, mid, {mid}) /\ At(h, lo, n) /\ At(h, mid, k)
      /\ Piece(fs, f, A, g, mid, hi, {hi}) /\ At(g, mid, k) /\ At(g, hi, m)
  BY DEF Leads
<1>. lo \in Nat /\ mid \in Nat /\ hi \in Nat /\ lo <= mid /\ mid <= hi
  BY <1>0 DEF Piece
<1>1. /\ DOMAIN h \subseteq (lo .. mid) \X BOOLEAN
      /\ DOMAIN g \subseteq (mid .. hi) \X BOOLEAN
      /\ h \in [DOMAIN h -> Nat \ {0}] /\ g \in [DOMAIN g -> Nat \ {0}]
  BY <1>0 DEF Piece
<1>2. \A p \in DOMAIN h : p[1] \in lo .. mid /\ p = <<p[1], p[2]>>
  BY <1>1
<1>3. \A p \in DOMAIN g : p[1] \in mid .. hi /\ p = <<p[1], p[2]>>
  BY <1>1
<1>4. \A p \in DOMAIN h : p[1] = mid => p = <<mid, FALSE>>
  BY <1>0, <1>2 DEF Piece
<1>5. \A p \in DOMAIN h : p \in DOMAIN g => p = <<mid, FALSE>> /\ h[p] = g[p] /\ k # 0
  <2>. SUFFICES ASSUME NEW p \in DOMAIN h, p \in DOMAIN g
                PROVE  p = <<mid, FALSE>> /\ h[p] = g[p] /\ k # 0
    OBVIOUS
  <2>1. p[1] = mid  BY <1>2, <1>3
  <2>2. p = <<mid, FALSE>>  BY <1>4, <2>1
  <2>. QED  BY <1>0, <2>2 DEF At, GoesTo
<1>6. DOMAIN j = DOMAIN h \cup DOMAIN g  BY DEF Joined
<1>7. Extends(j, h) /\ Extends(j, g)
  BY <1>5 DEF Joined, Extends
<1>8. j \in [DOMAIN j -> Nat \ {0}]
  BY <1>1 DEF Joined
<1>9. DOMAIN j \subseteq (lo .. hi) \X BOOLEAN
  <2>1. (lo .. mid) \X BOOLEAN \subseteq (lo .. hi) \X BOOLEAN
        /\ (mid .. hi) \X BOOLEAN \subseteq (lo .. hi) \X BOOLEAN
    OBVIOUS
  <2>. QED  BY <1>1, <1>6, <2>1
<1>. HIDE DEF j
<1>10. ASSUME NEW p \in DOMAIN j
       PROVE  IF p[1] \in {hi} THEN p[2] = FALSE ELSE Sound(fs, f, A, j, p)
  <2>1. CASE p \in DOMAIN g
    <3>1. IF p[1] \in {hi} THEN p[2] = FALSE ELSE Sound(fs, f, A, g, p)
      BY <1>0, <2>1 DEF Piece
    <3>. QED  BY <1>7, <2>1, <3>1, SoundInLarger
  <2>2. CASE p \in DOMAIN h /\ p \notin DOMAIN g
    <3>1. IF p[1] \in {mid} THEN p[2] = FALSE ELSE Sound(fs, f, A, h, p)
      BY <1>0, <2>2 DEF Piece
    <3>2. p[1] # mid
      <4>. SUFFICES ASSUME p[1] = mid PROVE FALSE
        OBVIOUS
      <4>1. p = <<mid, FALSE>>  BY <1>4, <2>2
      <4>2. k # 0  BY <1>0, <2>2, <4>1 DEF At
      <4>. QED  BY <1>0, <2>2, <4>1, <4>2 DEF At, GoesTo
    <3>3. p[1] # hi  BY <1>2, <2>2, <3>2
    <3>. QED  BY <1>7, <2>2, <3>1, <3>2, <3>3, SoundInLarger
  <2>. QED  BY <1>6, <2>1, <2>2
<1>11. At(j, lo, n)
  <2>1. CASE n = 0
    <3>1. <<lo, FALSE>> \notin DOMAIN h  BY <1>0, <2>1 DEF At
    <3>2. ASSUME <<lo, FALSE>> \in DOMAIN g  PROVE FALSE
      <4>1. lo = mid  BY <1>3, <3>2
      <4>2. k = 0  BY <1>0, <3>1, <4>1 DEF At, GoesTo
      <4>. QED  BY <1>0, <3>2, <4>1, <4>2 DEF At
    <3>. QED  BY <1>6, <2>1, <3>1, <3>2 DEF At
  <2>2. CASE n # 0  BY <1>0, <1>7, <2>2 DEF At, GoesTo, Extends
  <2>. QED  BY <2>1, <2>2
<1>12. At(j, hi, m)
  <2>1. CASE m = 0
    <3>1. <<hi, FALSE>> \notin DOMAIN g  BY <1>0, <2>1 DEF At
    <3>2. ASSUME <<hi, FALSE>> \in DOMAIN h  PROVE FALSE
      <4>1. hi = mid  BY <1>2, <3>2
      <4>2. k # 0  BY <1>0, <3>2, <4>1 DEF At
      <4>. QED  BY <1>0, <3>1, <4>1, <4>2 DEF At, GoesTo
    <3>. QED  BY <1>6, <2>1, <3>1, <3>2 DEF At
  <2>2. CASE m # 0  BY <1>0, <1>7, <2>2 DEF At, GoesTo, Extends
  <2>. QED  BY <2>1, <2>2
<1>13. lo <= hi /\ {hi} \subseteq lo .. hi  OBVIOUS
<1>. QED  BY <1>6, <1>8, <1>9, <1>10, <1>11, <1>12, <1>13 DEF Leads, Piece

-----------------------------------------------------------------------------
(* Single instructions. *)

(* An opcode stands for its instruction.                                   *)
LEMMA OpcodeOf ==
  ASSUME NEW i \in DOMAIN OpNames
  PROVE  /\ Opcode(OpNames[i]) \in 0 .. MaxByte
         /\ OpNames[Opcode(OpNames[i]) + 1] = OpNames[i]
<1>. DEFINE k == CHOOSE k \in DOMAIN OpNames : OpNames[k] = OpNames[i]
<1>1. k \in DOMAIN OpNames /\ OpNames[k] = OpNames[i]
  OBVIOUS
<1>2. DOMAIN OpNames = 1 .. 32 /\ Byte \in Nat /\ Byte >= 32
  BY BytecodeAssumption DEF OpNames
<1>3. Opcode(OpNames[i]) = k - 1  BY DEF Opcode
<1>. HIDE DEF k
<1>. QED  BY <1>1, <1>2, <1>3 DEF MaxByte

(* The instructions that the compiler emits.                               *)
Instructions ==
  BinaryOps \cup {"CONSTANT", "CONSTANT_LONG", "NEG", "NOT", "JMP", "JMPF", "NJMP",
                  "SETLOCAL", "SETGLOBAL", "LOADLOCAL", "LOADGLOBAL",
                  "CALL", "PRINT", "RETURN", "POP", "WIDE", "HALT"}

(* Each has an opcode.                                                     *)
LEMMA Decoded ==
  ASSUME NEW op \in Instructions
  PROVE  Opcode(op) \in 0 .. MaxByte /\ OpNames[Opcode(op) + 1] = op
<1>1. DOMAIN OpNames = 1 .. 32  BY DEF OpNames
<1>2. \E i \in 1 .. 32 : OpNames[i] = op
  BY DEF Instructions, BinaryOps, ArithmeticOps, ComparisonOps, LogicOps, OpNames
<1>. QED  BY <1>1, <1>2, OpcodeOf

(* What the code of a function has at offset o.                            *)
LEMMA ByteOf ==
  ASSUME NEW code, NEW o, NEW c, Contains(code, o, c), NEW i \in 0 .. Len(c) - 1,
         Len(c) \in Nat
  PROVE  ByteAt(code, o + i) = c[i + 1] /\ o + i + 1 <= Len(code)
<1>1. o \in Nat /\ Len(code) \in Nat /\ o + Len(c) <= Len(code)
      /\ \A k \in 1 .. Len(c) : code[o + k] = c[k]
  BY DEF Contains
<1>2. i + 1 \in 1 .. Len(c) /\ o + i + 1 = o + (i + 1) /\ o + i + 1 <= Len(code)
  BY <1>1
<1>. QED  BY <1>1, <1>2 DEF ByteAt

(* An instruction, as long as it may begin with n cells and go on with m.  *)
LEMMA OneInstruction ==
  ASSUME NEW K, NEW A, NEW c \in Seq(0 .. MaxByte), Len(c) > 0,
         NEW n \in Nat \ {0}, NEW m \in Nat,
         \A fs, f, o, h :
           /\ fs[Script].constants = K /\ Contains(fs[f].code, o, c)
           /\ GoesTo(h, o, n) /\ (m # 0 => GoesTo(h, o + Len(c), m))
           => Sound(fs, f, A, h, <<o, FALSE>>)
  PROVE  Phrase(K, A, c, n, m)
<1>. SUFFICES ASSUME NEW fs, NEW f, NEW o,
                     fs[Script].constants = K, Contains(fs[f].code, o, c)
              PROVE  \E h : Leads(fs, f, A, h, o, o + Len(c), n, m)
  BY DEF Phrase
<1>. DEFINE e == o + Len(c)
            D == IF m = 0 THEN {<<o, FALSE>>} ELSE {<<o, FALSE>>, <<e, FALSE>>}
            h == [p \in D |-> IF p = <<o, FALSE>> THEN n ELSE m]
<1>1. o \in Nat /\ e \in Nat /\ o < e  BY DEF Contains
<1>2. <<o, FALSE>> # <<e, FALSE>>  BY <1>1
<1>3. \A p \in D : p = <<o, FALSE>> \/ (p = <<e, FALSE>> /\ m # 0)
  OBVIOUS
<1>4. D \subseteq (o .. e) \X BOOLEAN
  <2>. DEFINE T == (o .. e) \X BOOLEAN
  <2>1. o \in o .. e /\ e \in o .. e  BY <1>1
  <2>2. <<o, FALSE>> \in T /\ <<e, FALSE>> \in T
    <3>. HIDE DEF e
    <3>. QED  BY <2>1
  <2>. HIDE DEF T, D
  <2>3. D \subseteq T  BY <1>3, <2>2
  <2>. QED  BY <2>3 DEF T
<1>5. GoesTo(h, o, n) /\ (m # 0 => GoesTo(h, e, m))
  BY <1>2 DEF GoesTo
<1>6. Sound(fs, f, A, h, <<o, FALSE>>)
  BY <1>5
<1>7. At(h, o, n) /\ At(h, e, m)
  BY <1>2, <1>5 DEF At
<1>8. h \in [DOMAIN h -> Nat \ {0}] /\ DOMAIN h = D
  BY <1>3
<1>. HIDE DEF D, h, e
<1>9. ASSUME NEW p \in DOMAIN h
      PROVE  IF p[1] \in {e} THEN p[2] = FALSE ELSE Sound(fs, f, A, h, p)
  <2>1. CASE p = <<o, FALSE>>
    <3>1. p[1] # e  BY <1>1, <2>1
    <3>. QED  BY <1>6, <2>1, <3>1
  <2>2. CASE p = <<e, FALSE>>  BY <2>2
  <2>. QED  BY <1>3, <1>8, <2>1, <2>2
<1>10. o <= e /\ {e} \subseteq o .. e  BY <1>1
<1>11. Piece(fs, f, A, h, o, e, {e})
  BY <1>1, <1>4, <1>8, <1>9, <1>10 DEF Piece
<1>. QED  BY <1>7, <1>11 DEF Leads, e

(* An instruction of a single byte.                                        *)
LEMMA Simple ==
  ASSUME NEW K, NEW A, NEW op \in A, NEW n \in Nat \ {0}, NEW m \in Nat,
         \/ op \in BinaryOps /\ n >= 3 /\ m = n - 1
         \/ op \in {"NEG", "NOT"} /\ n >= 2 /\ m = n
         \/ op \in {"PRINT", "POP"} /\ n >= 2 /\ m = n - 1
         \/ op = "RETURN" /\ n >= 2 /\ m = 0
  PROVE  Phrase(K, A, Emit(op), n, m)
<1>1. op \in Instructions /\ InstructionLength(op, FALSE) = 1
  BY DEF Instructions, InstructionLength, NamedOps, JumpOps, BinaryOps,
         ArithmeticOps, ComparisonOps, LogicOps
<1>2. Opcode(op) \in 0 .. MaxByte /\ OpNames[Opcode(op) + 1] = op
  BY <1>1, Decoded
<1>3. Emit(op) \in Seq(0 .. MaxByte) /\ Len(Emit(op)) = 1 /\ Emit(op)[1] = Opcode(op)
  BY <1>2 DEF Emit
<1>4. ASSUME NEW fs, NEW f, NEW o, NEW h, Contains(fs[f].code, o, Emit(op)),
             GoesTo(h, o, n), m # 0 => GoesTo(h, o + 1, m)
      PROVE  Sound(fs, f, A, h, <<o, FALSE>>)
  <2>1. /\ o \in Nat /\ Len(fs[f].code) \in Nat /\ o + 1 <= Len(fs[f].code)
        /\ ByteAt(fs[f].code, o) = Opcode(op)
    <3>1. o + 0 = o /\ o \in Nat /\ Len(fs[f].code) \in Nat
      BY <1>4 DEF Contains
    <3>2. 0 \in 0 .. Len(Emit(op)) - 1 /\ Len(Emit(op)) \in Nat  BY <1>3
    <3>3. ByteAt(fs[f].code, o + 0) = Emit(op)[0 + 1] /\ o + 0 + 1 <= Len(fs[f].code)
      BY <1>4, <3>2, ByteOf
    <3>. QED  BY <1>3, <3>1, <3>3
  <2>2. OpAt(fs[f].code, o) = op  BY <1>2, <2>1 DEF OpAt
  <2>3. NextAt(fs[f].code, <<o, FALSE>>) = o + 1
    BY <1>1, <2>2 DEF NextAt
  <2>4. h[<<o, FALSE>>] = n  BY <1>4 DEF GoesTo
  <2>5. Flows(fs, f, h, <<o, FALSE>>)
    BY <1>4, <2>2, <2>3, <2>4, SMT
       DEF Flows, BinaryOps, ArithmeticOps, ComparisonOps, LogicOps
  <2>. QED  BY <2>1, <2>2, <2>3, <2>5 DEF Sound
<1>5. Len(Emit(op)) > 0  BY <1>3
<1>6. \A fs, f, o, h :
        /\ fs[Script].constants = K /\ Contains(fs[f].code, o, Emit(op))
        /\ GoesTo(h, o, n) /\ (m # 0 => GoesTo(h, o + Len(Emit(op)), m))
        => Sound(fs, f, A, h, <<o, FALSE>>)
  BY <1>3, <1>4
<1>. QED  BY <1>3, <1>5, <1>6, OneInstruction

(* The three bytes of a wide operand.                                      *)
LEMMA U24Shape ==
  ASSUME NEW n \in Nat
  PROVE  /\ U24Bytes(n) \in Seq(0 .. MaxByte) /\ Len(U24Bytes(n)) = 3
         /\ U24Bytes(n)[1] = n % Byte /\ U24Bytes(n)[2] = (n \div Byte) % Byte
         /\ U24Bytes(n)[3] = (n \div (Byte * Byte)) % Byte
<1>. DEFINE x == n % Byte
            y == (n \div Byte) % Byte
            z == (n \div (Byte * Byte)) % Byte
<1>1. Byte \in Nat \ {0} /\ MaxByte = Byte - 1
  BY BytecodeAssumption DEF MaxByte, OpNames
<1>2. Byte * Byte \in Nat \ {0}  BY <1>1
<1>3. ASSUME NEW k \in Nat  PROVE k % Byte \in 0 .. MaxByte
  BY <1>1, <1>3, DivMod
<1>4. n \div Byte \in Nat /\ n \div (Byte * Byte) \in Nat
  BY <1>1, <1>2, DivMod
<1>5. x \in 0 .. MaxByte /\ y \in 0 .. MaxByte /\ z \in 0 .. MaxByte
  BY <1>3, <1>4
<1>6. U24Bytes(n) = <<x, y, z>>  BY DEF U24Bytes
<1>. HIDE DEF x, y, z
<1>7. <<x, y, z>> \in Seq(0 .. MaxByte)  BY <1>5
<1>8. U24Bytes(n)[1] = x /\ U24Bytes(n)[2] = y /\ U24Bytes(n)[3] = z
      /\ Len(U24Bytes(n)) = 3
  BY <1>6
<1>. QED  BY <1>6, <1>7, <1>8 DEF x, y, z

(* One code behind another.                                                *)
LEMMA Concatenated ==
  ASSUME NEW a \in Seq(0 .. MaxByte), NEW b \in Seq(0 .. MaxByte)
  PROVE  /\ a \o b \in Seq(0 .. MaxByte) /\ Len(a \o b) = Len(a) + Len(b)
         /\ \A k \in 1 .. Len(a) : (a \o b)[k] = a[k]
         /\ \A k \in 1 .. Len(b) : (a \o b)[Len(a) + k] = b[k]
OBVIOUS

(* A constant of the script.                                               *)
LEMMA ConstantFlows ==
  ASSUME NEW K, NEW A, {"CONSTANT", "CONSTANT_LONG"} \subseteq A,
         NEW i \in 0 .. Len(K) - 1, i < Byte * Byte * Byte, Loadable(K[i + 1]),
         Len(K) \in Nat, NEW n \in Nat \ {0}
  PROVE  Phrase(K, A, ConstantCode(i), n, n + 1)
<1>. DEFINE c == ConstantCode(i)
            op == IF i <= MaxByte THEN "CONSTANT" ELSE "CONSTANT_LONG"
<1>1. Byte \in Nat /\ Byte >= 32 /\ MaxByte = Byte - 1 /\ i \in Nat
  BY BytecodeAssumption DEF MaxByte, OpNames
<1>2. op \in Instructions /\ Opcode(op) \in 0 .. MaxByte /\ OpNames[Opcode(op) + 1] = op
      /\ op \in A
  <2>1. op \in Instructions  BY DEF Instructions
  <2>. QED  BY <2>1, Decoded
<1>3. /\ U24Bytes(i) \in Seq(0 .. MaxByte) /\ Len(U24Bytes(i)) = 3
      /\ U24Bytes(i)[1] = i % Byte /\ U24Bytes(i)[2] = (i \div Byte) % Byte
      /\ U24Bytes(i)[3] = (i \div (Byte * Byte)) % Byte
  BY <1>1, U24Shape
<1>4. /\ c \in Seq(0 .. MaxByte) /\ c[1] = Opcode(op)
      /\ Len(c) = IF i <= MaxByte THEN 2 ELSE 4
      /\ IF i <= MaxByte THEN c[2] = i
         ELSE c[2] = U24Bytes(i)[1] /\ c[3] = U24Bytes(i)[2] /\ c[4] = U24Bytes(i)[3]
  <2>1. CASE i <= MaxByte  BY <1>1, <1>2, <2>1 DEF ConstantCode
  <2>2. CASE ~(i <= MaxByte)
    <3>1. c = <<Opcode(op)>> \o U24Bytes(i)  BY <2>2 DEF ConstantCode
    <3>. HIDE DEF c, op
    <3>2. /\ c \in Seq(0 .. MaxByte) /\ Len(c) = 3 + 1 /\ c[1] = Opcode(op)
          /\ \A j \in 1 .. 3 : c[j + 1] = U24Bytes(i)[j]
      <4>. DEFINE v == <<Opcode(op)>>
                  u == U24Bytes(i)
      <4>1. v \in Seq(0 .. MaxByte) /\ Len(v) = 1 /\ v[1] = Opcode(op)
        BY <1>2
      <4>2. u \in Seq(0 .. MaxByte) /\ Len(u) = 3 /\ c = v \o u
        BY <1>3, <3>1
      <4>. HIDE DEF v, u
      <4>3. /\ c \in Seq(0 .. MaxByte) /\ Len(c) = Len(v) + Len(u)
            /\ \A j \in 1 .. Len(v) : c[j] = v[j]
            /\ \A j \in 1 .. Len(u) : c[Len(v) + j] = u[j]
        BY <4>1, <4>2, Concatenated, Zenon
      <4>4. Len(c) = 3 + 1 /\ c[1] = v[1]  BY <4>1, <4>2, <4>3
      <4>5. \A j \in 1 .. 3 : c[1 + j] = u[j]  BY <4>1, <4>2, <4>3
      <4>6. \A j \in 1 .. 3 : c[j + 1] = u[j]  BY <4>5
      <4>. QED  BY <4>1, <4>3, <4>4, <4>6 DEF u
    <3>3. c[1 + 1] = U24Bytes(i)[1] /\ c[2 + 1] = U24Bytes(i)[2] /\ c[3 + 1] = U24Bytes(i)[3]
      BY <3>2
    <3>. QED  BY <2>2, <3>2, <3>3
  <2>. QED  BY <2>1, <2>2
<1>. HIDE DEF c, op
<1>5. ASSUME NEW fs, NEW f, NEW o, NEW h, fs[Script].constants = K,
             Contains(fs[f].code, o, c), GoesTo(h, o, n), GoesTo(h, o + Len(c), n + 1)
      PROVE  Sound(fs, f, A, h, <<o, FALSE>>)
  <2>. DEFINE code == fs[f].code
  <2>1. /\ o \in Nat /\ Len(code) \in Nat /\ o + Len(c) <= Len(code)
        /\ \A k \in 1 .. Len(c) : code[o + k] = c[k]
    BY <1>5 DEF Contains
  <2>. HIDE DEF code
  <2>2. code[o + 1] = Opcode(op) /\ code[o + 2] = c[2]
    BY <1>4, <2>1
  <2>3. OpAt(code, o) = op  BY <1>2, <2>2 DEF OpAt, ByteAt
  <2>4. NextAt(code, <<o, FALSE>>) = o + Len(c)
    BY <1>4, <2>3 DEF NextAt, InstructionLength, NamedOps, JumpOps, op
  <2>5. IndexAt(code, <<o, FALSE>>) = i
    <3>1. CASE i <= MaxByte
      <4>1. o + 1 + 1 = o + 2  BY <2>1
      <4>2. ByteAt(code, o + 1) = i  BY <1>4, <2>2, <3>1, <4>1 DEF ByteAt
      <4>. QED  BY <2>3, <3>1, <4>2 DEF IndexAt, op
    <3>2. CASE ~(i <= MaxByte)
      <4>1. code[o + 2] = c[2] /\ code[o + 3] = c[3] /\ code[o + 4] = c[4]
        BY <1>4, <2>1, <3>2
      <4>2. o + 1 + 1 = o + 2 /\ o + 1 + 1 + 1 = o + 3 /\ o + 1 + 2 + 1 = o + 4
        BY <2>1
      <4>3. U24At(code, o + 1) = c[2] + Byte * c[3] + Byte * Byte * c[4]
        BY <4>1, <4>2 DEF U24At, ByteAt
      <4>4. U24At(code, o + 1) = i
        BY <1>1, <1>3, <1>4, <3>2, <4>3, U24Split
      <4>. QED  BY <2>3, <3>2, <4>4 DEF IndexAt, op
    <3>. QED  BY <3>1, <3>2
  <2>6. op \in {"CONSTANT", "CONSTANT_LONG"}  BY DEF op
  <2>7. IsConstant(fs, i) /\ ConstantOf(fs, i) = K[i + 1]
    BY <1>5 DEF IsConstant, ConstantOf
  <2>8. h[<<o, FALSE>>] = n  BY <1>5 DEF GoesTo
  <2>9. Flows(fs, f, h, <<o, FALSE>>)
    BY <1>5, <2>3, <2>4, <2>5, <2>6, <2>7, <2>8, SMT
       DEF Flows, code, BinaryOps, ArithmeticOps, ComparisonOps, LogicOps
  <2>10. o + 1 <= Len(code) /\ o + Len(c) <= Len(code)
    BY <1>4, <2>1
  <2>. QED  BY <1>2, <2>3, <2>4, <2>9, <2>10 DEF Sound, code
<1>6. Len(c) > 0  BY <1>4
<1>7. \A fs, f, o, h :
        /\ fs[Script].constants = K /\ Contains(fs[f].code, o, c)
        /\ GoesTo(h, o, n) /\ (n + 1 # 0 => GoesTo(h, o + Len(c), n + 1))
        => Sound(fs, f, A, h, <<o, FALSE>>)
  <2>1. n + 1 # 0 /\ n + 1 \in Nat  OBVIOUS
  <2>. QED  BY <1>5, <2>1
<1>8. n + 1 \in Nat  OBVIOUS
<1>9. c \in Seq(0 .. MaxByte)  BY <1>4
<1>. QED  BY <1>6, <1>7, <1>8, <1>9, OneInstruction DEF c

(* An instruction with an operand i that leads from n cells to m.          *)
Takes(K, op, i, n, m) ==
  LET named == i < Len(K) /\ IsString(K[i + 1])
  IN  \/ op = "SETGLOBAL" /\ named /\ n >= 2 /\ m = n
      \/ op = "LOADGLOBAL" /\ named /\ K[i + 1].val \in Readable /\ m = n + 1
      \/ op = "SETLOCAL" /\ i \in 1 .. n - 1 /\ m = n
      \/ op = "LOADLOCAL" /\ i \in 1 .. n - 1 /\ m = n + 1
      \/ op = "CALL" /\ n >= i + 2 /\ m = n - i

(* It keeps to a map that says so.                                         *)
LEMMA OperandFlows ==
  ASSUME NEW K, NEW op, NEW i, NEW n, NEW m, Takes(K, op, i, n, m),
         NEW fs, NEW f, NEW h, NEW p, fs[Script].constants = K,
         OpAt(fs[f].code, p[1]) = op, ArgAt(fs[f].code, p) = i,
         h[p] = n, GoesTo(h, NextAt(fs[f].code, p), m)
  PROVE  Flows(fs, f, h, p)
<1>1. op = "SETGLOBAL" \/ op = "LOADGLOBAL" => Names(fs, i)
  BY DEF Takes, Names, IsConstant, ConstantOf
<1>2. op = "LOADGLOBAL" => ConstantOf(fs, i).val \in Readable
  BY DEF Takes, ConstantOf
<1>3. \/ op = "SETGLOBAL" /\ n >= 2 /\ m = n
      \/ op = "LOADGLOBAL" /\ m = n + 1
      \/ op = "SETLOCAL" /\ i \in 1 .. n - 1 /\ m = n
      \/ op = "LOADLOCAL" /\ i \in 1 .. n - 1 /\ m = n + 1
      \/ op = "CALL" /\ n >= i + 2 /\ m = n - i
  BY DEF Takes
<1>. QED
  BY <1>1, <1>2, <1>3, SMT
     DEF Flows, BinaryOps, ArithmeticOps, ComparisonOps, LogicOps

(* Its operand in a byte.                                                  *)
LEMMA NarrowFlows ==
  ASSUME NEW K, NEW A, NEW op \in A, NEW i \in 0 .. MaxByte,
         NEW n \in Nat \ {0}, NEW m \in Nat, Takes(K, op, i, n, m)
  PROVE  Phrase(K, A, <<Opcode(op), i>>, n, m)
<1>. DEFINE c == <<Opcode(op), i>>
<1>1. op \in Instructions /\ InstructionLength(op, FALSE) = 2
  BY DEF Takes, Instructions, InstructionLength, NamedOps, JumpOps
<1>2. Opcode(op) \in 0 .. MaxByte /\ OpNames[Opcode(op) + 1] = op
  BY <1>1, Decoded
<1>3. c \in Seq(0 .. MaxByte) /\ Len(c) = 2 /\ c[1] = Opcode(op) /\ c[2] = i
  BY <1>2
<1>. HIDE DEF c
<1>4. m # 0  BY DEF Takes
<1>5. ASSUME NEW fs, NEW f, NEW o, NEW h, fs[Script].constants = K,
             Contains(fs[f].code, o, c), GoesTo(h, o, n), GoesTo(h, o + Len(c), m)
      PROVE  Sound(fs, f, A, h, <<o, FALSE>>)
  <2>. DEFINE code == fs[f].code
  <2>1. /\ o \in Nat /\ Len(code) \in Nat /\ o + 2 <= Len(code)
        /\ code[o + 1] = Opcode(op) /\ code[o + 2] = i
    BY <1>3, <1>5 DEF Contains
  <2>. HIDE DEF code
  <2>2. OpAt(code, o) = op  BY <1>2, <2>1 DEF OpAt, ByteAt
  <2>3. NextAt(code, <<o, FALSE>>) = o + 2
    BY <1>1, <2>2 DEF NextAt
  <2>4. ArgAt(code, <<o, FALSE>>) = i
    <3>1. o + 1 + 1 = o + 2  BY <2>1
    <3>. QED  BY <2>1, <3>1 DEF ArgAt, ByteAt
  <2>5. h[<<o, FALSE>>] = n  BY <1>5 DEF GoesTo
  <2>6. Flows(fs, f, h, <<o, FALSE>>)
    BY <1>3, <1>5, <2>2, <2>3, <2>4, <2>5, OperandFlows DEF code
  <2>7. o + 1 <= Len(code)  BY <2>1
  <2>. QED  BY <2>1, <2>2, <2>3, <2>6, <2>7 DEF Sound, code
<1>6. \A fs, f, o, h :
        /\ fs[Script].constants = K /\ Contains(fs[f].code, o, c)
        /\ GoesTo(h, o, n) /\ (m # 0 => GoesTo(h, o + Len(c), m))
        => Sound(fs, f, A, h, <<o, FALSE>>)
  BY <1>4, <1>5
<1>7. Len(c) > 0 /\ c \in Seq(0 .. MaxByte)  BY <1>3
<1>. QED  BY <1>6, <1>7, OneInstruction DEF c

(* Or announced by WIDE and in three bytes: a place of its own between.    *)
LEMMA WideFlows ==
  ASSUME NEW K, NEW A, NEW op \in A, "WIDE" \in A, NEW i \in Nat,
         i < Byte * Byte * Byte,
         NEW n \in Nat \ {0}, NEW m \in Nat, Takes(K, op, i, n, m)
  PROVE  Phrase(K, A, <<Opcode("WIDE"), Opcode(op)>> \o U24Bytes(i), n, m)
<1>. DEFINE c == <<Opcode("WIDE"), Opcode(op)>> \o U24Bytes(i)
<1>1. /\ op \in Instructions /\ InstructionLength(op, TRUE) = 4
      /\ "WIDE" \in Instructions /\ InstructionLength("WIDE", FALSE) = 1
  BY DEF Takes, Instructions, InstructionLength, NamedOps, JumpOps
<1>2. /\ Opcode(op) \in 0 .. MaxByte /\ OpNames[Opcode(op) + 1] = op
      /\ Opcode("WIDE") \in 0 .. MaxByte /\ OpNames[Opcode("WIDE") + 1] = "WIDE"
  BY <1>1, Decoded
<1>3. /\ U24Bytes(i) \in Seq(0 .. MaxByte) /\ Len(U24Bytes(i)) = 3
      /\ U24Bytes(i)[1] = i % Byte /\ U24Bytes(i)[2] = (i \div Byte) % Byte
      /\ U24Bytes(i)[3] = (i \div (Byte * Byte)) % Byte
  BY U24Shape
<1>4. /\ c \in Seq(0 .. MaxByte) /\ Len(c) = 5 /\ c[1] = Opcode("WIDE")
      /\ c[2] = Opcode(op) /\ c[3] = U24Bytes(i)[1] /\ c[4] = U24Bytes(i)[2]
      /\ c[5] = U24Bytes(i)[3]
  <2>. DEFINE w == Opcode("WIDE")
              k == Opcode(op)
              u == U24Bytes(i)
  <2>1. /\ w \in 0 .. MaxByte /\ k \in 0 .. MaxByte
        /\ u \in Seq(0 .. MaxByte) /\ Len(u) = 3
    BY <1>2, <1>3
  <2>2. c = <<w, k>> \o u  OBVIOUS
  <2>. HIDE DEF w, k, u, c
  <2>. DEFINE v == <<w, k>>
  <2>3. v \in Seq(0 .. MaxByte) /\ Len(v) = 2 /\ v[1] = w /\ v[2] = k  BY <2>1
  <2>. HIDE DEF v
  <2>4. /\ v \o u \in Seq(0 .. MaxByte) /\ Len(v \o u) = Len(v) + Len(u)
        /\ \A j \in 1 .. Len(v) : (v \o u)[j] = v[j]
        /\ \A j \in 1 .. Len(u) : (v \o u)[Len(v) + j] = u[j]
    BY <2>1, <2>3, Concatenated, Zenon
  <2>5. /\ (v \o u)[1] = w /\ (v \o u)[2] = k
        /\ (v \o u)[2 + 1] = u[1] /\ (v \o u)[2 + 2] = u[2] /\ (v \o u)[2 + 3] = u[3]
    BY <2>1, <2>3, <2>4
  <2>6. c = v \o u  BY <2>2 DEF v
  <2>. QED  BY <2>1, <2>3, <2>4, <2>5, <2>6 DEF w, k, u
<1>. HIDE DEF c
<1>5. m # 0  BY DEF Takes
<1>. SUFFICES ASSUME NEW fs, NEW f, NEW o,
                     fs[Script].constants = K, Contains(fs[f].code, o, c)
              PROVE  \E h : Leads(fs, f, A, h, o, o + Len(c), n, m)
  BY <1>4 DEF Phrase, c
<1>. DEFINE code == fs[f].code
            e == o + 5
            D == {<<o, FALSE>>, <<o + 1, TRUE>>, <<e, FALSE>>}
            h == [p \in D |-> IF p = <<e, FALSE>> THEN m ELSE n]
<1>6. /\ o \in Nat /\ Len(code) \in Nat /\ e <= Len(code)
      /\ \A k \in 1 .. 5 : code[o + k] = c[k]
  BY <1>4 DEF Contains
<1>. HIDE DEF code
<1>7. OpAt(code, o) = "WIDE" /\ OpAt(code, o + 1) = op
  <2>1. code[o + 1] = c[1] /\ code[o + 2] = c[2] /\ o + 1 + 1 = o + 2  BY <1>6
  <2>. QED  BY <1>2, <1>4, <2>1 DEF OpAt, ByteAt
<1>8. NextAt(code, <<o, FALSE>>) = o + 1 /\ NextAt(code, <<o + 1, TRUE>>) = e
  <2>1. o + 1 + 4 = o + 5  BY <1>6
  <2>. QED  BY <1>1, <1>7, <2>1 DEF NextAt
<1>9. ArgAt(code, <<o + 1, TRUE>>) = i
  <2>1. code[o + 3] = c[3] /\ code[o + 4] = c[4] /\ code[o + 5] = c[5]
    BY <1>6
  <2>2. /\ o + 1 + 1 + 1 = o + 3 /\ o + 1 + 1 + 1 + 1 = o + 4 
        /\ o + 1 + 1 + 2 + 1 = o + 5
    BY <1>6
  <2>3. U24At(code, o + 1 + 1) = c[3] + Byte * c[4] + Byte * Byte * c[5]
    BY <2>1, <2>2 DEF U24At, ByteAt
  <2>4. U24At(code, o + 1 + 1) = i
    BY <1>3, <1>4, <2>3, U24Split
  <2>. QED  BY <2>4 DEF ArgAt
<1>10. <<o, FALSE>> # <<e, FALSE>> /\ o # e /\ o + 1 # e  BY <1>6
<1>11. /\ h[<<o, FALSE>>] = n /\ h[<<o + 1, TRUE>>] = n /\ h[<<e, FALSE>>] = m
       /\ DOMAIN h = D
  BY <1>10
<1>12. GoesTo(h, o, n) /\ GoesTo(h, e, m) /\ <<o + 1, TRUE>> \in DOMAIN h
  BY <1>11 DEF GoesTo
<1>13. h \in [DOMAIN h -> Nat \ {0}]
  BY <1>5
<1>14. DOMAIN h \subseteq (o .. e) \X BOOLEAN
  <2>. DEFINE T == (o .. e) \X BOOLEAN
  <2>1. o \in o .. e /\ o + 1 \in o .. e /\ e \in o .. e  BY <1>6
  <2>2. <<o, FALSE>> \in T /\ <<o + 1, TRUE>> \in T /\ <<e, FALSE>> \in T
    <3>. HIDE DEF e
    <3>. QED  BY <2>1
  <2>. HIDE DEF T
  <2>. QED  BY <1>11, <2>2 DEF T
<1>. HIDE DEF h, e
<1>15. Flows(fs, f, h, <<o + 1, TRUE>>)
  <2>. DEFINE q == <<o + 1, TRUE>>
  <2>1. q[1] = o + 1  OBVIOUS
  <2>2. /\ OpAt(code, q[1]) = op /\ ArgAt(code, q) = i /\ h[q] = n
        /\ GoesTo(h, NextAt(code, q), m)
    BY <1>7, <1>8, <1>9, <1>11, <1>12, <2>1
  <2>. HIDE DEF q
  <2>3. Flows(fs, f, h, q)  BY <2>2, OperandFlows DEF code
  <2>. QED  BY <2>3 DEF q
<1>16. Flows(fs, f, h, <<o, FALSE>>)
  <2>. DEFINE q == <<o, FALSE>>
  <2>1. q[1] = o  OBVIOUS
  <2>2. /\ OpAt(code, q[1]) = "WIDE" /\ NextAt(code, q) = o + 1 /\ h[q] = n
        /\ <<o + 1, TRUE>> \in DOMAIN h /\ h[<<o + 1, TRUE>>] = n
    BY <1>7, <1>8, <1>11, <1>12, <2>1
  <2>. HIDE DEF q
  <2>3. Flows(fs, f, h, q)
    BY <2>2, SMT
       DEF Flows, code, BinaryOps, ArithmeticOps, ComparisonOps, LogicOps
  <2>. QED  BY <2>3 DEF q
<1>17. ASSUME NEW p \in DOMAIN h
       PROVE  IF p[1] \in {e} THEN p[2] = FALSE ELSE Sound(fs, f, A, h, p)
  <2>1. o + 1 <= Len(code) /\ o + 1 + 1 <= Len(code)
    BY <1>6 DEF e
  <2>2. CASE p = <<o, FALSE>>
    <3>1. Sound(fs, f, A, h, <<o, FALSE>>)
      BY <1>7, <1>8, <1>16, <2>1 DEF Sound, code
    <3>. QED  BY <1>10, <2>2, <3>1
  <2>3. CASE p = <<o + 1, TRUE>>
    <3>1. Sound(fs, f, A, h, <<o + 1, TRUE>>)
      BY <1>6, <1>7, <1>8, <1>15, <2>1 DEF Sound, code
    <3>. QED  BY <1>10, <2>3, <3>1
  <2>4. CASE p = <<e, FALSE>>  BY <2>4
  <2>. QED  BY <1>11, <2>2, <2>3, <2>4
<1>18. Piece(fs, f, A, h, o, e, {e})
  <2>1. o \in Nat /\ e \in Nat /\ o <= e /\ {e} \subseteq o .. e  BY <1>6 DEF e
  <2>. QED  BY <1>13, <1>14, <1>17, <2>1 DEF Piece
<1>19. At(h, o, n) /\ At(h, e, m)  BY <1>5, <1>12 DEF At
<1>. QED  BY <1>4, <1>18, <1>19 DEF Leads, e

-----------------------------------------------------------------------------
(* Code after code. *)

Splits(c, a, b) ==
  a \in Seq(0 .. MaxByte) /\ b \in Seq(0 .. MaxByte) /\ c = a \o b

(* Where two codes stand, each of them stands.                             *)
LEMMA ContainsBoth ==
  ASSUME NEW c, NEW a, NEW b, Splits(c, a, b), NEW code, NEW o, Contains(code, o, c)
  PROVE  /\ Contains(code, o, a) /\ Contains(code, o + Len(a), b)
         /\ o + Len(c) = o + Len(a) + Len(b) /\ o \in Nat /\ Len(code) \in Nat
<1>1. /\ c \in Seq(0 .. MaxByte) /\ Len(c) = Len(a) + Len(b)
      /\ \A k \in 1 .. Len(a) : c[k] = a[k]
      /\ \A k \in 1 .. Len(b) : c[Len(a) + k] = b[k]
  BY Concatenated, Zenon DEF Splits
<1>3. Len(a) \in Nat /\ Len(b) \in Nat  BY DEF Splits
<1>4. /\ o \in Nat /\ Len(code) \in Nat /\ o + Len(c) <= Len(code)
      /\ \A k \in 1 .. Len(c) : code[o + k] = c[k]
  BY DEF Contains
<1>5. ASSUME NEW k \in 1 .. Len(a)  PROVE code[o + k] = a[k]
  <2>1. k \in 1 .. Len(c)  BY <1>1, <1>3
  <2>. QED  BY <1>1, <1>4, <2>1
<1>6. ASSUME NEW k \in 1 .. Len(b)  PROVE code[o + Len(a) + k] = b[k]
  <2>1. Len(a) + k \in 1 .. Len(c)  BY <1>1, <1>3
  <2>2. code[o + (Len(a) + k)] = b[k]  BY <1>1, <1>4, <2>1
  <2>3. o + (Len(a) + k) = o + Len(a) + k  BY <1>3, <1>4
  <2>. QED  BY <2>2, <2>3
<1>7. /\ o + Len(a) \in Nat /\ o + Len(a) <= Len(code)
      /\ o + Len(a) + Len(b) <= Len(code) /\ o + Len(c) = o + Len(a) + Len(b)
  BY <1>1, <1>3, <1>4
<1>. QED  BY <1>1, <1>4, <1>5, <1>6, <1>7 DEF Contains

(* What a phrase says of the code of a function.                           *)
LEMMA PhraseAt ==
  ASSUME NEW K, NEW A, NEW c, NEW n, NEW m, Phrase(K, A, c, n, m),
         NEW fs, NEW f, NEW o, fs[Script].constants = K, Contains(fs[f].code, o, c)
  PROVE  \E h : Leads(fs, f, A, h, o, o + Len(c), n, m)
BY Zenon DEF Phrase

(* One phrase behind another.                                              *)
LEMMA After ==
  ASSUME NEW K, NEW A, NEW a, NEW b, NEW n, NEW k, NEW m,
         Phrase(K, A, a, n, k), Phrase(K, A, b, k, m)
  PROVE  Phrase(K, A, a \o b, n, m)
<1>1. a \in Seq(0 .. MaxByte) /\ b \in Seq(0 .. MaxByte)  BY Zenon DEF Phrase
<1>2. a \o b \in Seq(0 .. MaxByte)  BY <1>1, Concatenated, Zenon
<1>. SUFFICES ASSUME NEW fs, NEW f, NEW o, fs[Script].constants = K,
                     Contains(fs[f].code, o, a \o b)
              PROVE  \E h : Leads(fs, f, A, h, o, o + Len(a \o b), n, m)
  BY <1>2, Zenon DEF Phrase
<1>. DEFINE mid == o + Len(a)
            hi == mid + Len(b)
            code == fs[f].code
<1>3. /\ Contains(code, o, a) /\ Contains(code, mid, b)
      /\ o + Len(a \o b) = hi /\ o \in Nat
  <2>. DEFINE c == a \o b
  <2>1. Contains(code, o, c) /\ Splits(c, a, b)  BY <1>1 DEF Splits
  <2>. HIDE DEF code, c, mid
  <2>2. /\ Contains(code, o, a) /\ Contains(code, o + Len(a), b)
        /\ o + Len(c) = o + Len(a) + Len(b) /\ o \in Nat
    BY <2>1, ContainsBoth
  <2>. QED  BY <2>2 DEF c, mid
<1>5. PICK h : Leads(fs, f, A, h, o, mid, n, k)
  BY <1>3, PhraseAt, Zenon
<1>6. PICK g : Leads(fs, f, A, g, mid, hi, k, m)
  BY <1>3, PhraseAt, Zenon
<1>. HIDE DEF mid, hi
<1>8. \E j : Leads(fs, f, A, j, o, hi, n, m)
  BY <1>5, <1>6, Chained
<1>. QED  BY <1>3, <1>8

(* No code at all.                                                         *)
LEMMA NoCode ==
  ASSUME NEW K, NEW A, NEW n \in Nat
  PROVE  Phrase(K, A, <<>>, n, n)
<1>. SUFFICES ASSUME NEW fs, NEW f, NEW o, Contains(fs[f].code, o, <<>>)
              PROVE  \E h : Leads(fs, f, A, h, o, o + Len(<<>>), n, n)
  <2>1. <<>> \in Seq(0 .. MaxByte)  OBVIOUS
  <2>. QED  BY <2>1, Zenon DEF Phrase
<1>1. o \in Nat /\ o + Len(<<>>) = o  BY DEF Contains
<1>. DEFINE D == IF n = 0 THEN {} ELSE {<<o, FALSE>>}
            h == [p \in D |-> n]
<1>2. At(h, o, n)  BY DEF At, GoesTo
<1>3. h \in [DOMAIN h -> Nat \ {0}] /\ DOMAIN h \subseteq {<<o, FALSE>>}
  OBVIOUS
<1>. HIDE DEF h
<1>4. DOMAIN h \subseteq (o .. o) \X BOOLEAN
  <2>1. o \in o .. o  BY <1>1
  <2>2. <<o, FALSE>> \in (o .. o) \X BOOLEAN  BY <2>1
  <2>. QED  BY <1>3, <2>2, Zenon
<1>5. ASSUME NEW p \in DOMAIN h  PROVE p[1] = o /\ p[2] = FALSE
  <2>1. p = <<o, FALSE>>  BY <1>3
  <2>. QED  BY <2>1
<1>6. Piece(fs, f, A, h, o, o, {o})
  <2>1. o <= o /\ {o} \subseteq o .. o  BY <1>1
  <2>. QED  BY <1>1, <1>3, <1>4, <1>5, <2>1 DEF Piece
<1>. QED  BY <1>1, <1>2, <1>6 DEF Leads

(* Code that never ends may be said to end with any number of cells.       *)
LEMMA NeverEnding ==
  ASSUME NEW K, NEW A, NEW c, NEW n, NEW m \in Nat, n # 0, Phrase(K, A, c, n, 0)
  PROVE  Phrase(K, A, c, n, m)
<1>1. CASE m = 0  BY <1>1
<1>2. CASE m # 0
  <2>1. c \in Seq(0 .. MaxByte)  BY Zenon DEF Phrase
  <2>. SUFFICES ASSUME NEW fs, NEW f, NEW o, fs[Script].constants = K,
                       Contains(fs[f].code, o, c)
                PROVE  \E h : Leads(fs, f, A, h, o, o + Len(c), n, m)
    BY <2>1, Zenon DEF Phrase
  <2>. DEFINE e == o + Len(c)
  <2>2. PICK h : Piece(fs, f, A, h, o, e, {e}) /\ At(h, o, n) /\ At(h, e, 0)
    BY PhraseAt, Zenon DEF Leads
  <2>3. o \in Nat /\ e \in Nat /\ o <= e  BY <2>1 DEF Contains
  <2>. HIDE DEF e
  <2>. DEFINE j == [p \in DOMAIN h \cup {<<e, FALSE>>} |-> IF p \in DOMAIN h THEN h[p] ELSE m]
  <2>4. <<e, FALSE>> \notin DOMAIN h  BY <2>2 DEF At
  <2>5. /\ h \in [DOMAIN h -> Nat \ {0}] /\ DOMAIN h \subseteq (o .. e) \X BOOLEAN
        /\ \A p \in DOMAIN h : IF p[1] \in {e} THEN p[2] = FALSE ELSE Sound(fs, f, A, h, p)
    BY <2>2 DEF Piece
  <2>6. j \in [DOMAIN j -> Nat \ {0}] /\ DOMAIN j = DOMAIN h \cup {<<e, FALSE>>}
    BY <1>2, <2>5
  <2>7. Extends(j, h) /\ j[<<e, FALSE>>] = m
    BY <2>4 DEF Extends
  <2>. HIDE DEF j
  <2>8. DOMAIN j \subseteq (o .. e) \X BOOLEAN
    <3>1. e \in o .. e  BY <2>3
    <3>2. <<e, FALSE>> \in (o .. e) \X BOOLEAN  BY <3>1
    <3>. QED  BY <2>5, <2>6, <3>2, Zenon
  <2>9. ASSUME NEW p \in DOMAIN j
        PROVE  IF p[1] \in {e} THEN p[2] = FALSE ELSE Sound(fs, f, A, j, p)
    <3>1. CASE p \in DOMAIN h
      BY <2>5, <2>7, <3>1, SoundInLarger
    <3>2. CASE p = <<e, FALSE>>  BY <3>2
    <3>. QED  BY <2>6, <3>1, <3>2
  <2>10. Piece(fs, f, A, j, o, e, {e})
    <3>1. {e} \subseteq o .. e  BY <2>3
    <3>. QED  BY <2>3, <2>6, <2>8, <2>9, <3>1 DEF Piece
  <2>11. At(j, e, m)  BY <1>2, <2>6, <2>7 DEF At, GoesTo
  <2>12. At(j, o, n)
    BY <2>2, <2>7 DEF At, GoesTo, Extends
  <2>. QED  BY <2>10, <2>11, <2>12 DEF Leads, e
<1>. QED  BY <1>1, <1>2

(* Code that is not reached may be any.                                    *)
LEMMA Unreached ==
  ASSUME NEW K, NEW A, NEW c \in Seq(0 .. MaxByte)
  PROVE  Phrase(K, A, c, 0, 0)
<1>. SUFFICES ASSUME NEW fs, NEW f, NEW o, Contains(fs[f].code, o, c)
              PROVE  \E h : Leads(fs, f, A, h, o, o + Len(c), 0, 0)
  BY Zenon DEF Phrase
<1>. DEFINE h == [p \in {} |-> 1]
<1>1. DOMAIN h = {} /\ h \in [DOMAIN h -> Nat \ {0}]  OBVIOUS
<1>. HIDE DEF h
<1>2. Piece(fs, f, A, h, o, o + Len(c), {o + Len(c)})
  <2>1. /\ o \in Nat /\ o + Len(c) \in Nat /\ o <= o + Len(c)
        /\ {o + Len(c)} \subseteq o .. o + Len(c)
    BY DEF Contains
  <2>. QED  BY <1>1, <2>1 DEF Piece
<1>. QED  BY <1>1, <1>2 DEF Leads, At

-----------------------------------------------------------------------------
(* Jumps. *)

(* The two bytes of a distance.                                            *)
LEMMA ShortBytes ==
  ASSUME NEW d \in 0 .. MaxShort
  PROVE  /\ (d \div Byte) % Byte \in 0 .. MaxByte /\ d % Byte \in 0 .. MaxByte
         /\ d \in Nat
<1>1. Byte \in Nat \ {0} /\ MaxByte = Byte - 1
  BY BytecodeAssumption DEF MaxByte, OpNames
<1>2. d \in Nat  BY <1>1 DEF MaxShort
<1>3. ASSUME NEW k \in Nat  PROVE k % Byte \in 0 .. MaxByte
  BY <1>1, <1>3, DivMod
<1>4. d \div Byte \in Nat  BY <1>1, <1>2, DivMod
<1>. QED  BY <1>2, <1>3, <1>4

(* The three bytes of a jump over distance d.                              *)
IsJump(op, j, d) ==
  /\ j \in Seq(0 .. MaxByte) /\ Len(j) = 3 /\ j[1] = Opcode(op)
  /\ Byte * j[2] + j[3] = d

(* emit_jump and patch_jump jump behind the code (chunk.c:233-251).        *)
LEMMA JumpOverIsJump ==
  ASSUME NEW op \in JumpOps, NEW c \in Seq(0 .. MaxByte), Len(c) <= MaxShort
  PROVE  IsJump(op, JumpOver(op, c), Len(c))
<1>. DEFINE d == Len(c)
            j == JumpCode(op)
            x == j \o c
            high == (d \div Byte) % Byte
            low == d % Byte
            y == [x EXCEPT ![2] = high, ![3] = low]
<1>1. d \in Nat /\ d \in 0 .. MaxShort
  BY BytecodeAssumption DEF MaxShort
<1>2. /\ high \in 0 .. MaxByte /\ low \in 0 .. MaxByte
      /\ Byte * high + low = d
  BY <1>1, ShortBytes, ShortSplit
<1>3. Opcode(op) \in 0 .. MaxByte
  BY Decoded DEF JumpOps, Instructions
<1>4. MaxByte \in 0 .. MaxByte  BY BytecodeAssumption DEF MaxByte, OpNames
<1>5. j \in Seq(0 .. MaxByte) /\ Len(j) = 3 /\ j[1] = Opcode(op)
  BY <1>3, <1>4 DEF JumpCode
<1>. HIDE DEF d, j, high, low
<1>6. x \in Seq(0 .. MaxByte) /\ Len(x) = 3 + d /\ x[1] = Opcode(op)
  <2>1. /\ x \in Seq(0 .. MaxByte) /\ Len(x) = Len(j) + Len(c)
        /\ \A k \in 1 .. Len(j) : x[k] = j[k]
    BY <1>5, Concatenated, Zenon
  <2>. QED  BY <1>1, <1>5, <2>1 DEF d
<1>7. PatchedDistance(x, 1) = d  BY <1>1, <1>6 DEF PatchedDistance
<1>8. Patched(x, 1) = y  BY <1>7 DEF Patched, high, low
<1>. HIDE DEF x
<1>9. /\ y \in Seq(0 .. MaxByte) /\ Len(y) = 3 + d /\ y[1] = Opcode(op)
      /\ y[2] = high /\ y[3] = low
  BY <1>1, <1>2, <1>6
<1>. HIDE DEF y
<1>10. SubSeq(y, 1, 3) \in Seq(0 .. MaxByte) /\ Len(SubSeq(y, 1, 3)) = 3
       /\ \A k \in 1 .. 3 : SubSeq(y, 1, 3)[k] = y[k]
  <2>1. 1 \in Int /\ 3 \in Int  OBVIOUS
  <2>2. \A k \in 1 .. 3 : y[k] \in 0 .. MaxByte
    <3>1. \A k \in 1 .. 3 : k = 1 \/ k = 2 \/ k = 3  OBVIOUS
    <3>. QED  BY <1>2, <1>3, <1>9, <3>1
  <2>3. /\ SubSeq(y, 1, 3) \in Seq(0 .. MaxByte)
        /\ Len(SubSeq(y, 1, 3)) = IF 1 <= 3 THEN 3 - 1 + 1 ELSE 0
        /\ \A k \in 1 .. 3 - 1 + 1 : SubSeq(y, 1, 3)[k] = y[1 + k - 1]
    BY <2>1, <2>2, SubSeqProperties, SMT
  <2>. QED  BY <2>3
<1>11. JumpOver(op, c) = SubSeq(y, 1, 3)
  BY <1>8 DEF JumpOver, x, j
<1>. QED  BY <1>2, <1>9, <1>10, <1>11 DEF IsJump, d

(* emit_njump jumps back to the first byte of the loop                     *)
(* (parser.c:535-546).                                                     *)
LEMMA BackwardJumpIsJump ==
  ASSUME NEW loop \in Seq(0 .. MaxByte), Len(loop) + 3 <= MaxShort
  PROVE  IsJump("NJMP", BackwardJump(loop), Len(loop) + 3)
<1>. DEFINE d == Len(loop) + 3
            high == (d \div Byte) % Byte
            low == d % Byte
<1>1. d \in Nat /\ d \in 0 .. MaxShort
  BY BytecodeAssumption DEF MaxShort
<1>2. /\ high \in 0 .. MaxByte /\ low \in 0 .. MaxByte
      /\ Byte * high + low = d
  BY <1>1, ShortBytes, ShortSplit
<1>3. Opcode("NJMP") \in 0 .. MaxByte
  BY Decoded DEF Instructions
<1>4. BackwardJump(loop) = <<Opcode("NJMP"), high, low>>
  BY DEF BackwardJump
<1>. HIDE DEF d, high, low
<1>5. /\ BackwardJump(loop) \in Seq(0 .. MaxByte) /\ Len(BackwardJump(loop)) = 3
      /\ BackwardJump(loop)[1] = Opcode("NJMP") /\ BackwardJump(loop)[2] = high
      /\ BackwardJump(loop)[3] = low
  BY <1>2, <1>3, <1>4
<1>. QED  BY <1>2, <1>5 DEF IsJump, d

(* Where a jump goes.                                                      *)
LEMMA JumpAt ==
  ASSUME NEW op \in JumpOps, NEW j, NEW d, IsJump(op, j, d), NEW code, NEW a,
         Contains(code, a, j)
  PROVE  /\ OpAt(code, <<a, FALSE>>[1]) = op /\ NextAt(code, <<a, FALSE>>) = a + 3
         /\ DistAt(code, <<a, FALSE>>) = d
         /\ <<a, FALSE>>[1] + 1 <= Len(code) /\ a + 3 <= Len(code)
<1>1. /\ a \in Nat /\ Len(code) \in Nat /\ a + 3 <= Len(code)
      /\ code[a + 1] = j[1] /\ code[a + 2] = j[2] /\ code[a + 3] = j[3]
  BY DEF Contains, IsJump
<1>2. a + 1 + 1 = a + 2 /\ a + 1 + 1 + 1 = a + 3 /\ a + 1 <= Len(code)  BY <1>1
<1>3. OpAt(code, a) = op
  BY <1>1, Decoded DEF OpAt, ByteAt, IsJump, JumpOps, Instructions
<1>4. InstructionLength(op, FALSE) = 3
  BY DEF InstructionLength, JumpOps, NamedOps
<1>5. NextAt(code, <<a, FALSE>>) = a + 3  BY <1>3, <1>4 DEF NextAt
<1>6. ShortAt(code, a + 1) = d
  BY <1>1, <1>2 DEF ShortAt, ByteAt, IsJump
<1>7. DistAt(code, <<a, FALSE>>) = d  BY <1>6 DEF DistAt
<1>. QED  BY <1>1, <1>2, <1>3, <1>5, <1>7

(* A jump that keeps to the map.                                           *)
LEMMA JumpSound ==
  ASSUME NEW op \in JumpOps, NEW A, op \in A, NEW j, NEW d, IsJump(op, j, d),
         NEW fs, NEW f, NEW h, NEW a, Contains(fs[f].code, a, j), NEW n,
         h[<<a, FALSE>>] = n,
         op = "JMP" => GoesTo(h, a + 3 + d, n),
         op = "NJMP" => GoesTo(h, (a + 3) - d, n),
         op = "JMPF" => n >= 2 /\ GoesTo(h, a + 3, n - 1) /\ GoesTo(h, a + 3 + d, n - 1)
  PROVE  Sound(fs, f, A, h, <<a, FALSE>>)
<1>. DEFINE code == fs[f].code
            p == <<a, FALSE>>
<1>1. /\ OpAt(code, p[1]) = op /\ NextAt(code, p) = a + 3 /\ DistAt(code, p) = d
      /\ p[1] + 1 <= Len(code) /\ a + 3 <= Len(code)
  <2>1. Contains(code, a, j)  OBVIOUS
  <2>. HIDE DEF code
  <2>2. /\ OpAt(code, <<a, FALSE>>[1]) = op /\ NextAt(code, <<a, FALSE>>) = a + 3
        /\ DistAt(code, <<a, FALSE>>) = d
        /\ <<a, FALSE>>[1] + 1 <= Len(code) /\ a + 3 <= Len(code)
    BY <2>1, JumpAt, Zenon
  <2>. QED  BY <2>2
<1>2. h[p] = n  OBVIOUS
<1>. HIDE DEF p
<1>3. Flows(fs, f, h, p)
  <2>1. CASE op = "JMP"
    BY <1>1, <1>2, <2>1, SMT
       DEF Flows, BinaryOps, ArithmeticOps, ComparisonOps, LogicOps
  <2>2. CASE op = "NJMP"
    <3>1. GoesTo(h, NextAt(code, p) - DistAt(code, p), n)  BY <1>1, <2>2
    <3>. QED  BY <3>1, <1>1, <1>2, <2>2, SMT
              DEF Flows, BinaryOps, ArithmeticOps, ComparisonOps, LogicOps
  <2>3. CASE op = "JMPF"
    BY <1>1, <1>2, <2>3, SMT
       DEF Flows, BinaryOps, ArithmeticOps, ComparisonOps, LogicOps
  <2>. QED  BY <2>1, <2>2, <2>3 DEF JumpOps
<1>. QED  BY <1>1, <1>3 DEF Sound, p

(* The condition is popped, whichever way the code goes.                   *)
LEMMA JumpFalseSound ==
  ASSUME NEW A, "JMPF" \in A, NEW j, NEW d, IsJump("JMPF", j, d),
         NEW fs, NEW f, NEW h, NEW a, Contains(fs[f].code, a, j),
         NEW n \in Nat \ {0}, h[<<a, FALSE>>] = n + 1,
         GoesTo(h, a + 3, n), GoesTo(h, a + 3 + d, n)
  PROVE  Sound(fs, f, A, h, <<a, FALSE>>)
<1>. DEFINE k == n + 1
            code == fs[f].code
            p == <<a, FALSE>>
<1>1. k >= 2 /\ k - 1 = n  OBVIOUS
<1>2. h[p] = k  OBVIOUS
<1>3. Contains(code, a, j)  OBVIOUS
<1>. HIDE DEF k, code
<1>4. /\ OpAt(code, p[1]) = "JMPF" /\ NextAt(code, p) = a + 3 /\ DistAt(code, p) = d
      /\ p[1] + 1 <= Len(code) /\ a + 3 <= Len(code)
  <2>1. "JMPF" \in JumpOps  BY DEF JumpOps
  <2>2. /\ OpAt(code, <<a, FALSE>>[1]) = "JMPF" /\ NextAt(code, <<a, FALSE>>) = a + 3
        /\ DistAt(code, <<a, FALSE>>) = d
        /\ <<a, FALSE>>[1] + 1 <= Len(code) /\ a + 3 <= Len(code)
    BY <1>3, <2>1, JumpAt, Zenon
  <2>. QED  BY <2>2
<1>. HIDE DEF p
<1>5. Flows(fs, f, h, p)
  BY <1>1, <1>2, <1>4, SMT
     DEF Flows, code, BinaryOps, ArithmeticOps, ComparisonOps, LogicOps
<1>. QED  BY <1>4, <1>5 DEF Sound, code, p

-----------------------------------------------------------------------------
(* The constructs of the language, in frames of more than low cells, by    *)
(* what they do to the number of cells.                                    *)

Grows(K, A, low, c, d) == \A n \in Nat : n > low => Phrase(K, A, c, n, n + d)

Expression(K, A, low, c) == Grows(K, A, low, c, 1)
Statement(K, A, low, c)  == Grows(K, A, low, c, 0)
Ends(K, A, low, c)       == \A n \in Nat : n > low => Phrase(K, A, c, n, 0)

(* One behind the other.                                                   *)
LEMMA GrowsAfter ==
  ASSUME NEW K, NEW A, NEW low \in Nat, NEW a, NEW d \in Nat, NEW b, NEW e \in Nat,
         Grows(K, A, low, a, d), Grows(K, A, low + d, b, e)
  PROVE  Grows(K, A, low, a \o b, d + e)
<1>. SUFFICES ASSUME NEW n \in Nat, n > low
              PROVE  Phrase(K, A, a \o b, n, n + (d + e))
  BY DEF Grows
<1>1. Phrase(K, A, a, n, n + d)  BY DEF Grows
<1>2. n + d \in Nat /\ n + d > low + d /\ n + d + e = n + (d + e)  OBVIOUS
<1>3. Phrase(K, A, b, n + d, n + (d + e))  BY <1>2 DEF Grows
<1>. QED  BY <1>1, <1>3, After

(* An operand that fits three bytes, in either form.                       *)
LEMMA OperandPhrase ==
  ASSUME NEW K, NEW A, NEW op \in A, "WIDE" \in A, NEW i \in Nat,
         i < Byte * Byte * Byte,
         NEW n \in Nat \ {0}, NEW m \in Nat, Takes(K, op, i, n, m)
  PROVE  Phrase(K, A, OperandCode(op, i), n, m)
<1>1. CASE i <= MaxByte
  <2>1. i \in 0 .. MaxByte  BY <1>1, BytecodeAssumption DEF MaxByte, OpNames
  <2>. QED  BY <1>1, <2>1, NarrowFlows DEF OperandCode
<1>2. CASE ~(i <= MaxByte)
  BY <1>2, WideFlows DEF OperandCode
<1>. QED  BY <1>1, <1>2

(* A constant that programs handle, and a name.                            *)
IsLiteral(K, i) ==
  i \in 0 .. Len(K) - 1 /\ i < Byte * Byte * Byte /\ Loadable(K[i + 1])
IsGlobal(K, i) ==
  i \in 0 .. Len(K) - 1 /\ i < Byte * Byte * Byte /\ IsString(K[i + 1])

(* A literal or a function (parser.c:504, 870-903).                        *)
LEMMA LiteralAdds ==
  ASSUME NEW K, Len(K) \in Nat, NEW A, NEW low \in Nat, NEW i, IsLiteral(K, i),
         {"CONSTANT", "CONSTANT_LONG"} \subseteq A
  PROVE  Expression(K, A, low, Literal(i))
<1>1. ASSUME NEW n \in Nat, n > low  PROVE Phrase(K, A, ConstantCode(i), n, n + 1)
  BY <1>1, ConstantFlows DEF IsLiteral
<1>. QED  BY <1>1 DEF Expression, Grows, Literal

(* An instruction with an operand, wherever it takes no more than it may.  *)
LEMMA OperandGrows ==
  ASSUME NEW K, NEW A, NEW op \in A, "WIDE" \in A, NEW low \in Nat, NEW i \in Nat,
         i < Byte * Byte * Byte, NEW d \in {0, 1},
         \A n \in Nat : n > low => Takes(K, op, i, n, n + d)
  PROVE  Grows(K, A, low, OperandCode(op, i), d)
<1>1. ASSUME NEW n \in Nat, n > low
      PROVE  Phrase(K, A, OperandCode(op, i), n, n + d)
  <2>1. n \in Nat \ {0} /\ n + d \in Nat  BY <1>1
  <2>2. Takes(K, op, i, n, n + d)  BY <1>1
  <2>. QED  BY <2>1, <2>2, OperandPhrase
<1>. QED  BY <1>1 DEF Grows

(* A global that is read (parser.c:702-731).                               *)
LEMMA LoadNameAdds ==
  ASSUME NEW K, Len(K) \in Nat, NEW A, {"LOADGLOBAL", "WIDE"} \subseteq A,
         NEW low \in Nat, NEW i, IsGlobal(K, i), K[i + 1].val \in Readable
  PROVE  Expression(K, A, low, LoadName(i))
<1>1. \A n \in Nat : n > low => Takes(K, "LOADGLOBAL", i, n, n + 1)
  BY DEF IsGlobal, Takes
<1>2. i \in Nat /\ i < Byte * Byte * Byte  BY DEF IsGlobal
<1>. QED  BY <1>1, <1>2, OperandGrows DEF Expression, LoadName

(* A global that is assigned: the value stays (parser.c:721-726).          *)
LEMMA AssignNameAdds ==
  ASSUME NEW K, Len(K) \in Nat, NEW A, {"SETGLOBAL", "WIDE"} \subseteq A,
         NEW low \in Nat, NEW i, IsGlobal(K, i), NEW e, Expression(K, A, low, e)
  PROVE  Expression(K, A, low, AssignName(i, e))
<1>1. \A n \in Nat : n > low + 1 => Takes(K, "SETGLOBAL", i, n, n + 0)
  BY DEF IsGlobal, Takes
<1>2. i \in Nat /\ i < Byte * Byte * Byte  BY DEF IsGlobal
<1>3. Grows(K, A, low + 1, OperandCode("SETGLOBAL", i), 0)
  BY <1>1, <1>2, OperandGrows
<1>4. Grows(K, A, low, e \o OperandCode("SETGLOBAL", i), 1 + 0)
  BY <1>3, GrowsAfter DEF Expression
<1>. QED  BY <1>4 DEF Expression, AssignName

(* A slot of the frame that is read (parser.c:708-713).                    *)
LEMMA LoadSlotAdds ==
  ASSUME NEW K, NEW A, {"LOADLOCAL", "WIDE"} \subseteq A,
         NEW low \in Nat, NEW i \in 1 .. low, i < Byte * Byte * Byte
  PROVE  Expression(K, A, low, LoadSlot(i))
<1>1. \A n \in Nat : n > low => Takes(K, "LOADLOCAL", i, n, n + 1)
  BY DEF Takes
<1>2. i \in Nat  OBVIOUS
<1>. QED  BY <1>1, <1>2, OperandGrows DEF Expression, LoadSlot

(* A slot that is assigned, the value's own at most (parser.c:721-726).    *)
LEMMA AssignSlotAdds ==
  ASSUME NEW K, NEW A, {"SETLOCAL", "WIDE"} \subseteq A,
         NEW low \in Nat, NEW i \in 1 .. low + 1, i < Byte * Byte * Byte,
         NEW e, Expression(K, A, low, e)
  PROVE  Expression(K, A, low, AssignSlot(i, e))
<1>1. \A n \in Nat : n > low + 1 => Takes(K, "SETLOCAL", i, n, n + 0)
  BY DEF Takes
<1>2. i \in Nat  OBVIOUS
<1>3. Grows(K, A, low + 1, OperandCode("SETLOCAL", i), 0)
  BY <1>1, <1>2, OperandGrows
<1>4. Grows(K, A, low, e \o OperandCode("SETLOCAL", i), 1 + 0)
  BY <1>3, GrowsAfter DEF Expression
<1>. QED  BY <1>4 DEF Expression, AssignSlot

(* A call: its arguments, one cell each, are above the callee, and the     *)
(* result is in the callee's place, for as many arguments as a byte holds  *)
(* (parser.c:733-772, vm.c:163-175).                                       *)
THEOREM CallAdds ==
  ASSUME NEW K, NEW A, "CALL" \in A, NEW low \in Nat, NEW callee,
         Expression(K, A, low, callee), NEW args, args.count \in 0 .. MaxByte,
         Grows(K, A, low + 1, args.code, args.count)
  PROVE  Expression(K, A, low, CallCode(callee, args))
<1>. DEFINE count == args.count
            call == <<Opcode("CALL"), count>>
<1>1. count \in Nat /\ count \in 0 .. MaxByte  OBVIOUS
<1>. HIDE DEF count
<1>2. Grows(K, A, low, callee \o args.code, 1 + count)
  BY <1>1, GrowsAfter DEF Expression, count
<1>3. ASSUME NEW n \in Nat, n > low
      PROVE  Phrase(K, A, (callee \o args.code) \o call, n, n + 1)
  <2>1. Phrase(K, A, callee \o args.code, n, n + (1 + count))
    BY <1>2, <1>3 DEF Grows
  <2>2. Takes(K, "CALL", count, n + (1 + count), n + 1)
    BY <1>1, <1>3 DEF Takes
  <2>3. n + (1 + count) \in Nat \ {0} /\ n + 1 \in Nat  BY <1>1
  <2>4. Phrase(K, A, call, n + (1 + count), n + 1)
    BY <1>1, <2>2, <2>3, NarrowFlows
  <2>. QED  BY <2>1, <2>4, After
<1>. QED  BY <1>3 DEF Expression, Grows, CallCode, count

(* An operator before its operand (parser.c:816-846).                      *)
LEMMA UnaryAdds ==
  ASSUME NEW K, NEW A, NEW op \in A, op \in {"NEG", "NOT"}, NEW low \in Nat,
         NEW a, Expression(K, A, low, a)
  PROVE  Expression(K, A, low, UnaryCode(op, a))
<1>1. ASSUME NEW n \in Nat, n > low  PROVE Phrase(K, A, a \o Emit(op), n, n + 1)
  <2>1. Phrase(K, A, a, n, n + 1)  BY <1>1 DEF Expression, Grows
  <2>2. n + 1 \in Nat \ {0} /\ n + 1 >= 2  BY <1>1
  <2>3. Phrase(K, A, Emit(op), n + 1, n + 1)  BY <2>2, Simple
  <2>. QED  BY <2>1, <2>3, After
<1>. QED  BY <1>1 DEF Expression, Grows, UnaryCode

(* An operator between its operands; `!=` is two (parser.c:774-814).       *)
LEMMA BinaryAdds ==
  ASSUME NEW K, NEW A, NEW op, NEW low \in Nat, NEW a, Expression(K, A, low, a),
         NEW b, Expression(K, A, low + 1, b),
         IF op = "NEQ" THEN {"EQ", "NOT"} \subseteq A ELSE op \in BinaryOps \cap A
  PROVE  Expression(K, A, low, BinaryCode(op, a, b))
<1>. DEFINE last == IF op = "NEQ" THEN Emit("EQ") \o Emit("NOT") ELSE Emit(op)
<1>1. ASSUME NEW n \in Nat, n > low  PROVE Phrase(K, A, last, n + 2, n + 1)
  <2>1. n + 2 \in Nat \ {0} /\ n + 2 >= 3 /\ n + 1 = n + 2 - 1
        /\ n + 1 \in Nat \ {0} /\ n + 1 >= 2
    BY <1>1
  <2>2. ASSUME NEW o \in BinaryOps \cap A  PROVE Phrase(K, A, Emit(o), n + 2, n + 1)
    BY <2>1, Simple
  <2>3. CASE op = "NEQ"
    <3>1. "EQ" \in BinaryOps  BY DEF BinaryOps, ComparisonOps
    <3>2. Phrase(K, A, Emit("EQ"), n + 2, n + 1)  BY <2>2, <2>3, <3>1
    <3>3. Phrase(K, A, Emit("NOT"), n + 1, n + 1)  BY <2>1, <2>3, Simple
    <3>. QED  BY <2>3, <3>2, <3>3, After
  <2>4. CASE op # "NEQ"  BY <2>2, <2>4
  <2>. QED  BY <2>3, <2>4
<1>. HIDE DEF last
<1>2. Grows(K, A, low, a \o b, 1 + 1)  BY GrowsAfter DEF Expression
<1>3. ASSUME NEW n \in Nat, n > low  PROVE Phrase(K, A, (a \o b) \o last, n, n + 1)
  <2>1. Phrase(K, A, a \o b, n, n + 2)
    <3>1. 1 + 1 = 2  OBVIOUS
    <3>. QED  BY <1>2, <1>3, <3>1 DEF Grows
  <2>2. Phrase(K, A, last, n + 2, n + 1)  BY <1>1, <1>3
  <2>. QED  BY <2>1, <2>2, After
<1>. QED  BY <1>3 DEF Expression, Grows, BinaryCode, last

(* What holds of small frames holds of large ones.                         *)
LEMMA GrowsAbove ==
  ASSUME NEW K, NEW A, NEW low \in Nat, NEW high \in Nat, low <= high,
         NEW c, NEW d, Grows(K, A, low, c, d)
  PROVE  Grows(K, A, high, c, d)
BY DEF Grows

(* No arguments add nothing (parser.c:735-740).                            *)
LEMMA NoArgsAdd ==
  ASSUME NEW K, NEW A, NEW low \in Nat
  PROVE  NoArgs.count = 0 /\ Grows(K, A, low, NoArgs.code, NoArgs.count)
BY NoCode DEF NoArgs, Grows

(* An argument adds a cell (parser.c:742-764).                             *)
LEMMA ArgAdds ==
  ASSUME NEW K, NEW A, NEW low \in Nat, NEW e, Expression(K, A, low, e)
  PROVE  Arg(e).count = 1 /\ Grows(K, A, low, Arg(e).code, Arg(e).count)
BY DEF Arg, Expression

(* An instruction behind a value.                                          *)
LEMMA ValueThen ==
  ASSUME NEW K, NEW A, NEW op \in A, NEW low \in Nat,
         NEW e, Expression(K, A, low, e), NEW n \in Nat, n > low,
         NEW m \in Nat,
         \/ op \in {"PRINT", "POP"} /\ m = n
         \/ op = "RETURN" /\ m = 0
  PROVE  Phrase(K, A, e \o Emit(op), n, m)
<1>1. Phrase(K, A, e, n, n + 1)  BY DEF Expression, Grows
<1>2. n + 1 \in Nat \ {0} /\ n + 1 >= 2 /\ n = n + 1 - 1  OBVIOUS
<1>3. Phrase(K, A, Emit(op), n + 1, m)  BY <1>2, Simple
<1>. QED  BY <1>1, <1>3, After

(* A value that is printed or dropped (parser.c:441-446, 633-645).         *)
LEMMA ExprStatKeeps ==
  ASSUME NEW K, NEW A, {"PRINT", "POP"} \subseteq A, NEW low \in Nat,
         NEW e, Expression(K, A, low, e), NEW repl \in BOOLEAN
  PROVE  Statement(K, A, low, ExprStat(e, repl)) /\ Statement(K, A, low, PrintStat(e))
<1>1. ASSUME NEW op \in {"PRINT", "POP"}, NEW n \in Nat, n > low
      PROVE  Phrase(K, A, e \o Emit(op), n, n + 0)
  <2>1. n + 0 = n  OBVIOUS
  <2>. QED  BY <1>1, <2>1, ValueThen
<1>. QED  BY <1>1 DEF Statement, Grows, ExprStat, PrintStat

(* What is behind a return is not reached (parser.c:507-521).              *)
LEMMA ReturnEnds ==
  ASSUME NEW K, NEW A, "RETURN" \in A, NEW low \in Nat, NEW e, Expression(K, A, low, e)
  PROVE  Ends(K, A, low, ReturnStat(e))
BY ValueThen DEF Ends, ReturnStat

(* A global variable that is declared by def_var alone, as a function is:  *)
(* as many cells as before (parser.c:244-255, 523-533).                    *)
LEMMA DefVarKeeps ==
  ASSUME NEW K, Len(K) \in Nat, NEW A, {"SETGLOBAL", "WIDE", "POP"} \subseteq A,
         NEW low \in Nat, NEW i, IsGlobal(K, i), NEW e, Expression(K, A, low, e)
  PROVE  Statement(K, A, low, DefVar(e, i))
<1>1. Expression(K, A, low, AssignName(i, e))  BY AssignNameAdds
<1>2. ASSUME NEW n \in Nat, n > low
      PROVE  Phrase(K, A, AssignName(i, e) \o Emit("POP"), n, n + 0)
  <2>1. n + 0 = n  OBVIOUS
  <2>. QED  BY <1>1, <1>2, <2>1, ValueThen
<1>. QED  BY <1>2 DEF Statement, Grows, DefVar

(* So does the declaration of a function (parser.c:523-533).               *)
LEMMA FunDeclKeeps ==
  ASSUME NEW K, Len(K) \in Nat, NEW A, NEW low \in Nat, NEW i, IsGlobal(K, i),
         NEW function, IsLiteral(K, function),
         {"CONSTANT", "CONSTANT_LONG", "SETGLOBAL", "WIDE", "POP"} \subseteq A
  PROVE  Statement(K, A, low, FunDeclStat(i, function))
BY LiteralAdds, DefVarKeeps DEF FunDeclStat

(* But `set` takes a cell that is not its own: there is no such code where *)
(* a script begins, with nothing but itself on the stack                   *)
(* (parser.c:419-439).                                                     *)
THEOREM VarDeclTakesACell ==
  ASSUME NEW K, Len(K) \in Nat, NEW A, {"SETGLOBAL", "WIDE", "POP"} \subseteq A,
         NEW low \in Nat, NEW i, IsGlobal(K, i), NEW e, Expression(K, A, low, e),
         NEW n \in Nat, n > low, n >= 2
  PROVE  Phrase(K, A, VarDeclStat(i, e), n, n - 1)
<1>1. Phrase(K, A, DefVar(e, i), n, n)
  <2>1. n + 0 = n  OBVIOUS
  <2>. QED  BY <2>1, DefVarKeeps DEF Statement, Grows
<1>2. n \in Nat \ {0} /\ n - 1 \in Nat  OBVIOUS
<1>3. Phrase(K, A, Emit("POP"), n, n - 1)  BY <1>2, Simple
<1>. QED  BY <1>1, <1>3, After DEF VarDeclStat

(* One statement behind another.                                           *)
LEMMA StatementsKeep ==
  ASSUME NEW K, NEW A, NEW low \in Nat, NEW a, NEW b,
         Statement(K, A, low, a), Statement(K, A, low, b)
  PROVE  Statement(K, A, low, a \o b)
<1>1. Grows(K, A, low + 0, b, 0)
  <2>1. low + 0 = low  OBVIOUS
  <2>. QED  BY <2>1 DEF Statement
<1>2. Grows(K, A, low, a \o b, 0 + 0)
  BY <1>1, GrowsAfter DEF Statement
<1>. QED  BY <1>2 DEF Statement

(* Code ends if what it goes on with ends.                                 *)
LEMMA EndsAfter ==
  ASSUME NEW K, NEW A, NEW low \in Nat, NEW a, NEW d \in Nat, NEW b,
         Grows(K, A, low, a, d), Ends(K, A, low + d, b)
  PROVE  Ends(K, A, low, a \o b)
<1>. SUFFICES ASSUME NEW n \in Nat, n > low  PROVE Phrase(K, A, a \o b, n, 0)
  BY DEF Ends
<1>1. Phrase(K, A, a, n, n + d)  BY DEF Grows
<1>2. n + d \in Nat /\ n + d > low + d  OBVIOUS
<1>3. Phrase(K, A, b, n + d, 0)  BY <1>2 DEF Ends
<1>. QED  BY <1>1, <1>3, After

(* What is behind code that ends is not reached, and may be anything.      *)
LEMMA EndsBefore ==
  ASSUME NEW K, NEW A, NEW low \in Nat, NEW a, NEW b \in Seq(0 .. MaxByte),
         Ends(K, A, low, a)
  PROVE  Ends(K, A, low, a \o b)
BY Unreached, After DEF Ends

(* Code that ends leaves as many cells as anyone likes.                    *)
LEMMA EndsIsStatement ==
  ASSUME NEW K, NEW A, NEW low \in Nat, NEW a, Ends(K, A, low, a)
  PROVE  Statement(K, A, low, a)
<1>. SUFFICES ASSUME NEW n \in Nat, n > low  PROVE Phrase(K, A, a, n, n + 0)
  BY DEF Statement, Grows
<1>1. n # 0 /\ n + 0 \in Nat /\ Phrase(K, A, a, n, 0)  BY DEF Ends
<1>. QED  BY <1>1, NeverEnding

(* As many pops as there are cells to drop.                                *)
LEMMA PopsDrop ==
  ASSUME NEW K, NEW A, "POP" \in A, NEW k \in Nat, NEW n \in Nat \ {0}
  PROVE  Phrase(K, A, Pops(k), n + k, n)
<1>. DEFINE c == Pops(k)
<1>1. Opcode("POP") \in 0 .. MaxByte /\ OpNames[Opcode("POP") + 1] = "POP"
  BY Decoded DEF Instructions
<1>2. c \in Seq(0 .. MaxByte) /\ Len(c) = k /\ \A i \in 1 .. k : c[i] = Opcode("POP")
  BY <1>1 DEF Pops
<1>. HIDE DEF c
<1>. SUFFICES ASSUME NEW fs, NEW f, NEW o, Contains(fs[f].code, o, c)
              PROVE  \E h : Leads(fs, f, A, h, o, o + Len(c), n + k, n)
  BY <1>2, Zenon DEF Phrase, c
<1>. DEFINE code == fs[f].code
            e == o + k
            D == (o .. e) \X {FALSE}
            h == [p \in D |-> n + (e - p[1])]
<1>3. /\ o \in Nat /\ Len(code) \in Nat /\ e <= Len(code)
      /\ \A i \in 1 .. k : code[o + i] = Opcode("POP")
  BY <1>2 DEF Contains
<1>4. e \in Nat /\ o <= e  BY <1>3
<1>. HIDE DEF code
<1>5. ASSUME NEW ip \in o .. e  PROVE GoesTo(h, ip, n + (e - ip))
  BY DEF GoesTo
<1>6. DOMAIN h = D /\ \A p \in D : p[1] \in o .. e /\ p[2] = FALSE
  <2>1. DOMAIN h = D  OBVIOUS
  <2>2. ASSUME NEW p \in D  PROVE p[1] \in o .. e /\ p[2] = FALSE
    <3>. HIDE DEF e
    <3>. QED  OBVIOUS
  <2>. QED  BY <2>1, <2>2
<1>7. \A p \in D : h[p] = n + (e - p[1])
  OBVIOUS
<1>8. DOMAIN h \subseteq (o .. e) \X BOOLEAN
  OBVIOUS
<1>9. h \in [DOMAIN h -> Nat \ {0}]
  <2>1. \A ip \in o .. e : n + (e - ip) \in Nat \ {0}  BY <1>3, <1>4
  <2>. QED  BY <1>6, <2>1
<1>. HIDE DEF h, D
<1>10. ASSUME NEW p \in D, p[1] # e  PROVE Sound(fs, f, A, h, p)
  <2>. DEFINE ip == p[1]
  <2>1. ip \in o .. e /\ ip # e /\ p[2] = FALSE  BY <1>6, <1>10
  <2>. HIDE DEF ip
  <2>2. PICK i \in 1 .. k : o + i = ip + 1
    <3>1. ip + 1 - o \in 1 .. k /\ o + (ip + 1 - o) = ip + 1
      BY <1>3, <1>4, <2>1 DEF e
    <3>. QED  BY <3>1
  <2>3. OpAt(code, ip) = "POP"
    BY <1>1, <1>3, <2>2 DEF OpAt, ByteAt
  <2>4. NextAt(code, p) = ip + 1
    BY <2>1, <2>3 DEF NextAt, InstructionLength, NamedOps, JumpOps, ip
  <2>5. ip + 1 \in o .. e /\ ip + 1 <= Len(code)  BY <1>3, <1>4, <2>1
  <2>6. h[p] = n + (e - ip)  BY <1>7 DEF ip
  <2>7. h[p] >= 2 /\ h[p] - 1 = n + (e - (ip + 1))
    BY <1>3, <1>4, <2>1, <2>6
  <2>8. GoesTo(h, ip + 1, h[p] - 1)
    BY <1>5, <2>5, <2>7
  <2>9. Flows(fs, f, h, p)
    BY <2>3, <2>4, <2>7, <2>8, SMT
       DEF Flows, code, ip, BinaryOps, ArithmeticOps, ComparisonOps, LogicOps
  <2>. QED  BY <2>3, <2>4, <2>5, <2>9 DEF Sound, code, ip
<1>11. Piece(fs, f, A, h, o, e, {e})
  <2>1. {e} \subseteq o .. e  BY <1>4
  <2>. QED  BY <1>3, <1>4, <1>6, <1>8, <1>9, <1>10, <2>1 DEF Piece
<1>12. At(h, o, n + k) /\ At(h, e, n)
  <2>1. o \in o .. e /\ e \in o .. e /\ n + (e - o) = n + k /\ n + (e - e) = n
        /\ n # 0 /\ n + k # 0
    BY <1>3, <1>4
  <2>. QED  BY <1>5, <2>1 DEF At
<1>. QED  BY <1>2, <1>11, <1>12 DEF Leads, e

(* A scope: what it declares it also drops (parser.c:450-476).             *)
THEOREM ScopeKeeps ==
  ASSUME NEW K, NEW A, "POP" \in A, NEW low \in Nat, NEW locals \in Nat,
         NEW body, Grows(K, A, low, body, locals)
  PROVE  Statement(K, A, low, ScopeStat(body, locals))
<1>1. ASSUME NEW n \in Nat, n > low
      PROVE  Phrase(K, A, body \o Pops(locals), n, n + 0)
  <2>1. Phrase(K, A, body, n, n + locals)  BY <1>1 DEF Grows
  <2>2. n \in Nat \ {0} /\ n + 0 = n  BY <1>1
  <2>3. Phrase(K, A, Pops(locals), n + locals, n)  BY <2>2, PopsDrop
  <2>. QED  BY <2>1, <2>2, <2>3, After
<1>. QED  BY <1>1 DEF Statement, Grows, ScopeStat

(* Where a map goes, a larger one does; and where it does not, it adds     *)
(* nothing to another.                                                     *)
LEMMA GoesLarger ==
  ASSUME NEW h, NEW g, Extends(g, h), NEW ip, NEW n, At(h, ip, n), n # 0
  PROVE  GoesTo(g, ip, n)
BY DEF At, GoesTo, Extends

(* A map has places in its stretch of the code only.                       *)
LEMMA PlacesInside ==
  ASSUME NEW fs, NEW f, NEW A, NEW h, NEW lo, NEW hi, NEW X,
         Piece(fs, f, A, h, lo, hi, X), NEW ip, <<ip, FALSE>> \in DOMAIN h
  PROVE  ip \in lo .. hi
BY DEF Piece

(* if: both alternatives leave what they leave (parser.c:612-631).         *)
LEMMA IfLeads ==
  ASSUME NEW K, NEW A, {"JMPF", "JMP"} \subseteq A, NEW n \in Nat \ {0}, NEW m \in Nat,
         NEW c, Phrase(K, A, c, n, n + 1),
         NEW then, Phrase(K, A, then, n, m), NEW else, Phrase(K, A, else, n, m),
         Len(then) + 3 <= MaxShort, Len(else) <= MaxShort
  PROVE  Phrase(K, A, IfStat(c, then, else), n, m)
<1>. DEFINE J2 == JumpOver("JMP", else)
            taken == then \o J2
            J1 == JumpOver("JMPF", taken)
            two == c \o J1
            three == two \o taken
            all == three \o else
<1>1. /\ c \in Seq(0 .. MaxByte) /\ then \in Seq(0 .. MaxByte)
      /\ else \in Seq(0 .. MaxByte)
  BY Zenon DEF Phrase
<1>2. Len(c) \in Nat /\ Len(then) \in Nat /\ Len(else) \in Nat  BY <1>1
<1>3. IsJump("JMP", J2, Len(else))
  BY <1>1, JumpOverIsJump DEF JumpOps
<1>4. J2 \in Seq(0 .. MaxByte) /\ Len(J2) = 3  BY <1>3 DEF IsJump
<1>. HIDE DEF J2
<1>5. taken \in Seq(0 .. MaxByte) /\ Len(taken) = Len(then) + 3
  <2>1. taken \in Seq(0 .. MaxByte) /\ Len(taken) = Len(then) + Len(J2)
    BY <1>1, <1>4, Concatenated, Zenon
  <2>. QED  BY <1>4, <2>1
<1>6. IsJump("JMPF", J1, Len(then) + 3)
  <2>1. Len(taken) <= MaxShort /\ taken \in Seq(0 .. MaxByte)  BY <1>5
  <2>. HIDE DEF taken
  <2>2. IsJump("JMPF", J1, Len(taken))
    BY <2>1, JumpOverIsJump DEF JumpOps
  <2>. QED  BY <1>5, <2>2
<1>7. J1 \in Seq(0 .. MaxByte) /\ Len(J1) = 3  BY <1>6 DEF IsJump
<1>. HIDE DEF J1
<1>8. IfStat(c, then, else) = all  BY DEF IfStat, J1, J2
<1>9. two \in Seq(0 .. MaxByte) /\ three \in Seq(0 .. MaxByte)
      /\ all \in Seq(0 .. MaxByte)
  BY <1>1, <1>5, <1>7, Concatenated, Zenon
<1>0. /\ Splits(taken, then, J2) /\ Splits(two, c, J1)
      /\ Splits(three, two, taken) /\ Splits(all, three, else)
  BY <1>1, <1>4, <1>5, <1>7, <1>9 DEF Splits
<1>. HIDE DEF taken, two, three, all
<1>. SUFFICES ASSUME NEW fs, NEW f, NEW o, fs[Script].constants = K,
                     Contains(fs[f].code, o, all)
              PROVE  \E h : Leads(fs, f, A, h, o, o + Len(all), n, m)
  BY <1>8, <1>9, Zenon DEF Phrase, all
<1>. DEFINE code == fs[f].code
            a == o + Len(c)
            b == a + 3 + Len(then)
            z == b + 3 + Len(else)
<1>10. /\ Contains(code, o, c) /\ Contains(code, a, J1) /\ Contains(code, a + 3, then)
       /\ Contains(code, b, J2) /\ Contains(code, b + 3, else)
       /\ o \in Nat /\ o + Len(all) = z
  <2>0. Contains(code, o, all)  OBVIOUS
  <2>. HIDE DEF code, a, b, z
  <2>1. /\ Contains(code, o, three) /\ Contains(code, o + Len(three), else)
        /\ o + Len(all) = o + Len(three) + Len(else) /\ o \in Nat
    BY <1>0, <2>0, ContainsBoth
  <2>2. /\ Contains(code, o, two) /\ Contains(code, o + Len(two), taken)
        /\ o + Len(three) = o + Len(two) + Len(taken)
    BY <1>0, <2>1, ContainsBoth
  <2>3. /\ Contains(code, o, c) /\ Contains(code, o + Len(c), J1)
        /\ o + Len(two) = o + Len(c) + Len(J1)
    BY <1>0, <2>2, ContainsBoth
  <2>4. o + Len(two) = a + 3  BY <1>7, <2>3 DEF a
  <2>5. /\ Contains(code, a + 3, then) /\ Contains(code, a + 3 + Len(then), J2)
    BY <1>0, <2>2, <2>4, ContainsBoth
  <2>6. a \in Nat /\ o + Len(three) = b + 3
    BY <1>2, <1>5, <2>1, <2>2, <2>4 DEF a, b
  <2>. QED  BY <2>1, <2>3, <2>5, <2>6 DEF a, b, z
<1>11. PICK hc : Leads(fs, f, A, hc, o, a, n, n + 1)
  BY <1>10, PhraseAt, Zenon
<1>12. PICK ht : Leads(fs, f, A, ht, a + 3, b, n, m)
  BY <1>10, PhraseAt, Zenon
<1>13. PICK he : Leads(fs, f, A, he, b + 3, z, n, m)
  BY <1>10, PhraseAt, Zenon
<1>14. /\ a \in Nat /\ b \in Nat /\ z \in Nat /\ o <= a /\ a + 3 <= b /\ b + 3 <= z
       /\ a + 3 \in Nat /\ b + 3 \in Nat /\ a < a + 3 /\ b < b + 3 /\ a < b /\ o <= b
  BY <1>2, <1>10
<1>15. /\ a + 3 + (Len(then) + 3) = b + 3 /\ b + 3 + Len(else) = z
  BY <1>2, <1>14
<1>. HIDE DEF code, a, b, z
<1>. DEFINE k == Joined(hc, ht)
            j == Joined(k, he)
<1>. HIDE DEF k, j
<1>16. /\ Piece(fs, f, A, k, o, b, {a} \cup {b}) /\ Extends(k, hc) /\ Extends(k, ht)
       /\ DOMAIN k = DOMAIN hc \cup DOMAIN ht
  <2>1. /\ Piece(fs, f, A, hc, o, a, {a}) /\ Piece(fs, f, A, ht, a + 3, b, {b})
    BY <1>11, <1>12 DEF Leads
  <2>2. a < a + 3  BY <1>14
  <2>3. /\ Piece(fs, f, A, Joined(hc, ht), o, b, {a} \cup {b})
        /\ Extends(Joined(hc, ht), hc) /\ Extends(Joined(hc, ht), ht)
    BY <2>1, <2>2, Glued
  <2>4. DOMAIN Joined(hc, ht) = DOMAIN hc \cup DOMAIN ht  BY DEF Joined
  <2>. QED  BY <2>3, <2>4, Zenon DEF k
<1>17. /\ Piece(fs, f, A, j, o, z, ({a} \cup {b}) \cup {z}) /\ Extends(j, k) /\ Extends(j, he)
       /\ DOMAIN j = DOMAIN k \cup DOMAIN he
  <2>1. /\ Piece(fs, f, A, k, o, b, {a} \cup {b}) /\ Piece(fs, f, A, he, b + 3, z, {z})
    BY <1>13, <1>16 DEF Leads
  <2>2. b < b + 3  BY <1>14
  <2>3. /\ Piece(fs, f, A, Joined(k, he), o, z, ({a} \cup {b}) \cup {z})
        /\ Extends(Joined(k, he), k) /\ Extends(Joined(k, he), he)
    BY <2>1, <2>2, Glued
  <2>4. DOMAIN Joined(k, he) = DOMAIN k \cup DOMAIN he  BY DEF Joined
  <2>. QED  BY <2>3, <2>4, Zenon DEF j
<1>18. Extends(j, hc) /\ Extends(j, ht)
  BY <1>16, <1>17 DEF Extends
<1>19. /\ GoesTo(j, o, n) /\ GoesTo(j, a, n + 1) /\ GoesTo(j, a + 3, n)
       /\ GoesTo(j, b + 3, n) /\ (m # 0 => GoesTo(j, b, m) /\ GoesTo(j, z, m))
  <2>1. n # 0 /\ n + 1 # 0  OBVIOUS
  <2>. QED  BY <1>11, <1>12, <1>13, <1>17, <1>18, <2>1, GoesLarger DEF Leads
<1>20. m = 0 => <<b, FALSE>> \notin DOMAIN j /\ <<z, FALSE>> \notin DOMAIN j
  <2>. SUFFICES ASSUME m = 0
                PROVE  <<b, FALSE>> \notin DOMAIN j /\ <<z, FALSE>> \notin DOMAIN j
    OBVIOUS
  <2>1. <<b, FALSE>> \notin DOMAIN ht /\ <<z, FALSE>> \notin DOMAIN he
    BY <1>12, <1>13 DEF Leads, At
  <2>2. b \notin o .. a /\ b \notin b + 3 .. z /\ z \notin o .. a /\ z \notin a + 3 .. b
    BY <1>14
  <2>3. /\ <<b, FALSE>> \notin DOMAIN hc /\ <<z, FALSE>> \notin DOMAIN hc
        /\ <<z, FALSE>> \notin DOMAIN ht /\ <<b, FALSE>> \notin DOMAIN he
    BY <1>11, <1>12, <1>13, <2>2, PlacesInside DEF Leads
  <2>. QED  BY <1>16, <1>17, <2>1, <2>3
<1>21. Sound(fs, f, A, j, <<a, FALSE>>)
  <2>1. j[<<a, FALSE>>] = n + 1  BY <1>19 DEF GoesTo
  <2>2. Contains(fs[f].code, a, J1)  BY <1>10 DEF code
  <2>3. GoesTo(j, a + 3, n) /\ GoesTo(j, a + 3 + (Len(then) + 3), n)
    BY <1>15, <1>19
  <2>. QED  BY <1>6, <2>1, <2>2, <2>3, JumpFalseSound
<1>22. <<b, FALSE>> \in DOMAIN j => Sound(fs, f, A, j, <<b, FALSE>>)
  <2>. SUFFICES ASSUME <<b, FALSE>> \in DOMAIN j
                PROVE  Sound(fs, f, A, j, <<b, FALSE>>)
    OBVIOUS
  <2>1. GoesTo(j, b, m) /\ GoesTo(j, b + 3 + Len(else), m)
    BY <1>15, <1>19, <1>20
  <2>2. j[<<b, FALSE>>] = m  BY <2>1 DEF GoesTo
  <2>3. Contains(fs[f].code, b, J2)  BY <1>10 DEF code
  <2>. QED  BY <1>3, <2>1, <2>2, <2>3, JumpSound DEF JumpOps
<1>23. Piece(fs, f, A, j, o, z, {z})
  <2>1. Piece(fs, f, A, j, o, z, (({a} \cup {b}) \cup {z}) \ {a})
    BY <1>17, <1>21, Closed
  <2>2. Piece(fs, f, A, j, o, z, ((({a} \cup {b}) \cup {z}) \ {a}) \ {b})
    BY <1>22, <2>1, Closed
  <2>3. ((({a} \cup {b}) \cup {z}) \ {a}) \ {b} = {z}
    <3>1. a # z /\ b # z  BY <1>14
    <3>. QED  BY <3>1
  <2>. QED  BY <2>2, <2>3
<1>24. At(j, o, n) /\ At(j, z, m)
  BY <1>19, <1>20 DEF At
<1>. QED  BY <1>10, <1>23, <1>24 DEF Leads

(* An if leaves as many cells as before if its alternatives do, and ends   *)
(* if they both end.                                                       *)
THEOREM IfKeeps ==
  ASSUME NEW K, NEW A, {"JMPF", "JMP"} \subseteq A, NEW low \in Nat,
         NEW c, Expression(K, A, low, c), NEW then, NEW else,
         Len(then) + 3 <= MaxShort, Len(else) <= MaxShort
  PROVE  /\ Statement(K, A, low, then) /\ Statement(K, A, low, else)
              => Statement(K, A, low, IfStat(c, then, else))
         /\ Ends(K, A, low, then) /\ Ends(K, A, low, else)
              => Ends(K, A, low, IfStat(c, then, else))
<1>1. ASSUME NEW n \in Nat, n > low, NEW m \in Nat,
             Phrase(K, A, then, n, m), Phrase(K, A, else, n, m)
      PROVE  Phrase(K, A, IfStat(c, then, else), n, m)
  <2>1. n \in Nat \ {0} /\ Phrase(K, A, c, n, n + 1)  BY <1>1 DEF Expression, Grows
  <2>. QED  BY <1>1, <2>1, IfLeads
<1>2. ASSUME Statement(K, A, low, then), Statement(K, A, low, else)
      PROVE  Statement(K, A, low, IfStat(c, then, else))
  <2>1. \A n \in Nat : n + 0 \in Nat  OBVIOUS
  <2>. QED  BY <1>1, <1>2, <2>1 DEF Statement, Grows
<1>3. ASSUME Ends(K, A, low, then), Ends(K, A, low, else)
      PROVE  Ends(K, A, low, IfStat(c, then, else))
  BY <1>1, <1>3 DEF Ends
<1>. QED  BY <1>2, <1>3

(* while: each time the condition is reached, there are as many cells      *)
(* (parser.c:548-565).                                                     *)
LEMMA WhileLeads ==
  ASSUME NEW K, NEW A, {"JMPF", "NJMP"} \subseteq A, NEW n \in Nat \ {0},
         NEW m \in {0, n}, NEW c, Phrase(K, A, c, n, n + 1),
         NEW body, Phrase(K, A, body, n, m), Len(c) + Len(body) + 6 <= MaxShort
  PROVE  Phrase(K, A, WhileStat(c, body), n, n)
<1>. DEFINE back == c \o JumpCode("JMPF") \o body
            B == BackwardJump(back)
            loop == body \o B
            J == JumpOver("JMPF", loop)
            two == c \o J
            all == two \o loop
            d == Len(c) + Len(body) + 6
<1>1. c \in Seq(0 .. MaxByte) /\ body \in Seq(0 .. MaxByte)
  BY Zenon DEF Phrase
<1>2. Len(c) \in Nat /\ Len(body) \in Nat  BY <1>1
<1>3. back \in Seq(0 .. MaxByte) /\ Len(back) + 3 = d
  <2>1. Opcode("JMPF") \in 0 .. MaxByte  BY Decoded DEF Instructions
  <2>0. MaxByte \in 0 .. MaxByte  BY BytecodeAssumption DEF MaxByte, OpNames
  <2>2. JumpCode("JMPF") \in Seq(0 .. MaxByte) /\ Len(JumpCode("JMPF")) = 3
    BY <2>0, <2>1 DEF JumpCode
  <2>3. /\ c \o JumpCode("JMPF") \in Seq(0 .. MaxByte)
        /\ Len(c \o JumpCode("JMPF")) = Len(c) + Len(JumpCode("JMPF"))
    BY <1>1, <2>2, Concatenated, Zenon
  <2>4. /\ back \in Seq(0 .. MaxByte)
        /\ Len(back) = Len(c \o JumpCode("JMPF")) + Len(body)
    BY <1>1, <2>3, Concatenated, Zenon
  <2>. HIDE DEF back
  <2>5. Len(back) + 3 = Len(c) + Len(body) + 6
    <3>. DEFINE x == Len(c \o JumpCode("JMPF"))
    <3>1. x = Len(c) + 3 /\ Len(back) = x + Len(body)
      BY <2>2, <2>3, <2>4, Zenon
    <3>. HIDE DEF x
    <3>. QED  BY <1>2, <3>1
  <2>. QED  BY <2>4, <2>5
<1>. HIDE DEF back
<1>4. IsJump("NJMP", B, d)
  BY <1>3, BackwardJumpIsJump
<1>5. B \in Seq(0 .. MaxByte) /\ Len(B) = 3  BY <1>4 DEF IsJump
<1>. HIDE DEF B
<1>6. loop \in Seq(0 .. MaxByte) /\ Len(loop) = Len(body) + 3
  <2>1. loop \in Seq(0 .. MaxByte) /\ Len(loop) = Len(body) + Len(B)
    BY <1>1, <1>5, Concatenated, Zenon
  <2>. QED  BY <1>5, <2>1
<1>. HIDE DEF loop
<1>7. IsJump("JMPF", J, Len(body) + 3)
  <2>1. Len(loop) <= MaxShort
    <3>1. MaxShort \in Int  BY BytecodeAssumption DEF MaxShort
    <3>. QED  BY <1>2, <1>6, <3>1
  <2>2. IsJump("JMPF", J, Len(loop))
    BY <1>6, <2>1, JumpOverIsJump DEF JumpOps
  <2>. QED  BY <1>6, <2>2
<1>8. J \in Seq(0 .. MaxByte) /\ Len(J) = 3  BY <1>7 DEF IsJump
<1>. HIDE DEF J
<1>9. two \in Seq(0 .. MaxByte) /\ all \in Seq(0 .. MaxByte)
  BY <1>1, <1>6, <1>8, Concatenated, Zenon
<1>10. WhileStat(c, body) = all
  BY DEF WhileStat, J, loop, B, back
<1>11. Splits(loop, body, B) /\ Splits(two, c, J) /\ Splits(all, two, loop)
  BY <1>1, <1>5, <1>6, <1>8, <1>9 DEF Splits, loop
<1>. HIDE DEF two, all
<1>. SUFFICES ASSUME NEW fs, NEW f, NEW o, fs[Script].constants = K,
                     Contains(fs[f].code, o, all)
              PROVE  \E h : Leads(fs, f, A, h, o, o + Len(all), n, n)
  BY <1>9, <1>10, Zenon DEF Phrase
<1>. DEFINE code == fs[f].code
            a == o + Len(c)
            b == a + 3 + Len(body)
            z == b + 3
<1>12. /\ Contains(code, o, c) /\ Contains(code, a, J) /\ Contains(code, a + 3, body)
       /\ Contains(code, b, B) /\ Contains(code, z, <<>>)
       /\ o \in Nat /\ o + Len(all) = z
  <2>0. Contains(code, o, all)  OBVIOUS
  <2>. HIDE DEF code, a, b, z
  <2>1. /\ Contains(code, o, two) /\ Contains(code, o + Len(two), loop)
        /\ o + Len(all) = o + Len(two) + Len(loop) /\ o \in Nat /\ Len(code) \in Nat
    BY <1>11, <2>0, ContainsBoth
  <2>2. /\ Contains(code, o, c) /\ Contains(code, o + Len(c), J)
        /\ o + Len(two) = o + Len(c) + Len(J)
    <3>1. Splits(two, c, J) /\ Contains(code, o, two)  BY <1>11, <2>1
    <3>. QED  BY <3>1, ContainsBoth
  <2>3. o + Len(two) = a + 3  BY <1>8, <2>2 DEF a
  <2>4. /\ Contains(code, a + 3, body) /\ Contains(code, a + 3 + Len(body), B)
    <3>1. Splits(loop, body, B) /\ Contains(code, a + 3, loop)  BY <1>11, <2>1, <2>3
    <3>. QED  BY <3>1, ContainsBoth
  <2>5. a \in Nat /\ o + Len(all) = z
    BY <1>2, <1>6, <2>1, <2>3 DEF a, b, z
  <2>6. Contains(code, z, <<>>)
    <3>1. z \in Nat  BY <1>2, <2>5 DEF b, z
    <3>2. z <= Len(code)  BY <2>0, <2>5 DEF Contains
    <3>. QED  BY <2>1, <3>1, <3>2 DEF Contains
  <2>. QED  BY <2>1, <2>2, <2>4, <2>5, <2>6 DEF a, b
<1>13. PICK hc : Leads(fs, f, A, hc, o, a, n, n + 1)
  BY <1>12, PhraseAt, Zenon
<1>14. PICK hb : Leads(fs, f, A, hb, a + 3, b, n, m)
  BY <1>12, PhraseAt, Zenon
<1>15. /\ a \in Nat /\ b \in Nat /\ z \in Nat /\ a < a + 3 /\ b < z /\ a < b /\ a + 3 <= b
       /\ a + 3 + (Len(body) + 3) = z /\ (b + 3) - d = o
  BY <1>2, <1>12
<1>16. PICK hz : Leads(fs, f, A, hz, z, z, n, n)
  <2>1. Phrase(K, A, <<>>, n, n)  BY NoCode
  <2>2. z + Len(<<>>) = z  BY <1>15
  <2>3. \E h : Leads(fs, f, A, h, z, z + Len(<<>>), n, n)
    BY <1>12, <2>1, PhraseAt, Zenon
  <2>. QED  BY <2>2, <2>3
<1>. HIDE DEF code, a, b, z, d
<1>. DEFINE k == Joined(hc, hb)
            j == Joined(k, hz)
<1>. HIDE DEF k, j
<1>17. /\ Piece(fs, f, A, k, o, b, {a} \cup {b}) /\ Extends(k, hc) /\ Extends(k, hb)
       /\ DOMAIN k = DOMAIN hc \cup DOMAIN hb
  <2>1. /\ Piece(fs, f, A, hc, o, a, {a}) /\ Piece(fs, f, A, hb, a + 3, b, {b})
    BY <1>13, <1>14 DEF Leads
  <2>2. a < a + 3  BY <1>15
  <2>3. /\ Piece(fs, f, A, Joined(hc, hb), o, b, {a} \cup {b})
        /\ Extends(Joined(hc, hb), hc) /\ Extends(Joined(hc, hb), hb)
    BY <2>1, <2>2, Glued
  <2>4. DOMAIN Joined(hc, hb) = DOMAIN hc \cup DOMAIN hb  BY DEF Joined
  <2>. QED  BY <2>3, <2>4, Zenon DEF k
<1>18. /\ Piece(fs, f, A, j, o, z, ({a} \cup {b}) \cup {z}) /\ Extends(j, k) /\ Extends(j, hz)
       /\ DOMAIN j = DOMAIN k \cup DOMAIN hz
  <2>1. /\ Piece(fs, f, A, k, o, b, {a} \cup {b}) /\ Piece(fs, f, A, hz, z, z, {z})
    BY <1>16, <1>17 DEF Leads
  <2>2. b < z  BY <1>15
  <2>3. /\ Piece(fs, f, A, Joined(k, hz), o, z, ({a} \cup {b}) \cup {z})
        /\ Extends(Joined(k, hz), k) /\ Extends(Joined(k, hz), hz)
    BY <2>1, <2>2, Glued
  <2>4. DOMAIN Joined(k, hz) = DOMAIN k \cup DOMAIN hz  BY DEF Joined
  <2>. QED  BY <2>3, <2>4, Zenon DEF j
<1>19. Extends(j, hc) /\ Extends(j, hb)
  BY <1>17, <1>18 DEF Extends
<1>20. /\ GoesTo(j, o, n) /\ GoesTo(j, a, n + 1) /\ GoesTo(j, a + 3, n)
       /\ GoesTo(j, z, n) /\ (m # 0 => GoesTo(j, b, m))
  <2>1. n # 0 /\ n + 1 # 0  OBVIOUS
  <2>. QED  BY <1>13, <1>14, <1>16, <1>18, <1>19, <2>1, GoesLarger DEF Leads
<1>21. m = 0 => <<b, FALSE>> \notin DOMAIN j
  <2>. SUFFICES ASSUME m = 0  PROVE <<b, FALSE>> \notin DOMAIN j
    OBVIOUS
  <2>1. <<b, FALSE>> \notin DOMAIN hb  BY <1>14 DEF Leads, At
  <2>2. b \notin o .. a /\ b \notin z .. z  BY <1>12, <1>15
  <2>3. <<b, FALSE>> \notin DOMAIN hc /\ <<b, FALSE>> \notin DOMAIN hz
    BY <1>13, <1>16, <2>2, PlacesInside DEF Leads
  <2>. QED  BY <1>17, <1>18, <2>1, <2>3
<1>22. Sound(fs, f, A, j, <<a, FALSE>>)
  <2>1. j[<<a, FALSE>>] = n + 1  BY <1>20 DEF GoesTo
  <2>2. Contains(fs[f].code, a, J)  BY <1>12 DEF code
  <2>3. GoesTo(j, a + 3, n) /\ GoesTo(j, a + 3 + (Len(body) + 3), n)
    BY <1>15, <1>20
  <2>. QED  BY <1>7, <2>1, <2>2, <2>3, JumpFalseSound
<1>23. <<b, FALSE>> \in DOMAIN j => Sound(fs, f, A, j, <<b, FALSE>>)
  <2>. SUFFICES ASSUME <<b, FALSE>> \in DOMAIN j
                PROVE  Sound(fs, f, A, j, <<b, FALSE>>)
    OBVIOUS
  <2>1. m = n  BY <1>21
  <2>2. GoesTo(j, b, n) /\ GoesTo(j, (b + 3) - d, n)  BY <1>15, <1>20, <2>1
  <2>3. j[<<b, FALSE>>] = n  BY <2>2 DEF GoesTo
  <2>4. Contains(fs[f].code, b, B)  BY <1>12 DEF code
  <2>. QED  BY <1>4, <2>2, <2>3, <2>4, JumpSound DEF JumpOps
<1>24. Piece(fs, f, A, j, o, z, {z})
  <2>1. Piece(fs, f, A, j, o, z, (({a} \cup {b}) \cup {z}) \ {a})
    BY <1>18, <1>22, Closed
  <2>2. Piece(fs, f, A, j, o, z, ((({a} \cup {b}) \cup {z}) \ {a}) \ {b})
    BY <1>23, <2>1, Closed
  <2>3. ((({a} \cup {b}) \cup {z}) \ {a}) \ {b} = {z}
    <3>1. a # z /\ b # z  BY <1>15
    <3>. QED  BY <3>1
  <2>. QED  BY <2>2, <2>3
<1>25. At(j, o, n) /\ At(j, z, n)
  BY <1>20 DEF At
<1>. QED  BY <1>12, <1>24, <1>25 DEF Leads

(* A loop whose body ends or leaves as many cells as before; its condition *)
(* is tried at least once.                                                 *)
THEOREM WhileKeeps ==
  ASSUME NEW K, NEW A, {"JMPF", "NJMP"} \subseteq A, NEW low \in Nat,
         NEW c, Expression(K, A, low, c),
         NEW body, Statement(K, A, low, body) \/ Ends(K, A, low, body),
         Len(c) + Len(body) + 6 <= MaxShort
  PROVE  Statement(K, A, low, WhileStat(c, body))
<1>. SUFFICES ASSUME NEW n \in Nat, n > low
              PROVE  Phrase(K, A, WhileStat(c, body), n, n + 0)
  BY DEF Statement, Grows
<1>1. n \in Nat \ {0} /\ Phrase(K, A, c, n, n + 1) /\ n + 0 = n
  BY DEF Expression, Grows
<1>2. Phrase(K, A, body, n, n) \/ Phrase(K, A, body, n, 0)
  BY <1>1 DEF Statement, Ends, Grows
<1>3. CASE Phrase(K, A, body, n, n)
  <2>1. Phrase(K, A, WhileStat(c, body), n, n)  BY <1>1, <1>3, WhileLeads
  <2>. QED  BY <1>1, <2>1
<1>4. CASE Phrase(K, A, body, n, 0)
  <2>1. Phrase(K, A, WhileStat(c, body), n, n)  BY <1>1, <1>4, WhileLeads
  <2>. QED  BY <1>1, <2>1
<1>. QED  BY <1>2, <1>3, <1>4

(* The loop of ForStat: what a true condition leads to.                    *)
ForLoop(c, increment, body) ==
  LET step == increment
              \o BackwardJump(c \o JumpCode("JMPF") \o JumpCode("JMP") \o increment)
  IN  JumpOver("JMP", step) \o step \o body \o BackwardJump(step \o body)

(* The parts of the loop, one behind the other, and where its jumps go.    *)
IsForLoop(loop, c, increment, body, B1, step, JO, l1, l2, B2) ==
  /\ IsJump("NJMP", B1, Len(c) + Len(increment) + 9)
  /\ Splits(step, increment, B1)
  /\ IsJump("JMP", JO, Len(increment) + 3)
  /\ Splits(l1, JO, step) /\ Splits(l2, l1, body) /\ Splits(loop, l2, B2)
  /\ IsJump("NJMP", B2, Len(increment) + Len(body) + 6)
  /\ loop \in Seq(0 .. MaxByte) /\ Len(loop) = Len(increment) + Len(body) + 9
  /\ Len(l1) = Len(increment) + 6 /\ Len(l2) = Len(increment) + Len(body) + 6

(* They fit their bytes if the loop does (parser.c:585-601).               *)
LEMMA ForLoopShape ==
  ASSUME NEW c \in Seq(0 .. MaxByte), NEW increment \in Seq(0 .. MaxByte),
         NEW body \in Seq(0 .. MaxByte),
         Len(c) + Len(increment) + 9 <= MaxShort,
         Len(increment) + Len(body) + 9 <= MaxShort
  PROVE  LET loop == ForLoop(c, increment, body)
         IN  /\ \E B1, step, JO, l1, l2, B2 :
                  IsForLoop(loop, c, increment, body, B1, step, JO, l1, l2, B2)
             /\ IsJump("JMPF", JumpOver("JMPF", loop), Len(increment) + Len(body) + 9)
<1>. DEFINE x == Len(c)
            y == Len(increment)
            w == Len(body)
            b1 == c \o JumpCode("JMPF") \o JumpCode("JMP") \o increment
            B1 == BackwardJump(b1)
            step == increment \o B1
            JO == JumpOver("JMP", step)
            b2 == step \o body
            B2 == BackwardJump(b2)
            l1 == JO \o step
            l2 == l1 \o body
            loop == l2 \o B2
            J == JumpOver("JMPF", loop)
<1>1. /\ c \in Seq(0 .. MaxByte) /\ increment \in Seq(0 .. MaxByte)
      /\ body \in Seq(0 .. MaxByte)
  OBVIOUS
<1>2. /\ x \in Nat /\ y \in Nat /\ w \in Nat /\ MaxShort \in Int
      /\ x + y + 9 <= MaxShort /\ y + w + 9 <= MaxShort
  BY <1>1, BytecodeAssumption DEF MaxShort
<1>3. loop = ForLoop(c, increment, body)  BY DEF ForLoop
<1>4. b1 \in Seq(0 .. MaxByte) /\ Len(b1) = x + y + 6
  <2>1. Opcode("JMPF") \in 0 .. MaxByte /\ Opcode("JMP") \in 0 .. MaxByte
    BY Decoded DEF Instructions
  <2>2. MaxByte \in 0 .. MaxByte  BY BytecodeAssumption DEF MaxByte, OpNames
  <2>3. /\ JumpCode("JMPF") \in Seq(0 .. MaxByte) /\ Len(JumpCode("JMPF")) = 3
        /\ JumpCode("JMP") \in Seq(0 .. MaxByte) /\ Len(JumpCode("JMP")) = 3
    BY <2>1, <2>2 DEF JumpCode
  <2>. DEFINE u == c \o JumpCode("JMPF")
              v == u \o JumpCode("JMP")
  <2>4. u \in Seq(0 .. MaxByte) /\ Len(u) = x + Len(JumpCode("JMPF"))
    BY <1>1, <2>3, Concatenated, Zenon
  <2>5. v \in Seq(0 .. MaxByte) /\ Len(v) = Len(u) + Len(JumpCode("JMP"))
    BY <2>3, <2>4, Concatenated, Zenon
  <2>6. b1 \in Seq(0 .. MaxByte) /\ Len(b1) = Len(v) + y
    BY <1>1, <2>5, Concatenated, Zenon
  <2>7. Len(u) = x + 3 /\ Len(v) = Len(u) + 3 /\ Len(b1) = Len(v) + y
    BY <2>3, <2>4, <2>5, <2>6, Zenon
  <2>. HIDE DEF u, v, b1, x, y
  <2>8. Len(b1) = x + y + 6  BY <1>2, <2>7
  <2>. QED  BY <2>6, <2>8
<1>. HIDE DEF b1
<1>5. IsJump("NJMP", B1, x + y + 9)
  <2>1. IsJump("NJMP", B1, Len(b1) + 3)
    <3>1. Len(b1) + 3 <= MaxShort  BY <1>2, <1>4
    <3>. QED  BY <1>4, <3>1, BackwardJumpIsJump
  <2>2. Len(b1) + 3 = x + y + 9
    <3>. HIDE DEF x, y
    <3>. QED  BY <1>2, <1>4
  <2>. QED  BY <2>1, <2>2
<1>6. B1 \in Seq(0 .. MaxByte) /\ Len(B1) = 3  BY <1>5 DEF IsJump
<1>. HIDE DEF B1
<1>7. step \in Seq(0 .. MaxByte) /\ Len(step) = y + 3
  <2>1. step \in Seq(0 .. MaxByte) /\ Len(step) = y + Len(B1)
    BY <1>1, <1>6, Concatenated, Zenon
  <2>. QED  BY <1>6, <2>1
<1>8. Splits(step, increment, B1)  BY <1>1, <1>6 DEF Splits
<1>. HIDE DEF step, x, y, w
<1>9. IsJump("JMP", JO, y + 3)
  <2>1. Len(step) <= MaxShort  BY <1>2, <1>7
  <2>2. IsJump("JMP", JO, Len(step))
    BY <1>7, <2>1, JumpOverIsJump DEF JumpOps
  <2>. QED  BY <1>7, <2>2
<1>10. JO \in Seq(0 .. MaxByte) /\ Len(JO) = 3  BY <1>9 DEF IsJump
<1>. HIDE DEF JO
<1>11. IsJump("NJMP", B2, y + w + 6)
  <2>1. b2 \in Seq(0 .. MaxByte) /\ Len(b2) = Len(step) + w
    BY <1>1, <1>7, Concatenated, Zenon DEF w
  <2>. HIDE DEF b2
  <2>2. Len(b2) + 3 <= MaxShort /\ Len(b2) + 3 = y + w + 6  BY <1>2, <1>7, <2>1
  <2>3. IsJump("NJMP", B2, Len(b2) + 3)
    BY <2>1, <2>2, BackwardJumpIsJump
  <2>. QED  BY <2>2, <2>3
<1>12. B2 \in Seq(0 .. MaxByte) /\ Len(B2) = 3  BY <1>11 DEF IsJump
<1>. HIDE DEF B2
<1>13. /\ Splits(l1, JO, step) /\ Splits(l2, l1, body) /\ Splits(loop, l2, B2)
       /\ loop \in Seq(0 .. MaxByte) /\ Len(loop) = y + w + 9
       /\ Len(l1) = y + 6 /\ Len(l2) = y + w + 6
  <2>1. l1 \in Seq(0 .. MaxByte) /\ Len(l1) = Len(JO) + Len(step)
    BY <1>7, <1>10, Concatenated, Zenon
  <2>2. l2 \in Seq(0 .. MaxByte) /\ Len(l2) = Len(l1) + w
    BY <1>1, <2>1, Concatenated, Zenon DEF w
  <2>3. loop \in Seq(0 .. MaxByte) /\ Len(loop) = Len(l2) + Len(B2)
    BY <1>12, <2>2, Concatenated, Zenon
  <2>4. Splits(l1, JO, step) /\ Splits(l2, l1, body) /\ Splits(loop, l2, B2)
    BY <1>1, <1>7, <1>10, <1>12, <2>1, <2>2, Zenon DEF Splits
  <2>. HIDE DEF l1, l2, loop
  <2>. QED  BY <1>2, <1>7, <1>10, <1>12, <2>1, <2>2, <2>3, <2>4
<1>. HIDE DEF l1, l2, loop
<1>14. IsJump("JMPF", J, y + w + 9)
  <2>1. Len(loop) <= MaxShort  BY <1>2, <1>13
  <2>2. IsJump("JMPF", J, Len(loop))
    BY <1>13, <2>1, JumpOverIsJump DEF JumpOps
  <2>. QED  BY <1>13, <2>2
<1>15. IsForLoop(loop, c, increment, body, B1, step, JO, l1, l2, B2)
  BY <1>5, <1>8, <1>9, <1>11, <1>13, Zenon DEF IsForLoop, x, y, w
<1>. HIDE DEF J
<1>. QED  BY <1>3, <1>14, <1>15, Zenon DEF J, y, w

(* for, between its initialisation and the end of its scope: each time the *)
(* condition is reached, and each time the increment is, there are as many *)
(* cells (parser.c:567-610).                                               *)
LEMMA ForLeads ==
  ASSUME NEW K, NEW A, {"JMPF", "JMP", "NJMP"} \subseteq A, NEW n \in Nat \ {0},
         NEW m \in {0, n}, NEW c, Phrase(K, A, c, n, n + 1),
         NEW increment, Phrase(K, A, increment, n, n),
         NEW body, Phrase(K, A, body, n, m),
         Len(c) + Len(increment) + 9 <= MaxShort,
         Len(increment) + Len(body) + 9 <= MaxShort
  PROVE  Phrase(K, A, (c \o JumpOver("JMPF", ForLoop(c, increment, body)))
                       \o ForLoop(c, increment, body), n, n)
<1>. DEFINE x == Len(c)
            y == Len(increment)
            w == Len(body)
            loop == ForLoop(c, increment, body)
            J == JumpOver("JMPF", loop)
            two == c \o J
            all == two \o loop
<1>1. /\ c \in Seq(0 .. MaxByte) /\ increment \in Seq(0 .. MaxByte)
      /\ body \in Seq(0 .. MaxByte)
  BY Zenon DEF Phrase
<1>2. /\ x \in Nat /\ y \in Nat /\ w \in Nat
  BY <1>1
<1>3. PICK B1, step, JO, l1, l2, B2 :
             IsForLoop(loop, c, increment, body, B1, step, JO, l1, l2, B2)
  BY <1>1, ForLoopShape, Zenon
<1>14. IsJump("JMPF", J, y + w + 9)
  BY <1>1, ForLoopShape, Zenon
<1>. HIDE DEF loop, x, y, w
<1>13. /\ Splits(step, increment, B1)
       /\ Splits(l1, JO, step) /\ Splits(l2, l1, body) /\ Splits(loop, l2, B2)
       /\ loop \in Seq(0 .. MaxByte) /\ Len(loop) = y + w + 9
       /\ Len(l1) = y + 6 /\ Len(l2) = y + w + 6
       /\ IsJump("NJMP", B1, x + y + 9) /\ IsJump("JMP", JO, y + 3)
       /\ IsJump("NJMP", B2, y + w + 6)
  BY <1>3, Zenon DEF IsForLoop, x, y, w
<1>8. Splits(step, increment, B1)  BY <1>13
<1>5. IsJump("NJMP", B1, x + y + 9)  BY <1>13
<1>9. IsJump("JMP", JO, y + 3)  BY <1>13
<1>11. IsJump("NJMP", B2, y + w + 6)  BY <1>13
<1>10. JO \in Seq(0 .. MaxByte) /\ Len(JO) = 3  BY <1>13 DEF IsJump
<1>15. J \in Seq(0 .. MaxByte) /\ Len(J) = 3  BY <1>14 DEF IsJump
<1>16. (c \o JumpOver("JMPF", ForLoop(c, increment, body)))
          \o ForLoop(c, increment, body) = all
  BY DEF loop
<1>. HIDE DEF J
<1>17. Splits(two, c, J) /\ Splits(all, two, loop) /\ all \in Seq(0 .. MaxByte)
  <2>1. two \in Seq(0 .. MaxByte)  BY <1>1, <1>15, Concatenated, Zenon
  <2>2. all \in Seq(0 .. MaxByte)  BY <1>13, <2>1, Concatenated, Zenon
  <2>. QED  BY <1>1, <1>13, <1>15, <2>1, <2>2, Zenon DEF Splits
<1>. HIDE DEF two, all
<1>. SUFFICES ASSUME NEW fs, NEW f, NEW o, fs[Script].constants = K,
                     Contains(fs[f].code, o, all)
              PROVE  \E h : Leads(fs, f, A, h, o, o + Len(all), n, n)
  BY <1>16, <1>17, Zenon DEF Phrase
<1>. DEFINE code == fs[f].code
            a == o + x
            i == a + 6
            b == i + y
            e == b + 3 + w
            z == e + 3
<1>. HIDE DEF code, a, i, b, e, z
<1>18. /\ Contains(code, o, c) /\ Contains(code, a, J) /\ Contains(code, a + 3, JO)
       /\ Contains(code, i, increment) /\ Contains(code, b, B1)
       /\ Contains(code, b + 3, body) /\ Contains(code, e, B2)
       /\ Contains(code, a + 3, <<>>) /\ Contains(code, z, <<>>)
       /\ o \in Nat /\ o + Len(all) = z
  <2>0. Contains(code, o, all)  BY DEF code
  <2>1. /\ Contains(code, o, two) /\ Contains(code, o + Len(two), loop)
        /\ o + Len(all) = o + Len(two) + Len(loop) /\ o \in Nat /\ Len(code) \in Nat
    <3>1. Splits(all, two, loop)  BY <1>17
    <3>. QED  BY <2>0, <3>1, ContainsBoth
  <2>2. /\ Contains(code, o, c) /\ Contains(code, o + Len(c), J)
        /\ o + Len(two) = o + Len(c) + Len(J)
    <3>1. Splits(two, c, J)  BY <1>17
    <3>. QED  BY <2>1, <3>1, ContainsBoth
  <2>3. o + Len(two) = a + 3 /\ o + Len(c) = a /\ a \in Nat
    BY <1>2, <1>15, <2>1, <2>2 DEF a, x
  <2>4. Contains(code, a + 3, l2) /\ Contains(code, a + 3 + Len(l2), B2)
    <3>1. Splits(loop, l2, B2) /\ Contains(code, a + 3, loop)  BY <1>13, <2>1, <2>3
    <3>. QED  BY <3>1, ContainsBoth
  <2>5. Contains(code, a + 3, l1) /\ Contains(code, a + 3 + Len(l1), body)
    <3>1. Splits(l2, l1, body)  BY <1>13
    <3>. QED  BY <2>4, <3>1, ContainsBoth
  <2>6. Contains(code, a + 3, JO) /\ Contains(code, a + 3 + Len(JO), step)
    <3>1. Splits(l1, JO, step)  BY <1>13
    <3>. QED  BY <2>5, <3>1, ContainsBoth
  <2>7. a + 3 + Len(JO) = i /\ i \in Nat /\ i + Len(increment) = b
        /\ a + 3 + Len(l1) = b + 3 /\ a + 3 + Len(l2) = e /\ z = o + Len(all)
        /\ z \in Nat /\ a + 3 <= z
    <3>1. a + 3 + Len(JO) = i /\ i \in Nat  BY <1>10, <2>3 DEF i
    <3>2. i + Len(increment) = b  BY DEF b, y
    <3>3. a + 3 + Len(l1) = b + 3 /\ a + 3 + Len(l2) = e
      BY <1>2, <1>13, <2>3 DEF i, b, e
    <3>4. z = a + 3 + (y + w + 9)  BY <1>2, <2>3 DEF i, b, e, z
    <3>5. z \in Nat /\ a + 3 <= z  BY <1>2, <2>3, <3>4
    <3>6. z = o + Len(all)
      <4>1. Len(loop) = y + w + 9  BY <1>13
      <4>2. o + Len(all) = a + 3 + Len(loop)  BY <2>1, <2>3
      <4>. QED  BY <3>4, <4>1, <4>2
    <3>. QED  BY <3>1, <3>2, <3>3, <3>5, <3>6
  <2>8. Contains(code, i, increment) /\ Contains(code, i + Len(increment), B1)
    <3>1. Contains(code, i, step)  BY <2>6, <2>7
    <3>. QED  BY <1>8, <3>1, ContainsBoth
  <2>9. Contains(code, a + 3, <<>>) /\ Contains(code, z, <<>>)
    <3>1. z <= Len(code)
      <4>1. o + Len(all) <= Len(code)  BY <2>0 DEF Contains
      <4>. QED  BY <2>7, <4>1
    <3>2. a + 3 \in Nat /\ a + 3 <= Len(code)
      <4>1. a \in Nat /\ z \in Nat /\ a + 3 <= z /\ Len(code) \in Nat
        BY <2>1, <2>3, <2>7
      <4>. QED  BY <3>1, <4>1
    <3>. QED  BY <2>1, <2>7, <3>1, <3>2 DEF Contains
  <2>. QED  BY <2>1, <2>2, <2>3, <2>4, <2>5, <2>6, <2>7, <2>8, <2>9
<1>19. /\ a \in Nat /\ i \in Nat /\ b \in Nat /\ e \in Nat /\ z \in Nat
       /\ a + 3 \in Nat /\ a < a + 3 /\ a + 3 < i /\ i <= b /\ b < b + 3 /\ b + 3 <= e
       /\ e < z /\ o <= a
       /\ (b + 3) - (x + y + 9) = o /\ (e + 3) - (y + w + 6) = i
       /\ a + 3 + 3 + (y + 3) = b + 3 /\ a + 3 + (y + w + 9) = z
  BY <1>2, <1>18 DEF a, i, b, e, z
<1>20. PICK hc : Leads(fs, f, A, hc, o, a, n, n + 1)
  <2>1. o + Len(c) = a  BY DEF a, x
  <2>. QED  BY <1>18, <2>1, PhraseAt, Zenon DEF code
<1>21. PICK ho : Leads(fs, f, A, ho, a + 3, a + 3, n, n)
  <2>1. Phrase(K, A, <<>>, n, n)  BY NoCode
  <2>2. a + 3 + Len(<<>>) = a + 3  BY <1>19
  <2>3. \E h : Leads(fs, f, A, h, a + 3, a + 3 + Len(<<>>), n, n)
    BY <1>18, <2>1, PhraseAt, Zenon DEF code
  <2>. QED  BY <2>2, <2>3
<1>22. PICK hi : Leads(fs, f, A, hi, i, b, n, n)
  <2>1. i + Len(increment) = b  BY DEF b, y
  <2>. QED  BY <1>18, <2>1, PhraseAt, Zenon DEF code
<1>23. PICK hb : Leads(fs, f, A, hb, b + 3, e, n, m)
  <2>1. b + 3 + Len(body) = e  BY DEF e, w
  <2>. QED  BY <1>18, <2>1, PhraseAt, Zenon DEF code
<1>24. PICK hz : Leads(fs, f, A, hz, z, z, n, n)
  <2>1. Phrase(K, A, <<>>, n, n)  BY NoCode
  <2>2. z + Len(<<>>) = z  BY <1>19
  <2>3. \E h : Leads(fs, f, A, h, z, z + Len(<<>>), n, n)
    BY <1>18, <2>1, PhraseAt, Zenon DEF code
  <2>. QED  BY <2>2, <2>3
<1>. DEFINE k1 == Joined(hc, ho)
            k2 == Joined(k1, hi)
            k3 == Joined(k2, hb)
            j == Joined(k3, hz)
            X == (({a} \cup {a + 3}) \cup {b}) \cup {e}
<1>25. /\ Piece(fs, f, A, k1, o, a + 3, {a} \cup {a + 3})
       /\ Extends(k1, hc) /\ Extends(k1, ho) /\ DOMAIN k1 = DOMAIN hc \cup DOMAIN ho
  <2>1. Piece(fs, f, A, hc, o, a, {a}) /\ Piece(fs, f, A, ho, a + 3, a + 3, {a + 3})
    BY <1>20, <1>21 DEF Leads
  <2>2. DOMAIN k1 = DOMAIN hc \cup DOMAIN ho  BY DEF Joined
  <2>. QED  BY <1>19, <2>1, <2>2, Glued
<1>. HIDE DEF k1
<1>26. /\ Piece(fs, f, A, k2, o, b, ({a} \cup {a + 3}) \cup {b})
       /\ Extends(k2, k1) /\ Extends(k2, hi) /\ DOMAIN k2 = DOMAIN k1 \cup DOMAIN hi
  <2>1. Piece(fs, f, A, hi, i, b, {b})  BY <1>22 DEF Leads
  <2>2. DOMAIN k2 = DOMAIN k1 \cup DOMAIN hi  BY DEF Joined
  <2>. QED  BY <1>19, <1>25, <2>1, <2>2, Glued
<1>. HIDE DEF k2
<1>27. /\ Piece(fs, f, A, k3, o, e, X)
       /\ Extends(k3, k2) /\ Extends(k3, hb) /\ DOMAIN k3 = DOMAIN k2 \cup DOMAIN hb
  <2>1. Piece(fs, f, A, hb, b + 3, e, {e})  BY <1>23 DEF Leads
  <2>2. DOMAIN k3 = DOMAIN k2 \cup DOMAIN hb  BY DEF Joined
  <2>. QED  BY <1>19, <1>26, <2>1, <2>2, Glued
<1>. HIDE DEF k3
<1>28. /\ Piece(fs, f, A, j, o, z, X \cup {z})
       /\ Extends(j, k3) /\ Extends(j, hz) /\ DOMAIN j = DOMAIN k3 \cup DOMAIN hz
  <2>1. Piece(fs, f, A, hz, z, z, {z})  BY <1>24 DEF Leads
  <2>2. DOMAIN j = DOMAIN k3 \cup DOMAIN hz  BY DEF Joined
  <2>. QED  BY <1>19, <1>27, <2>1, <2>2, Glued
<1>. HIDE DEF j
<1>29. Extends(j, hc) /\ Extends(j, ho) /\ Extends(j, hi) /\ Extends(j, hb)
  BY <1>25, <1>26, <1>27, <1>28 DEF Extends
<1>30. /\ GoesTo(j, o, n) /\ GoesTo(j, a, n + 1) /\ GoesTo(j, a + 3, n)
       /\ GoesTo(j, i, n) /\ GoesTo(j, b, n) /\ GoesTo(j, b + 3, n)
       /\ GoesTo(j, z, n) /\ (m # 0 => GoesTo(j, e, m))
  <2>1. n # 0 /\ n + 1 # 0  OBVIOUS
  <2>. QED  BY <1>20, <1>21, <1>22, <1>23, <1>24, <1>28, <1>29, <2>1, GoesLarger
            DEF Leads
<1>31. m = 0 => <<e, FALSE>> \notin DOMAIN j
  <2>. SUFFICES ASSUME m = 0  PROVE <<e, FALSE>> \notin DOMAIN j
    OBVIOUS
  <2>1. <<e, FALSE>> \notin DOMAIN hb  BY <1>23 DEF Leads, At
  <2>2. e \notin o .. b /\ e \notin z .. z  BY <1>18, <1>19
  <2>3. <<e, FALSE>> \notin DOMAIN k2  BY <1>26, <2>2, PlacesInside
  <2>4. <<e, FALSE>> \notin DOMAIN hz  BY <1>24, <2>2, PlacesInside DEF Leads
  <2>. QED  BY <1>27, <1>28, <2>1, <2>3, <2>4
<1>32. Sound(fs, f, A, j, <<a, FALSE>>)
  <2>1. j[<<a, FALSE>>] = n + 1  BY <1>30 DEF GoesTo
  <2>2. Contains(fs[f].code, a, J)  BY <1>18 DEF code
  <2>3. GoesTo(j, a + 3, n) /\ GoesTo(j, a + 3 + (y + w + 9), n)
    BY <1>19, <1>30
  <2>. QED  BY <1>14, <2>1, <2>2, <2>3, JumpFalseSound
<1>33. Sound(fs, f, A, j, <<a + 3, FALSE>>)
  <2>1. j[<<a + 3, FALSE>>] = n  BY <1>30 DEF GoesTo
  <2>2. Contains(fs[f].code, a + 3, JO)  BY <1>18 DEF code
  <2>3. GoesTo(j, a + 3 + 3 + (y + 3), n)  BY <1>19, <1>30
  <2>. QED  BY <1>9, <2>1, <2>2, <2>3, JumpSound DEF JumpOps
<1>34. Sound(fs, f, A, j, <<b, FALSE>>)
  <2>1. j[<<b, FALSE>>] = n  BY <1>30 DEF GoesTo
  <2>2. Contains(fs[f].code, b, B1)  BY <1>18 DEF code
  <2>3. GoesTo(j, (b + 3) - (x + y + 9), n)  BY <1>19, <1>30
  <2>. QED  BY <1>5, <2>1, <2>2, <2>3, JumpSound DEF JumpOps
<1>35. <<e, FALSE>> \in DOMAIN j => Sound(fs, f, A, j, <<e, FALSE>>)
  <2>. SUFFICES ASSUME <<e, FALSE>> \in DOMAIN j
                PROVE  Sound(fs, f, A, j, <<e, FALSE>>)
    OBVIOUS
  <2>1. m = n  BY <1>31
  <2>2. j[<<e, FALSE>>] = n  BY <1>30, <2>1 DEF GoesTo
  <2>3. Contains(fs[f].code, e, B2)  BY <1>18 DEF code
  <2>4. GoesTo(j, (e + 3) - (y + w + 6), n)  BY <1>19, <1>30
  <2>. QED  BY <1>11, <2>2, <2>3, <2>4, JumpSound DEF JumpOps
<1>36. Piece(fs, f, A, j, o, z, {z})
  <2>. DEFINE X1 == (X \cup {z}) \ {a}
              X2 == X1 \ {a + 3}
              X3 == X2 \ {b}
              X4 == X3 \ {e}
  <2>1. Piece(fs, f, A, j, o, z, X1)  BY <1>28, <1>32, Closed
  <2>2. Piece(fs, f, A, j, o, z, X2)  BY <1>33, <2>1, Closed
  <2>3. Piece(fs, f, A, j, o, z, X3)  BY <1>34, <2>2, Closed
  <2>4. Piece(fs, f, A, j, o, z, X4)  BY <1>35, <2>3, Closed
  <2>5. X4 = {z}
    <3>1. a # z /\ a + 3 # z /\ b # z /\ e # z  BY <1>19
    <3>. QED  BY <3>1
  <2>. QED  BY <2>4, <2>5
<1>37. At(j, o, n) /\ At(j, z, n)
  BY <1>30 DEF At
<1>. QED  BY <1>18, <1>36, <1>37 DEF Leads

(* Code is grouped in either way.                                          *)
LEMMA Regrouped ==
  ASSUME NEW a \in Seq(0 .. MaxByte), NEW b \in Seq(0 .. MaxByte),
         NEW c \in Seq(0 .. MaxByte)
  PROVE  (a \o b) \o c = a \o (b \o c)
OBVIOUS

(* for: what its initialisation declares is dropped where the loop ends;   *)
(* its body ends or leaves as many cells as before.                        *)
THEOREM ForKeeps ==
  ASSUME NEW K, NEW A, {"JMPF", "JMP", "NJMP", "POP"} \subseteq A, NEW low \in Nat,
         NEW locals \in Nat, NEW init, Grows(K, A, low, init, locals),
         NEW c, Expression(K, A, low + locals, c),
         NEW increment, Statement(K, A, low + locals, increment),
         NEW body,
         Statement(K, A, low + locals, body) \/ Ends(K, A, low + locals, body),
         Len(c) + Len(increment) + 9 <= MaxShort,
         Len(increment) + Len(body) + 9 <= MaxShort
  PROVE  Statement(K, A, low, ForStat(init, c, increment, body, locals))
<1>. DEFINE loop == ForLoop(c, increment, body)
            J == JumpOver("JMPF", loop)
            core == (c \o J) \o loop
<1>1. ASSUME NEW n \in Nat, n > low + locals
      PROVE  Phrase(K, A, core, n, n)
  <2>1. n \in Nat \ {0} /\ n + 0 = n  BY <1>1
  <2>2. Phrase(K, A, c, n, n + 1) /\ Phrase(K, A, increment, n, n)
    BY <1>1, <2>1 DEF Expression, Statement, Grows
  <2>3. Phrase(K, A, body, n, n) \/ Phrase(K, A, body, n, 0)
    BY <1>1, <2>1 DEF Statement, Ends, Grows
  <2>4. CASE Phrase(K, A, body, n, n)  BY <2>1, <2>2, <2>4, ForLeads
  <2>5. CASE Phrase(K, A, body, n, 0)  BY <2>1, <2>2, <2>5, ForLeads
  <2>. QED  BY <2>3, <2>4, <2>5
<1>2. ForStat(init, c, increment, body, locals)
        = (((init \o c) \o J) \o loop) \o Pops(locals)
  BY DEF ForStat, ForLoop
<1>. HIDE DEF loop, J
<1>3. Grows(K, A, low + locals, core, 0)
  <2>1. \A n \in Nat : n + 0 = n  OBVIOUS
  <2>. QED  BY <1>1, <2>1 DEF Grows
<1>4. Grows(K, A, low, init \o core, locals)
  <2>. HIDE DEF core
  <2>1. locals + 0 = locals  OBVIOUS
  <2>. QED  BY <1>3, <2>1, GrowsAfter
<1>5. ((init \o c) \o J) \o loop = init \o core
  <2>1. init \in Seq(0 .. MaxByte) /\ c \in Seq(0 .. MaxByte)
    <3>. DEFINE n == low + locals + 1
    <3>1. n \in Nat /\ n > low /\ n > low + locals  OBVIOUS
    <3>. HIDE DEF n
    <3>2. Phrase(K, A, init, n, n + locals) /\ Phrase(K, A, c, n, n + 1)
      BY <3>1 DEF Expression, Grows
    <3>. QED  BY <3>2, Zenon DEF Phrase
  <2>2. J \in Seq(0 .. MaxByte) /\ loop \in Seq(0 .. MaxByte)
    <3>1. increment \in Seq(0 .. MaxByte) /\ body \in Seq(0 .. MaxByte)
      <4>. DEFINE n == low + locals + 1
      <4>1. n \in Nat /\ n > low + locals  OBVIOUS
      <4>. HIDE DEF n
      <4>2. Phrase(K, A, increment, n, n + 0)  BY <4>1 DEF Statement, Grows
      <4>3. Phrase(K, A, body, n, n + 0) \/ Phrase(K, A, body, n, 0)
        BY <4>1 DEF Statement, Ends, Grows
      <4>. QED  BY <4>2, <4>3, Zenon DEF Phrase
    <3>2. PICK B1, step, JO, l1, l2, B2 :
                 IsForLoop(loop, c, increment, body, B1, step, JO, l1, l2, B2)
      BY <2>1, <3>1, ForLoopShape, Zenon DEF loop
    <3>3. IsJump("JMPF", J, Len(increment) + Len(body) + 9)
      BY <2>1, <3>1, ForLoopShape, Zenon DEF loop, J
    <3>. QED  BY <3>2, <3>3, Zenon DEF IsForLoop, IsJump
  <2>3. (init \o c) \o J = init \o (c \o J)
    BY <2>1, <2>2, Regrouped, Zenon
  <2>4. c \o J \in Seq(0 .. MaxByte)  BY <2>1, <2>2, Concatenated, Zenon
  <2>5. (init \o (c \o J)) \o loop = init \o ((c \o J) \o loop)
    BY <2>1, <2>2, <2>4, Regrouped, Zenon
  <2>. QED  BY <2>3, <2>5, Zenon
<1>. HIDE DEF core
<1>6. Statement(K, A, low, ScopeStat(init \o core, locals))
  BY <1>4, ScopeKeeps
<1>. QED  BY <1>2, <1>5, <1>6, Zenon DEF ScopeStat

-----------------------------------------------------------------------------
(* Functions and scripts. *)

(* The map of a function whose code is a statement in a frame of the       *)
(* function itself and its arguments; the instructions are all of A, and   *)
(* if the code ends in any case, it ends before its last byte.             *)
LEMMA BodyMapped ==
  ASSUME NEW A, NEW fs, NEW f, f # Script, fs[f].argc \in Nat, NEW m \in Nat,
         Phrase(fs[Script].constants, A, fs[f].code, fs[f].argc + 1, m)
  PROVE  \E h : /\ IsMap(fs, f, h)
                /\ \A p \in DOMAIN h : p[1] = Len(fs[f].code)
                                         \/ OpAt(fs[f].code, p[1]) \in A
                /\ m = 0 => Returning(fs, f, h)
<1>. DEFINE code == fs[f].code
            n == fs[f].argc + 1
            e == Len(code)
<1>1. code \in Seq(0 .. MaxByte)  BY Zenon DEF Phrase
<1>2. Contains(code, 0, code) /\ 0 + e = e /\ e \in Nat /\ n # 0
  <2>. HIDE DEF code
  <2>. QED  BY <1>1 DEF Contains
<1>3. PICK h : Leads(fs, f, A, h, 0, e, n, m)
  <2>1. \E h : Leads(fs, f, A, h, 0, 0 + e, n, m)
    BY <1>2, PhraseAt, Zenon
  <2>. QED  BY <1>2, <2>1
<1>. HIDE DEF e, n
<1>4. /\ Piece(fs, f, A, h, 0, e, {e}) /\ At(h, 0, n) /\ At(h, e, m)
  BY <1>3 DEF Leads
<1>5. /\ h \in [DOMAIN h -> Nat \ {0}]
      /\ DOMAIN h \subseteq (0 .. e) \X BOOLEAN
      /\ \A p \in DOMAIN h : IF p[1] \in {e} THEN p[2] = FALSE ELSE Sound(fs, f, A, h, p)
  BY <1>4 DEF Piece
<1>6. DOMAIN h \subseteq Nat \X BOOLEAN
  <2>1. (0 .. e) \X BOOLEAN \subseteq Nat \X BOOLEAN  BY <1>2
  <2>. QED  BY <1>5, <2>1
<1>7. GoesTo(h, 0, n)  BY <1>2, <1>4 DEF At
<1>8. \A p \in DOMAIN h : p[1] = e \/ Sound(fs, f, A, h, p)
  BY <1>5
<1>9. IsMap(fs, f, h)
  BY <1>5, <1>6, <1>7, <1>8 DEF IsMap, Sound, e, n
<1>10. \A p \in DOMAIN h : p[1] = e \/ OpAt(fs[f].code, p[1]) \in A
  BY <1>8 DEF Sound
<1>11. ASSUME m = 0  PROVE Returning(fs, f, h)
  <2>. SUFFICES ASSUME NEW p \in DOMAIN h, p[1] = e  PROVE FALSE
    BY DEF Returning, e
  <2>1. p = <<p[1], p[2]>>  BY <1>5
  <2>2. p = <<e, FALSE>>  BY <1>5, <2>1
  <2>. QED  BY <1>4, <1>11, <2>2 DEF At
<1>. QED  BY <1>9, <1>10, <1>11 DEF e

(* The script stops where its own code ends (parser.c:943, vm.c:149-153).  *)
LEMMA HaltHalts ==
  ASSUME NEW A, "HALT" \in A, NEW fs, NEW h, NEW a,
         Contains(fs[Script].code, a, Emit("HALT")), GoesTo(h, a, 1)
  PROVE  Sound(fs, Script, A, h, <<a, FALSE>>)
<1>. DEFINE code == fs[Script].code
            p == <<a, FALSE>>
<1>1. Opcode("HALT") \in 0 .. MaxByte /\ OpNames[Opcode("HALT") + 1] = "HALT"
  BY Decoded DEF Instructions
<1>2. /\ a \in Nat /\ Len(code) \in Nat /\ a + 1 <= Len(code)
      /\ code[a + 1] = Opcode("HALT")
  BY DEF Contains, Emit
<1>. HIDE DEF code
<1>3. /\ p[1] = a /\ OpAt(code, p[1]) = "HALT" /\ NextAt(code, p) = a + 1
  BY <1>1, <1>2 DEF OpAt, ByteAt, NextAt, InstructionLength, NamedOps, JumpOps
<1>4. h[p] = 1  BY DEF GoesTo
<1>. HIDE DEF p
<1>5. Flows(fs, Script, h, p)
  BY <1>3, <1>4, SMT
     DEF Flows, code, BinaryOps, ArithmeticOps, ComparisonOps, LogicOps
<1>. QED  BY <1>2, <1>3, <1>5 DEF Sound, code, p

(* The map of a script.                                                    *)
LEMMA ScriptMapped ==
  ASSUME NEW K, NEW A, "HALT" \in A, NEW fs, NEW body, Statement(K, A, 0, body),
         fs[Script] = ScriptOf(body, K)
  PROVE  \E h : /\ IsMap(fs, Script, h) /\ Returning(fs, Script, h)
                /\ \A p \in DOMAIN h : OpAt(fs[Script].code, p[1]) \in A
<1>. DEFINE code == fs[Script].code
            e == Len(body)
            halt == Emit("HALT")
<1>1. Phrase(K, A, body, 1, 1)
  <2>1. 1 > 0 /\ 1 + 0 = 1 /\ 1 \in Nat  OBVIOUS
  <2>. QED  BY <2>1, Zenon DEF Statement, Grows
<1>2. body \in Seq(0 .. MaxByte)  BY <1>1, Zenon DEF Phrase
<1>3. halt \in Seq(0 .. MaxByte) /\ Len(halt) = 1
  BY Decoded DEF Instructions, Emit
<1>4. /\ fs[Script].constants = K /\ code = body \o halt /\ fs[Script].argc = 0
  BY DEF ScriptOf
<1>. HIDE DEF code, halt
<1>5. /\ Contains(code, 0, body) /\ Contains(code, e, halt)
      /\ Len(code) = e + 1 /\ e \in Nat /\ 0 + e = e
  <2>1. code \in Seq(0 .. MaxByte) /\ Len(code) = e + Len(halt)
    BY <1>2, <1>3, <1>4, Concatenated, Zenon
  <2>2. Contains(code, 0, code)  BY <2>1 DEF Contains
  <2>3. Splits(code, body, halt)  BY <1>2, <1>3, <1>4 DEF Splits
  <2>4. /\ Contains(code, 0, body) /\ Contains(code, 0 + Len(body), halt)
    BY <2>2, <2>3, ContainsBoth
  <2>5. e \in Nat /\ 0 + Len(body) = e  BY <1>2
  <2>. QED  BY <1>3, <2>1, <2>4, <2>5
<1>6. PICK h : Leads(fs, Script, A, h, 0, e, 1, 1)
  <2>1. \E h : Leads(fs, Script, A, h, 0, 0 + e, 1, 1)
    BY <1>1, <1>4, <1>5, PhraseAt, Zenon DEF code
  <2>. QED  BY <1>5, <2>1
<1>. HIDE DEF e
<1>7. /\ Piece(fs, Script, A, h, 0, e, {e}) /\ GoesTo(h, 0, 1) /\ GoesTo(h, e, 1)
  BY <1>6 DEF Leads, At
<1>8. Sound(fs, Script, A, h, <<e, FALSE>>)
  BY <1>5, <1>7, HaltHalts DEF code, halt
<1>9. Piece(fs, Script, A, h, 0, e, {})
  <2>1. Piece(fs, Script, A, h, 0, e, {e} \ {e})  BY <1>7, <1>8, Closed
  <2>2. {e} \ {e} = {}  OBVIOUS
  <2>. QED  BY <2>1, <2>2
<1>10. /\ h \in [DOMAIN h -> Nat \ {0}]
       /\ DOMAIN h \subseteq (0 .. e) \X BOOLEAN
       /\ \A p \in DOMAIN h : Sound(fs, Script, A, h, p)
  BY <1>9 DEF Piece
<1>11. DOMAIN h \subseteq Nat \X BOOLEAN
  <2>1. (0 .. e) \X BOOLEAN \subseteq Nat \X BOOLEAN  BY <1>5
  <2>. QED  BY <1>10, <2>1
<1>12. IsMap(fs, Script, h)
  <2>1. GoesTo(h, 0, 0 + 1)  BY <1>7
  <2>. QED  BY <1>4, <1>10, <1>11, <2>1 DEF IsMap, Sound
<1>13. Returning(fs, Script, h)
  <2>. SUFFICES ASSUME NEW p \in DOMAIN h  PROVE p[1] # Len(code)
    BY DEF Returning, code
  <2>1. p[1] \in 0 .. e  BY <1>10
  <2>. QED  BY <1>5, <2>1
<1>14. \A p \in DOMAIN h : OpAt(code, p[1]) \in A  BY <1>10 DEF Sound, code
<1>. QED  BY <1>12, <1>13, <1>14 DEF code

(* A program that is composed of the constructs: its script is a statement *)
(* of an empty frame, and a function's body is one in a frame of its       *)
(* arguments.                                                              *)
Composed(fs, A) ==
  /\ "HALT" \in A
  /\ \E body : /\ fs[Script] = ScriptOf(body, fs[Script].constants)
               /\ Statement(fs[Script].constants, A, 0, body)
  /\ \A f \in FunctionIds \ {Script} :
       /\ fs[f].argc \in Nat
       /\ Statement(fs[Script].constants, A, fs[f].argc, fs[f].code)

(* And each of its functions returns.                                      *)
ReturningBodies(fs, A) ==
  \A f \in FunctionIds \ {Script} :
    Ends(fs[Script].constants, A, fs[f].argc, fs[f].code)

(* The maps of all functions of a program.                                 *)
LEMMA ComposedMaps ==
  ASSUME NEW A, NEW fs, Composed(fs, A)
  PROVE  \E hs : \A f \in FunctionIds :
           /\ IsMap(fs, f, hs[f])
           /\ ReturningBodies(fs, A) =>
                /\ Returning(fs, f, hs[f])
                /\ \A p \in DOMAIN hs[f] : OpAt(fs[f].code, p[1]) \in A
<1>. DEFINE Good(f, h) ==
              /\ IsMap(fs, f, h)
              /\ ReturningBodies(fs, A) =>
                   /\ Returning(fs, f, h)
                   /\ \A p \in DOMAIN h : OpAt(fs[f].code, p[1]) \in A
<1>. DEFINE K == fs[Script].constants
<1>1. \E h : Good(Script, h)
  <2>1. PICK body : fs[Script] = ScriptOf(body, K) /\ Statement(K, A, 0, body)
    BY DEF Composed
  <2>. HIDE DEF K
  <2>2. \E h : /\ IsMap(fs, Script, h) /\ Returning(fs, Script, h)
               /\ \A p \in DOMAIN h : OpAt(fs[Script].code, p[1]) \in A
    BY <2>1, ScriptMapped DEF Composed
  <2>. QED  BY <2>2
<1>2. ASSUME NEW f \in FunctionIds \ {Script}  PROVE \E h : Good(f, h)
  <2>1. /\ fs[f].argc \in Nat /\ f # Script
        /\ Statement(K, A, fs[f].argc, fs[f].code)
    BY DEF Composed
  <2>. DEFINE n == fs[f].argc + 1
  <2>2. n \in Nat /\ n > fs[f].argc /\ n + 0 = n  BY <2>1
  <2>3. Phrase(K, A, fs[f].code, n, n)
    <3>1. Phrase(K, A, fs[f].code, n, n + 0)  BY <2>1, <2>2 DEF Statement, Grows
    <3>. QED  BY <2>2, <3>1
  <2>4. CASE ReturningBodies(fs, A)
    <3>1. Ends(K, A, fs[f].argc, fs[f].code)  BY <2>4 DEF ReturningBodies
    <3>2. Phrase(K, A, fs[f].code, n, 0)  BY <2>2, <3>1 DEF Ends
    <3>3. PICK h : /\ IsMap(fs, f, h)
                   /\ \A p \in DOMAIN h : p[1] = Len(fs[f].code)
                                            \/ OpAt(fs[f].code, p[1]) \in A
                   /\ Returning(fs, f, h)
      BY <2>1, <3>2, BodyMapped
    <3>. QED  BY <3>3 DEF Returning
  <2>5. CASE ~ReturningBodies(fs, A)
    <3>1. \E h : IsMap(fs, f, h)  BY <2>1, <2>2, <2>3, BodyMapped
    <3>. QED  BY <2>5, <3>1
  <2>. QED  BY <2>4, <2>5
<1>3. \A f \in FunctionIds : \E h : Good(f, h)  BY <1>1, <1>2
<1>. HIDE DEF Good
<1>. DEFINE hs == [f \in FunctionIds |-> CHOOSE h : Good(f, h)]
<1>4. \A f \in FunctionIds : Good(f, hs[f])  BY <1>3
<1>. HIDE DEF hs
<1>. QED  BY <1>4 DEF Good

(* The compiler's code has a map.                                          *)
THEOREM ComposedIsMapped ==
  ASSUME NEW A, NEW fs, Composed(fs, A)
  PROVE  /\ Mapped(fs)
         /\ ReturningBodies(fs, A) => Returns(fs)
         /\ ReturningBodies(fs, A) /\ A \cap Calculations = {} => Calm(fs)
<1>1. PICK hs : \A f \in FunctionIds :
           /\ IsMap(fs, f, hs[f])
           /\ ReturningBodies(fs, A) =>
                /\ Returning(fs, f, hs[f])
                /\ \A p \in DOMAIN hs[f] : OpAt(fs[f].code, p[1]) \in A
  BY ComposedMaps
<1>2. Mapped(fs)  BY <1>1 DEF Mapped
<1>3. ReturningBodies(fs, A) => Returns(fs)  BY <1>1 DEF Returns
<1>4. ReturningBodies(fs, A) /\ A \cap Calculations = {} => Calm(fs)
  <2>. SUFFICES ASSUME ReturningBodies(fs, A), A \cap Calculations = {}  PROVE Calm(fs)
    OBVIOUS
  <2>1. \A f \in FunctionIds : IsMap(fs, f, hs[f]) /\ IsCalm(fs, f, hs[f])
    BY <1>1 DEF IsCalm
  <2>. QED  BY <2>1 DEF Calm
<1>. QED  BY <1>2, <1>3, <1>4

(* So programs that are composed of the constructs, all but `set`, which   *)
(* handle no native, keep the stack in step whatever else happens          *)
(* (vm.c:66-112, 149-199).                                                 *)
THEOREM ComposedSound ==
  ASSUME ~Repl, Clock \notin Readable, \A fs \in Programs : \E A : Composed(fs, A)
  PROVE  Spec => /\ [](CallBinding /\ FramesNested /\ Balanced)
                 /\ ReturnRestores
<1>1. \A fs \in Programs : Mapped(fs)  BY ComposedIsMapped
<1>2. Spec => [](OneStack /\ CallBinding)  BY <1>1, BindingCorrect
<1>3. Spec => []FramesNested  BY <1>1, NestingCorrect
<1>4. Spec => []Balanced  BY <1>1, BalanceCorrect
<1>5. Spec => ReturnRestores  BY <1>1, ReturnCorrect
<1>. QED  BY <1>2, <1>3, <1>4, <1>5, PTL

(* And if they do not calculate, and all functions return, they run into   *)
(* nothing undefined, as long as realloc grows the stack in place.         *)
THEOREM ComposedCalm ==
  ASSUME ~Repl, Clock \notin Readable, Moves = {FALSE},
         \A fs \in Programs : \E A : /\ Composed(fs, A) /\ ReturningBodies(fs, A)
                                     /\ A \cap Calculations = {}
  PROVE  Spec => []NeverUndefined
<1>1. \A fs \in Programs : Calm(fs)  BY ComposedIsMapped
<1>. QED  BY <1>1, CalmCorrect

(* Such programs there are: one whose function calls itself on a condition *)
(* and returns in either case.  It need not end, but it never goes wrong,  *)
(* until the frames are used up and call() refuses (vm.c:86-89).           *)
THEOREM RecursionComposed ==
  ASSUME FunctionIds = {Script, 1}, NEW K, Len(K) \in Nat,
         IsGlobal(K, 0), K[1].val \in Readable, IsLiteral(K, 1), IsLiteral(K, 2),
         NEW fs,
         fs[Script] = ScriptOf(FunDeclStat(0, 1)
                               \o ExprStat(CallCode(LoadName(0), Arg(Literal(2))), FALSE), K),
         fs[1] = FunctionBody(1, IfStat(LoadSlot(1),
                                        ReturnStat(CallCode(LoadName(0), Arg(LoadSlot(1)))),
                                        ReturnStat(LoadSlot(1))))
  PROVE  \E A : /\ Composed(fs, A) /\ ReturningBodies(fs, A)
               /\ A \cap Calculations = {}
<1>. DEFINE A == {"CONSTANT", "CONSTANT_LONG", "SETGLOBAL", "LOADGLOBAL", "LOADLOCAL",
                  "WIDE", "POP", "PRINT", "CALL", "RETURN", "JMPF", "JMP", "HALT"}
            self == CallCode(LoadName(0), Arg(LoadSlot(1)))
            body == IfStat(LoadSlot(1), ReturnStat(self), ReturnStat(LoadSlot(1)))
            main == ExprStat(CallCode(LoadName(0), Arg(Literal(2))), FALSE)
            script == FunDeclStat(0, 1) \o main
<1>1. A \cap Calculations = {}  BY DEF Calculations
<1>2. Byte \in Nat /\ Byte >= 32 /\ MaxByte = Byte - 1 /\ MaxShort \in Nat /\ MaxShort >= 31
  <2>1. Byte \in Nat /\ Byte >= 32  BY BytecodeAssumption DEF OpNames
  <2>2. Byte * Byte >= 32  BY <2>1
  <2>3. Byte * Byte \in Nat  BY <2>1
  <2>. QED  BY <2>1, <2>2, <2>3 DEF MaxByte, MaxShort
<1>3. 1 \in 0 .. MaxByte /\ 1 < Byte * Byte * Byte
  <2>1. Byte * Byte >= 32 /\ Byte * Byte \in Nat  BY <1>2
  <2>2. Byte * Byte * Byte >= 32  BY <1>2, <2>1
  <2>. QED  BY <1>2, <2>2
<1>. HIDE DEF A
<1>4. ASSUME NEW low \in Nat  PROVE Expression(K, A, low, LoadName(0))
  <2>1. {"LOADGLOBAL", "WIDE"} \subseteq A  BY DEF A
  <2>2. K[0 + 1].val \in Readable
    <3>1. 0 + 1 = 1  OBVIOUS
    <3>. QED  BY <3>1
  <2>. QED  BY <2>1, <2>2, LoadNameAdds
<1>5. ASSUME NEW low \in Nat, low >= 1  PROVE Expression(K, A, low, LoadSlot(1))
  <2>1. 1 \in 1 .. low  BY <1>5
  <2>. QED  BY <1>3, <2>1, LoadSlotAdds DEF A
<1>6. ASSUME NEW low \in Nat, NEW e, Expression(K, A, low + 1, e)
      PROVE  Expression(K, A, low, CallCode(LoadName(0), Arg(e)))
  <2>1. Arg(e).count = 1 /\ Grows(K, A, low + 1, Arg(e).code, Arg(e).count)
    BY <1>6, ArgAdds
  <2>2. Arg(e).count \in 0 .. MaxByte  BY <1>3, <2>1
  <2>. QED  BY <1>4, <2>1, <2>2, CallAdds DEF A
<1>7. Expression(K, A, 1, self)
  <2>1. 1 + 1 \in Nat /\ 1 + 1 >= 1  OBVIOUS
  <2>2. Expression(K, A, 1 + 1, LoadSlot(1))  BY <1>5, <2>1
  <2>. QED  BY <1>6, <2>2
<1>8. Ends(K, A, 1, body)
  <2>1. Ends(K, A, 1, ReturnStat(self)) /\ Ends(K, A, 1, ReturnStat(LoadSlot(1)))
    BY <1>5, <1>7, ReturnEnds DEF A
  <2>2. Len(ReturnStat(self)) + 3 <= MaxShort /\ Len(ReturnStat(LoadSlot(1))) <= MaxShort
    <3>1. LoadSlot(1) = <<Opcode("LOADLOCAL"), 1>> /\ LoadName(0) = <<Opcode("LOADGLOBAL"), 0>>
      BY <1>2, <1>3 DEF LoadSlot, LoadName, OperandCode
    <3>. DEFINE name == LoadName(0)
                slot == LoadSlot(1)
                call == <<Opcode("CALL"), 1>>
                return == <<Opcode("RETURN")>>
    <3>2. /\ Opcode("LOADLOCAL") \in 0 .. MaxByte /\ Opcode("LOADGLOBAL") \in 0 .. MaxByte
          /\ Opcode("CALL") \in 0 .. MaxByte /\ Opcode("RETURN") \in 0 .. MaxByte
          /\ 0 \in 0 .. MaxByte
      BY <1>2, Decoded DEF Instructions
    <3>3. /\ name \in Seq(0 .. MaxByte) /\ Len(name) = 2
          /\ slot \in Seq(0 .. MaxByte) /\ Len(slot) = 2
          /\ call \in Seq(0 .. MaxByte) /\ Len(call) = 2
          /\ return \in Seq(0 .. MaxByte) /\ Len(return) = 1
      <4>1. ASSUME NEW x \in 0 .. MaxByte, NEW y \in 0 .. MaxByte
            PROVE  /\ <<x, y>> \in Seq(0 .. MaxByte) /\ Len(<<x, y>>) = 2
                   /\ <<x>> \in Seq(0 .. MaxByte) /\ Len(<<x>>) = 1
        OBVIOUS
      <4>2. name = <<Opcode("LOADGLOBAL"), 0>> /\ slot = <<Opcode("LOADLOCAL"), 1>>
        BY <3>1
      <4>. HIDE DEF name, slot
      <4>3. name \in Seq(0 .. MaxByte) /\ Len(name) = 2  BY <3>2, <4>1, <4>2, Zenon
      <4>4. slot \in Seq(0 .. MaxByte) /\ Len(slot) = 2
        BY <1>3, <3>2, <4>1, <4>2, Zenon
      <4>5. call \in Seq(0 .. MaxByte) /\ Len(call) = 2  BY <1>3, <3>2, <4>1, Zenon
      <4>6. return \in Seq(0 .. MaxByte) /\ Len(return) = 1  BY <3>2, <4>1, Zenon
      <4>. QED  BY <4>3, <4>4, <4>5, <4>6
    <3>4. ReturnStat(self) = ((name \o slot) \o call) \o return
          /\ ReturnStat(LoadSlot(1)) = slot \o return
      BY DEF ReturnStat, CallCode, Arg, Emit
    <3>. HIDE DEF name, slot, call, return
    <3>5. /\ name \o slot \in Seq(0 .. MaxByte) /\ Len(name \o slot) = Len(name) + Len(slot)
          /\ Len(slot \o return) = Len(slot) + Len(return)
      BY <3>3, Concatenated, Zenon
    <3>6. /\ (name \o slot) \o call \in Seq(0 .. MaxByte)
          /\ Len((name \o slot) \o call) = Len(name \o slot) + Len(call)
      BY <3>3, <3>5, Concatenated, Zenon
    <3>7. Len(((name \o slot) \o call) \o return)
            = Len((name \o slot) \o call) + Len(return)
      BY <3>3, <3>6, Concatenated, Zenon
    <3>8. /\ Len(ReturnStat(self)) = 2 + 2 + 2 + 1
          /\ Len(ReturnStat(LoadSlot(1))) = 2 + 1
      BY <3>3, <3>4, <3>5, <3>6, <3>7, Zenon
    <3>. DEFINE long == Len(ReturnStat(self))
                short == Len(ReturnStat(LoadSlot(1)))
    <3>. HIDE DEF long, short
    <3>9. long + 3 <= MaxShort /\ short <= MaxShort
      <4>1. long = 7 /\ short = 3  BY <3>8 DEF long, short
      <4>. QED  BY <1>2, <4>1
    <3>. QED  BY <3>9 DEF long, short
  <2>3. Expression(K, A, 1, LoadSlot(1))  BY <1>5
  <2>. QED  BY <2>1, <2>2, <2>3, IfKeeps DEF A
<1>9. Statement(K, A, 0, script)
  <2>1. Statement(K, A, 0, FunDeclStat(0, 1))  BY FunDeclKeeps DEF A
  <2>2. Expression(K, A, 0 + 1, Literal(2))  BY LiteralAdds DEF A
  <2>3. Expression(K, A, 0, CallCode(LoadName(0), Arg(Literal(2))))  BY <1>6, <2>2
  <2>4. Statement(K, A, 0, main)  BY <2>3, ExprStatKeeps DEF A
  <2>. QED  BY <2>1, <2>4, StatementsKeep
<1>. HIDE DEF self, body, main, script
<1>10. fs[Script] = ScriptOf(script, K) /\ fs[Script].constants = K
       /\ fs[1].argc = 1 /\ fs[1].code = body
  BY DEF ScriptOf, FunctionBody, script, main, body, self
<1>11. ReturningBodies(fs, A)
  BY <1>8, <1>10 DEF ReturningBodies
<1>12. Statement(K, A, 1, body)  BY <1>8, EndsIsStatement
<1>13. Composed(fs, A)
  <2>1. "HALT" \in A  BY DEF A
  <2>2. ASSUME NEW f \in FunctionIds \ {Script}
        PROVE  fs[f].argc \in Nat /\ Statement(K, A, fs[f].argc, fs[f].code)
    BY <1>10, <1>12
  <2>. QED  BY <1>9, <1>10, <2>1, <2>2 DEF Composed
<1>. QED  BY <1>1, <1>11, <1>13
=============================================================================
