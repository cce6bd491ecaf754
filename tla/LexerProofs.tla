----------------------------- MODULE LexerProofs -----------------------------
(***************************************************************************)
(* Lexer's inductive invariant LInv, and the properties that follow.  First*)
(* come the recursive functions, then the small steps of the lexer; then   *)
(* GotoKeeps says what a round of lex has to establish, and a lemma for    *)
(* each round shows that it does.                                          *)
(***************************************************************************)
EXTENDS Lexer, SequenceTheorems, WellFoundedInduction, TLAPS

-----------------------------------------------------------------------------
(* Recursive functions: what they are for every input.  Induction is a     *)
(* least counterexample.                                                   *)

(* A set of natural numbers has a least element.                           *)
LEMMA LeastOf ==
  ASSUME NEW T \in SUBSET Nat, T # {}
  PROVE  \E x \in T : \A y \in T : x <= y
<1>. DEFINE Less == {p \in Nat \X Nat : p[1] < p[2]}
<1>1. IsWellFoundedOn(Less, Nat)
  BY NatLessThanWellFounded DEF OpToRel
<1>2. PICK x \in T : \A y \in T : <<y, x>> \notin Less
  <2>. HIDE DEF Less
  <2>. QED  BY <1>1, WFMin
<1>3. ASSUME NEW y \in T  PROVE x <= y
  <2>1. <<y, x>> \notin Less /\ x \in Nat /\ y \in Nat  BY <1>2
  <2>. QED  BY <2>1
<1>. QED  BY <1>3

(* The values of the first k digits, one after the other.                  *)
Valued(d, k, g) ==
  g = [n \in 0 .. k |-> IF n = 0 THEN 0 ELSE 10 * g[n - 1] + DigitValue[d[n]]]

LEMMA ValuedExists ==
  ASSUME NEW d \in Seq(Digits)
  PROVE  \A k \in 0 .. Len(d) : \E g \in [0 .. k -> Nat] : Valued(d, k, g)
<1>. DEFINE P(k) == \E g \in [0 .. k -> Nat] : Valued(d, k, g)
            T == {k \in 0 .. Len(d) : ~P(k)}
<1>1. P(0)
  <2>. DEFINE g == [n \in 0 .. 0 |-> 0]
  <2>1. g \in [0 .. 0 -> Nat] /\ Valued(d, 0, g)  BY DEF Valued
  <2>. QED  BY <2>1
<1>2. ASSUME NEW k \in 1 .. Len(d), P(k - 1)  PROVE P(k)
  <2>1. PICK h \in [0 .. k - 1 -> Nat] : Valued(d, k - 1, h)  BY <1>2
  <2>2. \A n \in 0 .. k - 1 :
          h[n] = IF n = 0 THEN 0 ELSE 10 * h[n - 1] + DigitValue[d[n]]
    BY <2>1 DEF Valued
  <2>3. d[k] \in Digits /\ DigitValue[d[k]] \in Nat
    <3>1. d[k] \in Digits  OBVIOUS
    <3>2. DigitValue \in [Digits -> 0 .. 9]  BY LexerAssumption, Zenon
    <3>3. DigitValue[d[k]] \in 0 .. 9  BY <3>1, <3>2
    <3>. QED  BY <3>1, <3>3
  <2>. DEFINE g == [n \in 0 .. k |-> IF n = k THEN 10 * h[k - 1] + DigitValue[d[k]] ELSE h[n]]
  <2>4. g \in [0 .. k -> Nat]  BY <2>3
  <2>5. ASSUME NEW n \in 0 .. k
        PROVE  g[n] = IF n = 0 THEN 0 ELSE 10 * g[n - 1] + DigitValue[d[n]]
    <3>1. CASE n = k  BY <3>1
    <3>2. CASE n # k /\ n # 0  BY <2>2, <3>2
    <3>3. CASE n # k /\ n = 0  BY <2>2, <3>3
    <3>. QED  BY <3>1, <3>2, <3>3
  <2>6. Valued(d, k, g)
    <3>. HIDE DEF g
    <3>. QED  BY <2>4, <2>5 DEF Valued
  <2>. QED  BY <2>4, <2>6
<1>. HIDE DEF P
<1>. SUFFICES \A k \in 0 .. Len(d) : P(k)  BY DEF P
<1>. SUFFICES ASSUME T # {}  PROVE FALSE  OBVIOUS
<1>3. PICK k \in T : \A y \in T : k <= y
  <2>1. T \in SUBSET Nat  OBVIOUS
  <2>. HIDE DEF T
  <2>. QED  BY <2>1, LeastOf
<1>4. k # 0 /\ k \in 0 .. Len(d) /\ ~P(k)  BY <1>1, <1>3
<1>5. k - 1 \in 0 .. Len(d) /\ k - 1 \notin T /\ k \in 1 .. Len(d)
  <2>1. k - 1 \in 0 .. Len(d) /\ k \in 1 .. Len(d)  BY <1>4
  <2>2. ~(k <= k - 1)  BY <1>4
  <2>. QED  BY <1>3, <2>1, <2>2
<1>. QED  BY <1>2, <1>4, <1>5

(* Sequences that begin with the same digits have the same values there.   *)
LEMMA ValuedUnique ==
  ASSUME NEW d \in Seq(Digits), NEW e \in Seq(Digits),
         NEW k \in Nat, NEW m \in Nat, NEW l \in Nat, l <= k, l <= m,
         \A i \in 1 .. l : d[i] = e[i],
         NEW g, Valued(d, k, g), NEW h, Valued(e, m, h)
  PROVE  g[l] = h[l]
<1>. DEFINE T == {n \in 0 .. l : g[n] # h[n]}
<1>1. \A n \in 0 .. k : g[n] = IF n = 0 THEN 0 ELSE 10 * g[n - 1] + DigitValue[d[n]]
  BY DEF Valued
<1>2. \A n \in 0 .. m : h[n] = IF n = 0 THEN 0 ELSE 10 * h[n - 1] + DigitValue[e[n]]
  BY DEF Valued
<1>. SUFFICES ASSUME T # {}  PROVE FALSE  OBVIOUS
<1>3. PICK n \in T : \A y \in T : n <= y
  <2>1. T \in SUBSET Nat  OBVIOUS
  <2>. HIDE DEF T
  <2>. QED  BY <2>1, LeastOf
<1>4. n \in 0 .. l /\ g[n] # h[n]  BY <1>3
<1>5. n # 0  BY <1>1, <1>2, <1>4
<1>6. n - 1 \in 0 .. l /\ n - 1 \notin T
  <2>1. n - 1 \in 0 .. l /\ ~(n <= n - 1)  BY <1>4, <1>5
  <2>. QED  BY <1>3, <2>1
<1>7. g[n - 1] = h[n - 1]  BY <1>6
<1>8. g[n] = 10 * g[n - 1] + DigitValue[d[n]]  BY <1>1, <1>4, <1>5
<1>9. h[n] = 10 * h[n - 1] + DigitValue[e[n]]  BY <1>2, <1>4, <1>5
<1>10. d[n] = e[n]  BY <1>4, <1>5
<1>. QED  BY <1>4, <1>7, <1>8, <1>9, <1>10

LEMMA MagnitudeIs ==
  ASSUME NEW d \in Seq(Digits)
  PROVE  \E g \in [0 .. Len(d) -> Nat] : Valued(d, Len(d), g) /\ Magnitude(d) = g[Len(d)]
<1>. DEFINE v == CHOOSE g : Valued(d, Len(d), g)
<1>1. Len(d) \in 0 .. Len(d)  OBVIOUS
<1>2. PICK h \in [0 .. Len(d) -> Nat] : Valued(d, Len(d), h)  BY <1>1, ValuedExists
<1>3. Valued(d, Len(d), v)  BY <1>2
<1>4. Magnitude(d) = v[Len(d)]  BY DEF Magnitude, Valued
<1>. HIDE DEF v
<1>5. v[Len(d)] = h[Len(d)]
  <2>1. Len(d) \in Nat /\ Len(d) <= Len(d) /\ \A i \in 1 .. Len(d) : d[i] = d[i]  OBVIOUS
  <2>. QED  BY <1>2, <1>3, <2>1, ValuedUnique
<1>. QED  BY <1>2, <1>4, <1>5

(* The value of a literal's digits is a number, and each digit read makes  *)
(* it ten times what it was, and the digit more (lexer.c:239-262).         *)
THEOREM MagnitudeOfDigits ==
  /\ Magnitude(<<>>) = 0
  /\ \A d \in Seq(Digits) : Magnitude(d) \in Nat
  /\ \A d \in Seq(Digits), c \in Digits :
       Magnitude(Append(d, c)) = 10 * Magnitude(d) + DigitValue[c]
<1>1. ASSUME NEW d \in Seq(Digits)  PROVE Magnitude(d) \in Nat
  <2>1. PICK g \in [0 .. Len(d) -> Nat] : Magnitude(d) = g[Len(d)]  BY MagnitudeIs
  <2>. QED  BY <2>1
<1>2. Magnitude(<<>>) = 0
  <2>1. <<>> \in Seq(Digits) /\ Len(<<>>) = 0  OBVIOUS
  <2>2. PICK g : Valued(<<>>, 0, g) /\ Magnitude(<<>>) = g[0]  BY <2>1, MagnitudeIs
  <2>. QED  BY <2>2 DEF Valued
<1>3. ASSUME NEW d \in Seq(Digits), NEW c \in Digits
      PROVE  Magnitude(Append(d, c)) = 10 * Magnitude(d) + DigitValue[c]
  <2>. DEFINE e == Append(d, c)
  <2>1. /\ e \in Seq(Digits) /\ Len(e) = Len(d) + 1 /\ e[Len(d) + 1] = c
        /\ \A i \in 1 .. Len(d) : e[i] = d[i]
    OBVIOUS
  <2>. HIDE DEF e
  <2>2. PICK h : Valued(d, Len(d), h) /\ Magnitude(d) = h[Len(d)]  BY MagnitudeIs
  <2>3. PICK g : Valued(e, Len(d) + 1, g) /\ Magnitude(e) = g[Len(d) + 1]
    BY <2>1, MagnitudeIs
  <2>4. Len(d) \in Nat /\ Len(d) + 1 \in Nat /\ Len(d) <= Len(d) + 1 /\ Len(d) <= Len(d)
    OBVIOUS
  <2>5. g[Len(d)] = h[Len(d)]
    <3>1. \A i \in 1 .. Len(d) : e[i] = d[i]  BY <2>1
    <3>2. Valued(e, Len(d) + 1, g) /\ Valued(d, Len(d), h)  BY <2>2, <2>3
    <3>3. \A i \in 1 .. Len(d) : d[i] = e[i]  BY <3>1
    <3>. DEFINE k == Len(d)
                m == Len(d) + 1
    <3>4. /\ k \in Nat /\ m \in Nat /\ k <= k /\ k <= m
          /\ Valued(e, m, g) /\ Valued(d, k, h) /\ \A i \in 1 .. k : d[i] = e[i]
      BY <2>4, <3>2, <3>3
    <3>. HIDE DEF k, m
    <3>5. h[k] = g[k]  BY <2>1, <3>4, ValuedUnique
    <3>. QED  BY <3>5 DEF k
  <2>6. Len(d) + 1 \in 0 .. Len(d) + 1 /\ Len(d) + 1 # 0 /\ Len(d) + 1 - 1 = Len(d)
    OBVIOUS
  <2>7. g[Len(d) + 1] = 10 * g[Len(d) + 1 - 1] + DigitValue[e[Len(d) + 1]]
    BY <2>3, <2>6 DEF Valued
  <2>. QED  BY <2>1, <2>2, <2>3, <2>5, <2>6, <2>7 DEF e
<1>. QED  BY <1>1, <1>2, <1>3

-----------------------------------------------------------------------------
(* The same for the text between quotes.                                   *)

Undecoded == [esc |-> FALSE, out |-> <<>>]

SoFar(c, k, g) ==
  g = [n \in 0 .. k |-> IF n = 0 THEN Undecoded ELSE Decode(g[n - 1], c[n])]

LEMMA SoFarExists ==
  ASSUME NEW c \in Seq(Source)
  PROVE  \A k \in 0 .. Len(c) : \E g : SoFar(c, k, g)
<1>. DEFINE P(k) == \E g : SoFar(c, k, g)
            T == {k \in 0 .. Len(c) : ~P(k)}
<1>1. P(0)
  <2>. DEFINE g == [n \in 0 .. 0 |-> Undecoded]
  <2>1. SoFar(c, 0, g)  BY DEF SoFar
  <2>. QED  BY <2>1
<1>2. ASSUME NEW k \in 1 .. Len(c), P(k - 1)  PROVE P(k)
  <2>1. PICK h : SoFar(c, k - 1, h)  BY <1>2
  <2>2. \A n \in 0 .. k - 1 :
          h[n] = IF n = 0 THEN Undecoded ELSE Decode(h[n - 1], c[n])
    BY <2>1 DEF SoFar
  <2>. DEFINE g == [n \in 0 .. k |-> IF n = k THEN Decode(h[k - 1], c[k]) ELSE h[n]]
  <2>3. ASSUME NEW n \in 0 .. k
        PROVE  g[n] = IF n = 0 THEN Undecoded ELSE Decode(g[n - 1], c[n])
    <3>1. CASE n = k  BY <3>1
    <3>2. CASE n # k /\ n # 0  BY <2>2, <3>2
    <3>3. CASE n # k /\ n = 0  BY <2>2, <3>3
    <3>. QED  BY <3>1, <3>2, <3>3
  <2>4. g = [n \in 0 .. k |-> g[n]]  OBVIOUS
  <2>5. SoFar(c, k, g)
    <3>. HIDE DEF g
    <3>. QED  BY <2>3, <2>4 DEF SoFar
  <2>. QED  BY <2>5
<1>. HIDE DEF P
<1>. SUFFICES \A k \in 0 .. Len(c) : P(k)  BY DEF P
<1>. SUFFICES ASSUME T # {}  PROVE FALSE  OBVIOUS
<1>3. PICK k \in T : \A y \in T : k <= y
  <2>1. T \in SUBSET Nat  OBVIOUS
  <2>. HIDE DEF T
  <2>. QED  BY <2>1, LeastOf
<1>4. k # 0 /\ k \in 0 .. Len(c) /\ ~P(k)  BY <1>1, <1>3
<1>5. k - 1 \in 0 .. Len(c) /\ k - 1 \notin T /\ k \in 1 .. Len(c)
  <2>1. k - 1 \in 0 .. Len(c) /\ k \in 1 .. Len(c)  BY <1>4
  <2>2. ~(k <= k - 1)  BY <1>4
  <2>. QED  BY <1>3, <2>1, <2>2
<1>. QED  BY <1>2, <1>4, <1>5

LEMMA SoFarUnique ==
  ASSUME NEW c \in Seq(Source), NEW e \in Seq(Source),
         NEW k \in Nat, NEW m \in Nat, NEW l \in Nat, l <= k, l <= m,
         \A i \in 1 .. l : c[i] = e[i],
         NEW g, SoFar(c, k, g), NEW h, SoFar(e, m, h)
  PROVE  g[l] = h[l]
<1>. DEFINE T == {n \in 0 .. l : g[n] # h[n]}
<1>1. \A n \in 0 .. k : g[n] = IF n = 0 THEN Undecoded ELSE Decode(g[n - 1], c[n])
  BY DEF SoFar
<1>2. \A n \in 0 .. m : h[n] = IF n = 0 THEN Undecoded ELSE Decode(h[n - 1], e[n])
  BY DEF SoFar
<1>. SUFFICES ASSUME T # {}  PROVE FALSE  OBVIOUS
<1>3. PICK n \in T : \A y \in T : n <= y
  <2>1. T \in SUBSET Nat  OBVIOUS
  <2>. HIDE DEF T
  <2>. QED  BY <2>1, LeastOf
<1>4. n \in 0 .. l /\ g[n] # h[n]  BY <1>3
<1>5. n # 0  BY <1>1, <1>2, <1>4
<1>6. n - 1 \in 0 .. l /\ n - 1 \notin T
  <2>1. n - 1 \in 0 .. l /\ ~(n <= n - 1)  BY <1>4, <1>5
  <2>. QED  BY <1>3, <2>1
<1>7. g[n - 1] = h[n - 1]  BY <1>6
<1>8. g[n] = Decode(g[n - 1], c[n])  BY <1>1, <1>4, <1>5
<1>9. h[n] = Decode(h[n - 1], e[n])  BY <1>2, <1>4, <1>5
<1>10. c[n] = e[n]  BY <1>4, <1>5
<1>. QED  BY <1>4, <1>7, <1>8, <1>9, <1>10

LEMMA DecodedIs ==
  ASSUME NEW c \in Seq(Source)
  PROVE  \E g : SoFar(c, Len(c), g) /\ Decoded(c) = g[Len(c)]
<1>. DEFINE v == CHOOSE g : SoFar(c, Len(c), g)
<1>1. Len(c) \in 0 .. Len(c)  OBVIOUS
<1>2. \E h : SoFar(c, Len(c), h)  BY <1>1, SoFarExists
<1>3. SoFar(c, Len(c), v)  BY <1>2
<1>4. Decoded(c) = v[Len(c)]  BY DEF Decoded, SoFar, Undecoded
<1>. QED  BY <1>3, <1>4

(* A string literal is decoded character by character, for every source    *)
(* (lexer.c:283-353).                                                      *)
THEOREM DecodedCharacters ==
  /\ Decoded(<<>>) = [esc |-> FALSE, out |-> <<>>]
  /\ \A c \in Seq(Source), b \in Source : Decoded(Append(c, b)) = Decode(Decoded(c), b)
<1>1. Decoded(<<>>) = Undecoded
  <2>1. <<>> \in Seq(Source) /\ Len(<<>>) = 0  OBVIOUS
  <2>2. PICK g : SoFar(<<>>, 0, g) /\ Decoded(<<>>) = g[0]  BY <2>1, DecodedIs
  <2>. QED  BY <2>2 DEF SoFar
<1>2. ASSUME NEW c \in Seq(Source), NEW b \in Source
      PROVE  Decoded(Append(c, b)) = Decode(Decoded(c), b)
  <2>. DEFINE e == Append(c, b)
              k == Len(c)
              m == Len(c) + 1
  <2>1. /\ e \in Seq(Source) /\ Len(e) = m /\ e[m] = b
        /\ \A i \in 1 .. k : c[i] = e[i]
        /\ k \in Nat /\ m \in Nat /\ k <= k /\ k <= m
        /\ m \in 0 .. m /\ m # 0 /\ m - 1 = k
    OBVIOUS
  <2>2. PICK h : SoFar(c, k, h) /\ Decoded(c) = h[k]  BY DecodedIs
  <2>. HIDE DEF e, m
  <2>3. PICK g : SoFar(e, m, g) /\ Decoded(e) = g[m]  BY <2>1, DecodedIs
  <2>. HIDE DEF k
  <2>4. h[k] = g[k]  BY <2>1, <2>2, <2>3, SoFarUnique
  <2>5. g[m] = Decode(g[m - 1], e[m])  BY <2>1, <2>3 DEF SoFar
  <2>. QED  BY <2>1, <2>2, <2>3, <2>4, <2>5 DEF e
<1>. QED  BY <1>1, <1>2 DEF Undecoded

-----------------------------------------------------------------------------
(* The small steps of the lexer. *)

BufferType == DOMAIN buffer \subseteq Nat /\ buffer \in [DOMAIN buffer -> Source]
LexStates  == [pos : Nat, current : Source, text : Seq(Stored), cap : Nat]
Fits(s)    == s \in LexStates /\ Len(s.text) + 1 <= s.cap

(* The current character of s is that at h.                                *)
Stands(s, h) ==
  /\ h \in Nat
  /\ s.current = ReadByte(buffer, h)
  /\ s.pos = IF s.current = "EOF" THEN h ELSE h + 1

LEMMA ReadByteType ==
  ASSUME NEW b, DOMAIN b \subseteq Nat, b \in [DOMAIN b -> Source], NEW i
  PROVE  ReadByte(b, i) \in Source
<1>1. CASE i \in DOMAIN b  BY <1>1 DEF ReadByte
<1>2. CASE i \notin DOMAIN b  BY <1>2 DEF ReadByte, Source
<1>. QED  BY <1>1, <1>2

LEMMA AdvanceFits ==
  ASSUME BufferType, NEW s, Fits(s)
  PROVE  /\ Fits(Advance(s))
         /\ Advance(s).text = s.text /\ Advance(s).cap = s.cap
         /\ Advance(s).current = ReadByte(buffer, s.pos)
<1>1. ReadByte(buffer, s.pos) \in Source  BY ReadByteType DEF BufferType
<1>. DEFINE c == ReadByte(buffer, s.pos)
            p == IF c = "EOF" THEN s.pos ELSE s.pos + 1
<1>. HIDE DEF c
<1>2. s \in LexStates  BY DEF Fits
<1>3. Advance(s) = [s EXCEPT !.current = c, !.pos = p]
  BY <1>2 DEF Advance, AdvanceIn, c, LexStates
<1>4. p \in Nat  BY <1>2 DEF LexStates
<1>. HIDE DEF p
<1>5. /\ Advance(s) \in LexStates /\ Advance(s).current = c
      /\ Advance(s).text = s.text /\ Advance(s).cap = s.cap
  BY <1>1, <1>2, <1>3, <1>4 DEF LexStates, c
<1>. QED  BY <1>5 DEF Fits, c

LEMMA AdvanceStands ==
  ASSUME NEW s, Fits(s), NEW h, Stands(s, h)
  PROVE  /\ s.current # "EOF" => Stands(Advance(s), h + 1)
         /\ s.current = "EOF" => Stands(Advance(s), h) /\ Advance(s).current = "EOF"
BY DEF Fits, LexStates, Stands, Advance, AdvanceIn

LEMMA SaveFits ==
  ASSUME NEW s, Fits(s), NEW c \in Stored
  PROVE  /\ Fits(Save(s, c))
         /\ Save(s, c).text = Append(s.text, c)
         /\ Save(s, c).pos = s.pos /\ Save(s, c).current = s.current
<1>1. /\ s.text \in Seq(Stored) /\ s.pos \in Nat /\ s.current \in Source /\ s.cap \in Nat
      /\ Len(s.text) + 1 <= s.cap
  BY DEF Fits, LexStates
<1>2. Append(s.text, c) \in Seq(Stored) /\ Len(Append(s.text, c)) = Len(s.text) + 1
  BY <1>1
<1>3. Save(s, c) = [s EXCEPT !.text = Append(s.text, c),
                              !.cap  = IF Len(s.text) + 1 >= s.cap THEN 2 * s.cap ELSE s.cap]
  BY DEF Save
<1>4. /\ Save(s, c).text = Append(s.text, c)
      /\ Save(s, c).pos = s.pos /\ Save(s, c).current = s.current
      /\ Save(s, c).cap = IF Len(s.text) + 1 >= s.cap THEN 2 * s.cap ELSE s.cap
      /\ Save(s, c) = [pos |-> s.pos, current |-> s.current, text |-> Append(s.text, c),
                       cap |-> IF Len(s.text) + 1 >= s.cap THEN 2 * s.cap ELSE s.cap]
  BY <1>3 DEF Fits, LexStates
<1>5. Save(s, c).cap \in Nat /\ Len(s.text) + 2 <= Save(s, c).cap
  BY <1>1, <1>4
<1>6. Save(s, c) \in LexStates  BY <1>1, <1>2, <1>4, <1>5 DEF LexStates
<1>. QED  BY <1>2, <1>4, <1>5, <1>6 DEF Fits

LEMMA SaveStands ==
  ASSUME NEW s, Fits(s), NEW c \in Stored, NEW h, Stands(s, h)
  PROVE  Stands(Save(s, c), h)
BY SaveFits DEF Stands

LEMMA SourceStored ==
  Source \subseteq Stored /\ \A c \in Source : Escaped(c) \in Stored
<1>1. Source \subseteq Stored  BY DEF Stored
<1>2. ASSUME NEW c \in Source  PROVE Escaped(c) \in Stored
  <2>1. CASE \E e \in Escapes : e[1] = c
    <3>1. (CHOOSE e \in Escapes : e[1] = c) \in Escapes  BY <2>1
    <3>. QED  BY <2>1, <3>1 DEF Escaped, Stored
  <2>2. CASE ~\E e \in Escapes : e[1] = c  BY <1>1, <2>2 DEF Escaped
  <2>. QED  BY <2>1, <2>2
<1>. QED  BY <1>1, <1>2

LEMMA SaveAndNextFits ==
  ASSUME BufferType, NEW s, Fits(s)
  PROVE  /\ Fits(SaveAndNext(s)) /\ SaveAndNext(s).text = Append(s.text, s.current)
         /\ \A h : Stands(s, h) =>
              /\ s.current # "EOF" => Stands(SaveAndNext(s), h + 1)
              /\ s.current = "EOF" => Stands(SaveAndNext(s), h)
                                      /\ SaveAndNext(s).current = "EOF"
<1>. DEFINE t == Save(s, s.current)
<1>1. s.current \in Stored  BY SourceStored DEF Fits, LexStates
<1>2. Fits(t) /\ t.text = Append(s.text, s.current) /\ t.current = s.current
  BY <1>1, SaveFits
<1>3. \A h : Stands(s, h) => Stands(t, h)  BY <1>1, SaveStands
<1>4. SaveAndNext(s) = Advance(t)  BY DEF SaveAndNext
<1>. HIDE DEF t
<1>5. Fits(Advance(t)) /\ Advance(t).text = t.text  BY <1>2, AdvanceFits
<1>6. \A h : Stands(t, h) =>
         /\ t.current # "EOF" => Stands(Advance(t), h + 1)
         /\ t.current = "EOF" => Stands(Advance(t), h) /\ Advance(t).current = "EOF"
  BY <1>2, AdvanceStands
<1>. QED  BY <1>2, <1>3, <1>4, <1>5, <1>6

(* An escape is two characters of the source, unless byte 255 cuts it off. *)
LEMMA EscapeFits ==
  ASSUME BufferType, NEW s, Fits(s), s.current # "EOF"
  PROVE  /\ Fits(Escape(s))
         /\ \A h : Stands(s, h) =>
              \/ /\ ReadByte(buffer, h + 1) = "EOF"
                 /\ Escape(s).current = "EOF" /\ Escape(s).text = s.text
                 /\ Stands(Escape(s), h + 1)
              \/ /\ ReadByte(buffer, h + 1) # "EOF"
                 /\ Escape(s).text = Append(s.text, Escaped(ReadByte(buffer, h + 1)))
                 /\ Stands(Escape(s), h + 2)
<1>. DEFINE t == Advance(s)
            u == Advance(t)
<1>1. Fits(t) /\ t.text = s.text  BY AdvanceFits
<1>2. t.current \in Source  BY <1>1 DEF Fits, LexStates
<1>3. Escaped(t.current) \in Stored  BY <1>2, SourceStored
<1>4. Escape(s) = IF t.current = "EOF" THEN t ELSE Save(u, Escaped(t.current))
  BY DEF Escape
<1>5. \A h : Stands(s, h) => Stands(t, h + 1)  BY AdvanceStands
<1>. HIDE DEF t
<1>6. Fits(u) /\ u.text = t.text  BY <1>1, AdvanceFits
<1>7. ASSUME t.current # "EOF", NEW h, Stands(t, h)  PROVE Stands(u, h + 1)
  BY <1>1, <1>7, AdvanceStands
<1>. HIDE DEF u
<1>. DEFINE v == Save(u, Escaped(t.current))
<1>8. Fits(v) /\ v.text = Append(u.text, Escaped(t.current))
  BY <1>3, <1>6, SaveFits
<1>9. \A h : Stands(u, h) => Stands(v, h)  BY <1>3, <1>6, SaveStands
<1>. HIDE DEF v
<1>10. Fits(Escape(s))  BY <1>1, <1>4, <1>8 DEF v
<1>11. ASSUME NEW h, Stands(s, h)
       PROVE  \/ /\ ReadByte(buffer, h + 1) = "EOF"
                 /\ Escape(s).current = "EOF" /\ Escape(s).text = s.text
                 /\ Stands(Escape(s), h + 1)
              \/ /\ ReadByte(buffer, h + 1) # "EOF"
                 /\ Escape(s).text = Append(s.text, Escaped(ReadByte(buffer, h + 1)))
                 /\ Stands(Escape(s), h + 2)
  <2>1. Stands(t, h + 1) /\ h \in Nat  BY <1>5, <1>11 DEF Stands
  <2>2. t.current = ReadByte(buffer, h + 1)  BY <2>1 DEF Stands
  <2>3. CASE t.current = "EOF"  BY <1>1, <1>4, <2>1, <2>2, <2>3
  <2>4. CASE t.current # "EOF"
    <3>1. h + 1 + 1 = h + 2  BY <2>1
    <3>2. Stands(v, h + 2)  BY <1>7, <1>9, <2>1, <2>4, <3>1
    <3>3. Escape(s) = v  BY <1>4, <2>4 DEF v
    <3>. QED  BY <1>1, <1>6, <1>8, <2>2, <2>4, <3>2, <3>3
  <2>. QED  BY <2>3, <2>4
<1>. QED  BY <1>10, <1>11

-----------------------------------------------------------------------------
(* What a step of lex has to establish, to the place `place`, the state s  *)
(* and the character at h.                                                 *)

Places == {"between", "start", "comment", "string", "name", "numeral"}

SavedAt(place, s) ==
  /\ place \in {"start", "comment"} => s.text = <<>>
  /\ place = "name" => /\ s.text \in Seq(NamePart) /\ s.text # <<>>
                       /\ s.text[1] \in NameStart
  /\ place = "numeral" => /\ s.text \in Seq(Digits \cup {"."}) /\ s.text # <<>>
                          /\ s.text[1] \in Digits

Preceded(h) == h > 0 => buffer[h - 1] \notin NameStart

BegunAt(place, s, h) ==
  /\ place \in {"start", "between"} /\ s.current \in NamePart => Preceded(h)
  /\ place \in {"name", "numeral"} =>
       /\ h - Len(s.text) >= 0
       /\ s.text = Slice(h - Len(s.text), h)
       /\ Preceded(h - Len(s.text))
  /\ place = "string" /\ s.current # "EOF" =>
       \E i \in 0 .. h - 1 :
         /\ buffer[i] = Quote
         /\ Decoded(Slice(i + 1, h)) = [esc |-> FALSE, out |-> s.text]

WithinAt(place, h) ==
  Bounded =>
    /\ h <= Len(Line)
    /\ place \in {"comment", "string"} => h < Len(Line) /\ Line[Len(Line)] = "NL"
    /\ place = "string" => \E i \in 1 .. h : Line[i] = Quote

Explained(e) ==
  e => \E n \in DOMAIN chunks :
         Overlong(chunks[n]) \/ (Holds(chunks[n], "^") /\ n < Len(chunks))

TokenProperties == OwnValue /\ TextIsLexeme /\ KindByMagnitude

LEMMA Standpoint ==
  ASSUME LInv, status = "parsing"
  PROVE  /\ BufferType /\ Fits(ls) /\ Stands(ls, Here)
         /\ Here \in DOMAIN buffer /\ Here \in Nat /\ ls.current = buffer[Here]
         /\ ls.current # "UNSET"
         /\ at \in Places
         /\ SavedAt(at, ls) /\ BegunAt(at, ls, Here) /\ WithinAt(at, Here)
         /\ Explained(erange)
         /\ chunks # <<>> /\ Line \in Seq(Chars) /\ Line = chunks[Len(chunks)]
         /\ Len(chunks) \in DOMAIN chunks
         /\ Len(Line) \in DOMAIN buffer
         /\ \A i \in 0 .. Len(Line) - 1 : i \in DOMAIN buffer /\ buffer[i] = Line[i + 1]
         /\ \A k \in DOMAIN buffer : \A j \in 0 .. k : j \in DOMAIN buffer
<1>1. BufferType /\ Fits(ls)
  BY DEF LInv, TypeOK, BufferFits, BufferType, Fits, LexStates
<1>2. /\ Here \in DOMAIN buffer /\ ls.current = buffer[Here] /\ ls.current # "UNSET"
  BY DEF LInv, Standing
<1>3. Here \in Nat  BY <1>1, <1>2 DEF BufferType
<1>4. Stands(ls, Here)
  <2>1. ls.current = ReadByte(buffer, Here)  BY <1>2 DEF ReadByte
  <2>2. ls.pos \in Nat  BY <1>1 DEF Fits, LexStates
  <2>3. Here = IF ls.current = "EOF" THEN ls.pos ELSE ls.pos - 1  BY DEF Here
  <2>. HIDE DEF Here
  <2>. QED  BY <1>3, <2>1, <2>2, <2>3 DEF Stands
<1>5. at \in Places  BY DEF LInv, TypeOK, Places
<1>6. SavedAt(at, ls)  BY DEF LInv, Saved, SavedAt
<1>7. BegunAt(at, ls, Here)
  BY DEF LInv, Begun, BegunAt, Preceded
<1>8. WithinAt(at, Here)  BY DEF LInv, WithinLine, WithinAt
<1>9. Explained(erange)  BY DEF LInv, ErangeExplained, Explained
<1>10. /\ chunks # <<>> /\ Len(Line) \in DOMAIN buffer
       /\ \A i \in 0 .. Len(Line) - 1 : i \in DOMAIN buffer /\ buffer[i] = Line[i + 1]
  BY DEF LInv, SourceHeld
<1>11. Line = chunks[Len(chunks)]  BY DEF Line, Last
<1>12. chunks \in Seq(Seq(Chars))  BY DEF LInv, TypeOK
<1>13. Len(chunks) \in DOMAIN chunks  BY <1>10, <1>12
<1>14. Line \in Seq(Chars)  BY <1>11, <1>12, <1>13, ElementOfSeq
<1>15. \A k \in DOMAIN buffer : \A j \in 0 .. k : j \in DOMAIN buffer
  <2>1. DOMAIN buffer = 0 .. BUFFER_SIZE - 1 \/ DOMAIN buffer = 0 .. Len(Line)
    BY DEF LInv, SourceHeld, TypeOK
  <2>2. BUFFER_SIZE - 1 \in Int /\ Len(Line) \in Int
    BY <1>14, LexerAssumption
  <2>. QED  BY <2>1, <2>2
<1>. QED
  BY <1>1, <1>2, <1>3, <1>4, <1>5, <1>6, <1>7, <1>8, <1>9, <1>10, <1>11, <1>13, <1>14, <1>15

(* The invariant holds where a step leads that establishes all this.       *)
LEMMA GotoKeeps ==
  ASSUME LInv, status = "parsing", UNCHANGED input,
         NEW place \in Places, NEW s, NEW h, Fits(s), Stands(s, h), Goto(place, s),
         semi' \in SemInfos, erange' \in BOOLEAN,
         token' \in [type : TokenTypes, value : SemInfos],
         s.current = "UNSET" \/ (SavedAt(place, s) /\ BegunAt(place, s, h)),
         WithinAt(place, h),
         Explained(erange'),
         token' = token \/ (token'.type = "HIGH" => ls.current = "HIGH" /\ h > Here),
         place # "between" \/ s.current = "UNSET" \/ TokenProperties'
  PROVE  LInv'
<1>1. /\ repl' = repl /\ buffer' = buffer /\ rest' = rest /\ ended' = ended
      /\ opened' = opened /\ chunks' = chunks /\ ls' = s
  BY DEF input, Goto
<1>2. Line' = Line /\ Bounded' = Bounded
  BY <1>1 DEF Line, Bounded, MayRunOn
<1>3. \/ status' = "undefined" /\ at' = at /\ s.current = "UNSET"
      \/ status' = "parsing" /\ at' = place /\ s.current # "UNSET"
  BY DEF Goto
<1>4. Here' = h
  <2>1. Here' = IF s.current = "EOF" THEN s.pos ELSE s.pos - 1  BY <1>1 DEF Here
  <2>. QED  BY <2>1 DEF Stands
<1>5. TypeOK'
  BY <1>1, <1>3 DEF LInv, TypeOK, Fits, LexStates, Places
<1>6. BufferFits'  BY <1>1 DEF BufferFits, Fits
<1>7. TokenProperties'
  <2>1. CASE place # "between" \/ s.current = "UNSET"
    <3>1. ~Delivered'
      <4>1. CASE status' = "undefined"  BY <4>1 DEF Delivered, Running
      <4>2. CASE at' = place /\ s.current # "UNSET"
        BY <2>1, <4>2 DEF Delivered, Running
      <4>. QED  BY <1>3, <4>1, <4>2
    <3>. QED  BY <3>1 DEF TokenProperties, OwnValue, TextIsLexeme, KindByMagnitude
  <2>. QED  BY <2>1
<1>8. SourceHeld'
  BY <1>1, <1>2, <1>3 DEF LInv, SourceHeld
<1>9. Standing'
  <2>1. CASE status' = "undefined"  BY <2>1 DEF Standing
  <2>2. CASE s.current # "UNSET"
    <3>1. h \in DOMAIN buffer /\ s.current = buffer[h]  BY <2>2 DEF Stands, ReadByte
    <3>. QED  BY <1>1, <1>4, <2>2, <3>1 DEF Standing
  <2>. QED  BY <1>3, <2>1, <2>2
<1>10. Saved'  BY <1>1, <1>3 DEF Saved, SavedAt
<1>11. Begun'
  <2>1. CASE status' = "undefined"  BY <2>1 DEF Begun
  <2>2. CASE at' = place /\ s.current # "UNSET"
    <3>1. \A i, j : Slice(i, j)' = Slice(i, j)  BY <1>1 DEF Slice
    <3>. QED  BY <1>1, <1>4, <2>2, <3>1 DEF Begun, BegunAt, Preceded
  <2>. QED  BY <1>3, <2>1, <2>2
<1>12. RunsRead'  BY <1>1 DEF LInv, RunsRead
<1>13. ErangeExplained'
  BY <1>1, <1>3 DEF ErangeExplained, Explained, Holds
<1>14. h \in Nat /\ Here \in Nat /\ Line \in Seq(Chars)  BY Standpoint DEF Stands
<1>15. ~repl /\ s.current # "UNSET" => h < Len(Line)
  <2>. SUFFICES ASSUME ~repl, s.current # "UNSET"  PROVE h < Len(Line)  OBVIOUS
  <2>1. h \in DOMAIN buffer /\ s.current = buffer[h]  BY DEF Stands, ReadByte
  <2>2. DOMAIN buffer = 0 .. Len(Line) /\ buffer[Len(Line)] = "UNSET"
    BY DEF LInv, SourceHeld
  <2>. QED  BY <1>14, <2>1, <2>2
<1>16. (Bounded \/ ~repl) /\ s.current # "UNSET" /\ token'.type = "HIGH" => Holds(Line, "HIGH")
  <2>. SUFFICES ASSUME Bounded \/ ~repl, s.current # "UNSET", token'.type = "HIGH"
                PROVE  Holds(Line, "HIGH")
    OBVIOUS
  <2>1. h <= Len(Line)  BY <1>14, <1>15 DEF WithinAt
  <2>2. CASE token' = token  BY <2>2 DEF LInv, WithinLine
  <2>3. CASE ls.current = "HIGH" /\ h > Here
    <3>1. ls.current = buffer[Here]  BY Standpoint
    <3>2. Here + 1 \in DOMAIN Line /\ Here \in 0 .. Len(Line) - 1
      BY <1>14, <2>1, <2>3
    <3>3. buffer[Here] = Line[Here + 1]  BY <3>2, Standpoint
    <3>. QED  BY <2>3, <3>1, <3>2, <3>3 DEF Holds
  <2>. QED  BY <2>2, <2>3
<1>17. WithinLine'
  <2>1. CASE status' = "undefined"  BY <2>1 DEF WithinLine
  <2>2. CASE status' = "parsing" /\ at' = place /\ s.current # "UNSET"
    BY <1>1, <1>2, <1>4, <1>16, <2>2 DEF WithinLine, WithinAt, Holds
  <2>. QED  BY <1>3, <2>1, <2>2
<1>18. status' = "undefined" => h >= Len(Line) /\ ~Bounded
  <2>. SUFFICES ASSUME status' = "undefined"  PROVE h >= Len(Line) /\ ~Bounded  OBVIOUS
  <2>1. s.current = "UNSET" /\ Len(Line) \in DOMAIN buffer  BY <1>3, Standpoint
  <2>2. h >= Len(Line)
    <3>. SUFFICES ASSUME h < Len(Line)  PROVE FALSE  BY <1>14
    <3>1. h + 1 \in DOMAIN Line /\ h \in 0 .. Len(Line) - 1  BY <1>14
    <3>2. h \in DOMAIN buffer /\ buffer[h] = Line[h + 1]  BY <3>1, Standpoint
    <3>3. Line[h + 1] \in Chars  BY <1>14, <3>1
    <3>. QED  BY <2>1, <3>2, <3>3, CharactersAssumption DEF Stands, ReadByte
  <2>3. ~Bounded
    <3>. SUFFICES ASSUME Bounded  PROVE FALSE  OBVIOUS
    <3>1. h = Len(Line)  BY <1>14, <2>2 DEF WithinAt
    <3>2. buffer[Len(Line)] = "NUL"  BY DEF LInv, SourceHeld, Bounded
    <3>. QED  BY <2>1, <3>1, <3>2 DEF Stands, ReadByte
  <2>. QED  BY <2>2, <2>3
<1>19. UndefinedExplained'
  <2>. SUFFICES ASSUME status' = "undefined"
                PROVE  \/ repl /\ MayRunOn(Line)
                       \/ ~repl /\ ls'.pos > Len(Line)
    BY <1>1, <1>2 DEF UndefinedExplained, Line, MayRunOn
  <2>1. s.pos = h + 1  BY <1>3 DEF Stands
  <2>. QED  BY <1>1, <1>14, <1>18, <2>1 DEF Bounded
<1>. QED
  BY <1>5, <1>6, <1>7, <1>8, <1>9, <1>10, <1>11, <1>12, <1>13, <1>17, <1>19
     DEF LInv, TokenProperties

-----------------------------------------------------------------------------
(* The rounds of lex, one after the other. *)

LEMMA PairsAre ==
  ASSUME NEW p \in Pairs
  PROVE  /\ p[1] \in {"+", "-", "&", "|", ">", "/", "!", "=", "<"}
         /\ p[2] \in {"+", "-", "&", "|", ">", "/", "="}
         /\ p[3] \in {"INC", "DEC", "AND", "OR", "GE", "IDIV", "NOTEQ", "EQ", "FATARROW",
                      "LE", "CONCAT"}
<1>1. p[1] \in {"+", "-", "&", "|", ">", "/", "!", "=", "<"}  BY DEF Pairs
<1>2. p[2] \in {"+", "-", "&", "|", ">", "/", "="}  BY DEF Pairs
<1>3. p[3] \in {"INC", "DEC", "AND", "OR", "GE", "IDIV", "NOTEQ", "EQ", "FATARROW",
                "LE", "CONCAT"}
  BY DEF Pairs
<1>. QED  BY <1>1, <1>2, <1>3

LEMMA Classes ==
  /\ \A c \in NameStart :
       c \notin Digits \cup Blanks \cup EndMarks \cup {".", Quote, Backslash, "'", "UNSET"}
                \cup {p[1] : p \in Pairs}
  /\ \A c \in Digits :
       c \notin Blanks \cup EndMarks \cup {".", "_", Quote, Backslash, "'", "UNSET"}
                \cup {p[1] : p \in Pairs}
<1>1. Letters \cap Digits = {} /\ (Letters \cup Digits) \cap Punctuation = {}
      /\ Chars \cap {"NUL", "UNSET"} = {}
  BY CharactersAssumption
<1>2. Letters \subseteq Chars /\ Digits \subseteq Chars  BY DEF Chars
<1>3. "_" \notin Blanks \cup EndMarks \cup {".", Quote, Backslash, "'", "UNSET"}
  BY DEF Blanks, NewLines, EndMarks, Quote, Backslash
<1>4. "_" \notin {p[1] : p \in Pairs}
  <2>1. ASSUME NEW p \in Pairs  PROVE p[1] # "_"  BY PairsAre, Zenon
  <2>. QED  BY <2>1, Zenon
<1>5. "_" \notin Digits  BY <1>1 DEF Punctuation
<1>. QED  BY <1>1, <1>2, <1>3, <1>4, <1>5 DEF NameStart, Punctuation, EndMarks

(* Where a line does not run on, what is not its terminator is in it.      *)
LEMMA InLine ==
  ASSUME LInv, status = "parsing", Bounded,
         NEW k \in Nat, k <= Len(Line), ReadByte(buffer, k) # "NUL"
  PROVE  /\ k < Len(Line) /\ k + 1 \in DOMAIN Line
         /\ Line[k + 1] = ReadByte(buffer, k)
<1>1. Line \in Seq(Chars) /\ Len(Line) \in DOMAIN buffer  BY Standpoint
<1>2. k # Len(Line)  BY <1>1 DEF ReadByte, LInv, SourceHeld, Bounded
<1>3. k < Len(Line) /\ k + 1 \in DOMAIN Line /\ k \in 0 .. Len(Line) - 1  BY <1>1, <1>2
<1>4. k \in DOMAIN buffer /\ buffer[k] = Line[k + 1]  BY <1>3, Standpoint
<1>. QED  BY <1>3, <1>4 DEF ReadByte

(* Quotes, apostrophes and backslashes stand in finished lines only.       *)
LEMMA InFinishedLine ==
  ASSUME LInv, status = "parsing", Bounded,
         NEW k \in Nat, k <= Len(Line),
         ReadByte(buffer, k) \in {Backslash, Quote, "'"}
  PROVE  k + 1 < Len(Line) /\ Line[Len(Line)] = "NL"
<1>1. k < Len(Line) /\ k + 1 \in DOMAIN Line /\ Line[k + 1] = ReadByte(buffer, k)
  <2>1. ReadByte(buffer, k) # "NUL"  BY DEF Backslash, Quote
  <2>. QED  BY <2>1, InLine
<1>2. Line[Len(Line)] = "NL"  BY <1>1 DEF Bounded, MayRunOn
<1>3. k + 1 # Len(Line)  BY <1>1, <1>2 DEF Backslash, Quote
<1>4. Line \in Seq(Chars)  BY Standpoint
<1>. QED  BY <1>1, <1>2, <1>3, <1>4

LEMMA ErangeOld ==
  ASSUME LInv, status = "parsing"
  PROVE  Explained(erange)
BY Standpoint

(* No step that leaves the lexer harms the invariant.                      *)
LEMMA QuietKeeps ==
  ASSUME LInv, UNCHANGED <<input, ls, semi, token>>, at' \in Places,
         erange' \in BOOLEAN,
         erange' => \E n \in DOMAIN chunks : Overlong(chunks[n]) \/ Holds(chunks[n], "^"),
         status' \in {"prompt", "exited", "undefined"},
         status' = "prompt" => repl,
         status' = "undefined" =>
           \/ /\ repl
              /\ \/ \A n \in DOMAIN chunks : chunks[n] = ClearScreen
                 \/ MayRunOn(Last(chunks))
           \/ Holds(Last(chunks), "HIGH")
  PROVE  LInv'
<1>1. /\ repl' = repl /\ buffer' = buffer /\ rest' = rest /\ ended' = ended
      /\ opened' = opened /\ chunks' = chunks /\ ls' = ls /\ semi' = semi
      /\ token' = token
  BY DEF input
<1>2. status' \notin {"parsing", "starting"}  OBVIOUS
<1>3. TypeOK'  BY <1>1 DEF LInv, TypeOK, Places
<1>4. BufferFits'  BY <1>1 DEF LInv, BufferFits
<1>5. OwnValue' /\ TextIsLexeme' /\ KindByMagnitude'
  <2>1. ~Delivered'  BY <1>2 DEF Delivered, Running
  <2>. QED  BY <2>1 DEF OwnValue, TextIsLexeme, KindByMagnitude
<1>6. UndefinedExplained'  BY <1>1 DEF UndefinedExplained, MayRunOn, Holds
<1>7. SourceHeld'  BY <1>1, <1>2 DEF LInv, SourceHeld
<1>8. Standing' /\ Saved' /\ Begun' /\ WithinLine'
  BY <1>2 DEF Standing, Saved, Begun, WithinLine
<1>9. RunsRead'  BY <1>1 DEF LInv, RunsRead
<1>10. ErangeExplained'  BY <1>1, <1>2 DEF ErangeExplained, Holds
<1>. QED  BY <1>3, <1>4, <1>5, <1>6, <1>7, <1>8, <1>9, <1>10 DEF LInv

(* errno after a literal or a line was read, whatever runs next.           *)
LEMMA ErangeSofar ==
  ASSUME LInv
  PROVE  /\ erange \in BOOLEAN
         /\ erange => \E n \in DOMAIN chunks : Overlong(chunks[n]) \/ Holds(chunks[n], "^")
BY DEF LInv, TypeOK, ErangeExplained

LEMMA LeaveWithKeeps ==
  ASSUME LInv, status = "parsing", NEW err \in BOOLEAN, LeaveWith(err),
         err => \E n \in DOMAIN chunks : Overlong(chunks[n]) \/ Holds(chunks[n], "^")
  PROVE  LInv'
<1>1. /\ UNCHANGED <<input, ls, semi, token>> /\ at' = "between" /\ erange' = err
      /\ status' \in {"prompt", "exited"} /\ (status' = "prompt" => repl)
  BY DEF LeaveWith
<1>. QED  BY <1>1, QuietKeeps DEF Places

LEMMA LeaveKeeps ==
  ASSUME LInv, status = "parsing", Leave
  PROVE  LInv'
BY ErangeSofar, LeaveWithKeeps DEF Leave

(* A token without text or value says nothing false.                       *)
LEMMA PlainToken ==
  ASSUME ls.text' = <<>>,
         token.type' \notin {"NAME", "STRING", "CHAR", "BOOL", "NUMBER", "INT"}
  PROVE  TokenProperties'
BY DEF TokenProperties, OwnValue, TextIsLexeme, KindByMagnitude

LEMMA LexKeeps ==
  ASSUME LInv, Lex
  PROVE  LInv'
<1>. DEFINE s == Cleared(ls)
<1>1. status = "parsing" /\ at = "between" /\ Goto("start", s)
      /\ UNCHANGED input /\ UNCHANGED <<semi, erange, token>>
  BY DEF Lex, Running, Stay
<1>2. /\ Fits(ls) /\ Stands(ls, Here) /\ SavedAt(at, ls) /\ BegunAt(at, ls, Here)
      /\ WithinAt(at, Here) /\ Explained(erange)
  BY <1>1, Standpoint
<1>3. s = [pos |-> ls.pos, current |-> ls.current, text |-> <<>>, cap |-> ls.cap]
  BY <1>2 DEF Cleared, Fits, LexStates
<1>. HIDE DEF s
<1>4. Fits(s)
  <2>1. Len(ls.text) \in Nat /\ Len(<<>>) = 0  BY <1>2 DEF Fits, LexStates
  <2>2. <<>> \in Seq(Stored)  OBVIOUS
  <2>. QED  BY <1>2, <1>3, <2>1, <2>2 DEF Fits, LexStates
<1>5. Stands(s, Here)  BY <1>2, <1>3 DEF Stands
<1>6. SavedAt("start", s)  BY <1>3 DEF SavedAt
<1>7. BegunAt("start", s, Here)  BY <1>1, <1>2, <1>3 DEF BegunAt
<1>8. WithinAt("start", Here)  BY <1>2 DEF WithinAt
<1>9. Explained(erange')  BY <1>1, <1>2 DEF Explained
<1>10. semi' \in SemInfos /\ erange' \in BOOLEAN
       /\ token' \in [type : TokenTypes, value : SemInfos] /\ token' = token
  BY <1>1 DEF LInv, TypeOK
<1>. QED
  BY <1>1, <1>4, <1>5, <1>6, <1>7, <1>8, <1>9, <1>10, GotoKeeps DEF Places

LEMMA Marks ==
  /\ Quote \notin {"EOF", "NUL", "UNSET", "NL", "CR", Backslash, "'"}
  /\ Backslash \notin {"EOF", "NUL", "UNSET", "NL", "CR", "'"}
  /\ Quote \notin NameStart /\ Backslash \notin NameStart /\ "'" \notin NameStart
  /\ \A c \in Blanks : c \notin EndMarks \cup NameStart \cup {"UNSET"}
  /\ \A c \in NewLines : c \in Blanks /\ c \notin Digits
  /\ \A c \in EndMarks : c \notin NamePart
<1>1. /\ Quote \notin {"EOF", "NUL", "UNSET", "NL", "CR", Backslash, "'"}
      /\ Backslash \notin {"EOF", "NUL", "UNSET", "NL", "CR", "'"}
  BY Zenon DEF Quote, Backslash
<1>2. \A c \in Blanks : c \notin EndMarks \cup {"UNSET"}
  BY Zenon DEF Blanks, NewLines, EndMarks
<1>3. \A c \in NewLines : c \in Blanks  BY Zenon DEF Blanks
<1>. QED  BY <1>1, <1>2, <1>3, Classes DEF NamePart

LEMMA EndKeeps ==
  ASSUME LInv, End
  PROVE  LInv'
<1>1. /\ status = "parsing" /\ at = "start" /\ ls.current \in EndMarks
      /\ Goto("between", ls) /\ UNCHANGED input /\ semi' = semi /\ erange' = erange
      /\ token' = [type |-> "EOF", value |-> semi]
  BY DEF End, Running, Return
<1>2. /\ Fits(ls) /\ Stands(ls, Here) /\ SavedAt(at, ls) /\ BegunAt(at, ls, Here)
      /\ WithinAt(at, Here) /\ Explained(erange)
  BY <1>1, Standpoint
<1>3. SavedAt("between", ls)  BY DEF SavedAt
<1>4. BegunAt("between", ls, Here)  BY <1>1, <1>2 DEF BegunAt
<1>5. WithinAt("between", Here)  BY <1>2 DEF WithinAt
<1>6. Explained(erange')  BY <1>1, <1>2 DEF Explained
<1>7. /\ semi' \in SemInfos /\ erange' \in BOOLEAN /\ semi \in SemInfos
  BY <1>1 DEF LInv, TypeOK
<1>8. token' \in [type : TokenTypes, value : SemInfos]
  <2>1. "EOF" \in TokenTypes  BY DEF TokenTypes
  <2>. QED  BY <1>1, <1>7, <2>1
<1>9. ls' = ls /\ ls.text = <<>>  BY <1>1, <1>2 DEF Goto, SavedAt
<1>10. TokenProperties'
  <2>1. token'.type = "EOF"  BY <1>1
  <2>. QED  BY <1>9, <2>1, PlainToken
<1>11. token'.type # "HIGH"  BY <1>1
<1>. QED
  BY <1>1, <1>2, <1>3, <1>4, <1>5, <1>6, <1>7, <1>8, <1>10, <1>11, GotoKeeps DEF Places

LEMMA BlankKeeps ==
  ASSUME LInv, Blank
  PROVE  LInv'
<1>. DEFINE s == Advance(ls)
            h == Here + 1
<1>1. /\ status = "parsing" /\ at = "start" /\ ls.current \in Blanks
      /\ Goto("start", s) /\ UNCHANGED input /\ semi' = semi /\ erange' = erange
      /\ token' = token
  BY DEF Blank, Running, Stay
<1>2. /\ BufferType /\ Fits(ls) /\ Stands(ls, Here) /\ SavedAt(at, ls)
      /\ WithinAt(at, Here) /\ Here \in Nat /\ ls.current = buffer[Here]
      /\ ls.current = ReadByte(buffer, Here) /\ ls.text = <<>>
  BY <1>1, Standpoint DEF Stands, SavedAt
<1>3. ls.current \notin {"EOF", "NUL"} /\ ls.current \notin NameStart
  BY <1>1, Marks DEF EndMarks
<1>4. Fits(s) /\ Stands(s, h) /\ s.text = <<>>
  BY <1>2, <1>3, AdvanceFits, AdvanceStands
<1>5. Explained(erange')  BY <1>1, <1>3, ErangeOld
<1>. HIDE DEF s
<1>6. SavedAt("start", s)  BY <1>4 DEF SavedAt
<1>7. BegunAt("start", s, h)
  <2>1. h - 1 = Here  BY <1>2
  <2>. QED  BY <1>2, <1>3, <2>1 DEF BegunAt, Preceded
<1>8. WithinAt("start", h)
  <2>. SUFFICES ASSUME Bounded  PROVE h <= Len(Line)  BY DEF WithinAt
  <2>1. Here <= Len(Line)  BY <1>2 DEF WithinAt
  <2>2. Here < Len(Line)  BY <1>1, <1>2, <1>3, <2>1, InLine
  <2>. QED  BY <1>1, <1>2, <2>2, Standpoint
<1>9. semi' \in SemInfos /\ erange' \in BOOLEAN
       /\ token' \in [type : TokenTypes, value : SemInfos]
  BY <1>1 DEF LInv, TypeOK
<1>. HIDE DEF h
<1>. QED
  BY <1>1, <1>4, <1>5, <1>6, <1>7, <1>8, <1>9, GotoKeeps DEF Places

LEMMA BeginCommentKeeps ==
  ASSUME LInv, BeginComment
  PROVE  LInv'
<1>. DEFINE s == Advance(ls)
            t == Advance(s)
<1>1. /\ status = "parsing" /\ at = "start" /\ ls.current = Backslash
      /\ IF s.current = Backslash THEN Stay("comment", t)
                                  ELSE Return(Backslash, semi, s) /\ erange' = erange
  BY DEF BeginComment, Running
<1>2. /\ BufferType /\ Fits(ls) /\ Stands(ls, Here) /\ SavedAt(at, ls)
      /\ WithinAt(at, Here) /\ Here \in Nat /\ ls.current = buffer[Here]
      /\ ls.current = ReadByte(buffer, Here) /\ ls.text = <<>>
      /\ Line \in Seq(Chars)
  BY <1>1, Standpoint DEF Stands, SavedAt
<1>3. ls.current \notin {"EOF", "NUL"} /\ ls.current \notin NameStart
  BY <1>1, Marks
<1>4. Fits(s) /\ Stands(s, Here + 1) /\ s.text = <<>>
  BY <1>2, <1>3, AdvanceFits, AdvanceStands
<1>5. Explained(erange)  BY <1>1, <1>3, ErangeOld
<1>6. Bounded => Here + 1 < Len(Line) /\ Line[Len(Line)] = "NL"
  <2>. SUFFICES ASSUME Bounded
                PROVE  Here + 1 < Len(Line) /\ Line[Len(Line)] = "NL"
    OBVIOUS
  <2>1. Here <= Len(Line)  BY <1>2 DEF WithinAt
  <2>. QED  BY <1>1, <1>2, <2>1, InFinishedLine
<1>7. semi \in SemInfos /\ erange \in BOOLEAN
       /\ token \in [type : TokenTypes, value : SemInfos]
  BY DEF LInv, TypeOK
<1>. HIDE DEF s
<1>8. CASE s.current = Backslash
  <2>1. /\ Goto("comment", t) /\ UNCHANGED input /\ semi' = semi /\ erange' = erange
        /\ token' = token
    BY <1>1, <1>8 DEF Stay
  <2>2. s.current # "EOF"  BY <1>8, Marks
  <2>3. Here + 1 + 1 = Here + 2  BY <1>2
  <2>4. Fits(t) /\ Stands(t, Here + 2) /\ t.text = <<>>
    BY <1>2, <1>4, <2>2, <2>3, AdvanceFits, AdvanceStands
  <2>. HIDE DEF t
  <2>5. SavedAt("comment", t)  BY <2>4 DEF SavedAt
  <2>6. BegunAt("comment", t, Here + 2)  BY DEF BegunAt
  <2>7. WithinAt("comment", Here + 2)
    <3>. SUFFICES ASSUME Bounded
                  PROVE  Here + 2 < Len(Line) /\ Line[Len(Line)] = "NL"
      BY <1>2, <1>6 DEF WithinAt
    <3>1. Here + 1 \in Nat /\ Here + 1 <= Len(Line)  BY <1>2, <1>6
    <3>2. ReadByte(buffer, Here + 1) = Backslash  BY <1>4, <1>8 DEF Stands
    <3>3. Here + 1 + 1 < Len(Line)  BY <1>1, <3>1, <3>2, InFinishedLine
    <3>. QED  BY <1>6, <2>3, <3>3
  <2>. QED
    BY <1>1, <1>5, <1>7, <2>1, <2>4, <2>5, <2>6, <2>7, GotoKeeps DEF Places
<1>9. CASE s.current # Backslash
  <2>1. /\ Goto("between", s) /\ UNCHANGED input /\ semi' = semi /\ erange' = erange
        /\ token' = [type |-> Backslash, value |-> semi]
    BY <1>1, <1>9 DEF Return
  <2>2. SavedAt("between", s)  BY DEF SavedAt
  <2>3. BegunAt("between", s, Here + 1)
    <3>. DEFINE h == Here + 1
    <3>1. h - 1 = Here  BY <1>2
    <3>. HIDE DEF h
    <3>2. Preceded(h)  BY <1>2, <1>3, <3>1 DEF Preceded
    <3>. QED  BY <3>2 DEF BegunAt, h
  <2>4. WithinAt("between", Here + 1)  BY <1>2, <1>6 DEF WithinAt
  <2>5. Backslash \in Source  BY <1>1, <1>2 DEF Fits, LexStates
  <2>6. token' \in [type : TokenTypes, value : SemInfos]
    <3>1. Backslash \in TokenTypes  BY <2>5 DEF TokenTypes
    <3>. QED  BY <1>7, <2>1, <3>1
  <2>7. TokenProperties'
    <3>1. ls' = s /\ token'.type = Backslash  BY <2>1 DEF Goto
    <3>2. Backslash \notin {"NAME", "STRING", "CHAR", "BOOL", "NUMBER", "INT"}
      BY Zenon DEF Backslash
    <3>. QED  BY <1>4, <3>1, <3>2, PlainToken
  <2>8. token'.type # "HIGH"
    <3>1. Backslash # "HIGH"  BY Zenon DEF Backslash
    <3>. QED  BY <2>1, <3>1
  <2>. QED
    BY <1>1, <1>4, <1>5, <1>7, <2>1, <2>2, <2>3, <2>4, <2>6, <2>7, <2>8, GotoKeeps DEF Places
<1>. QED  BY <1>8, <1>9

LEMMA CommentKeeps ==
  ASSUME LInv, Comment
  PROVE  LInv'
<1>. DEFINE s == Advance(ls)
            over == ls.current \in NewLines \cup {"EOF"}
<1>1. /\ status = "parsing" /\ at = "comment"
      /\ IF over THEN Goto("start", ls) ELSE Goto("comment", s)
      /\ UNCHANGED input /\ semi' = semi /\ erange' = erange /\ token' = token
  BY DEF Comment, Running, Stay
<1>2. /\ BufferType /\ Fits(ls) /\ Stands(ls, Here) /\ SavedAt(at, ls)
      /\ WithinAt(at, Here) /\ Here \in Nat /\ ls.current = buffer[Here]
      /\ ls.current = ReadByte(buffer, Here) /\ ls.text = <<>>
      /\ Line \in Seq(Chars)
  BY <1>1, Standpoint DEF Stands, SavedAt
<1>3. Explained(erange)  BY <1>1, ErangeOld
<1>4. semi' \in SemInfos /\ erange' \in BOOLEAN
       /\ token' \in [type : TokenTypes, value : SemInfos]
  BY <1>1 DEF LInv, TypeOK
<1>5. CASE over
  <2>1. SavedAt("start", ls)  BY <1>2 DEF SavedAt
  <2>2. ls.current \notin NamePart
    <3>1. "EOF" \notin NamePart  BY Marks DEF EndMarks
    <3>2. \A c \in NewLines : c \notin NamePart  BY Marks DEF NamePart
    <3>. QED  BY <1>5, <3>1, <3>2
  <2>3. BegunAt("start", ls, Here)  BY <2>2 DEF BegunAt
  <2>4. WithinAt("start", Here)  BY <1>2 DEF WithinAt
  <2>. QED
    BY <1>1, <1>2, <1>3, <1>4, <1>5, <2>1, <2>3, <2>4, GotoKeeps DEF Places
<1>6. CASE ~over
  <2>. DEFINE h == Here + 1
  <2>1. ls.current # "EOF" /\ ls.current # "NL"  BY <1>6 DEF NewLines
  <2>2. Fits(s) /\ Stands(s, h) /\ s.text = <<>>
    BY <1>2, <2>1, AdvanceFits, AdvanceStands
  <2>. HIDE DEF s
  <2>3. SavedAt("comment", s)  BY <2>2 DEF SavedAt
  <2>4. BegunAt("comment", s, h)  BY DEF BegunAt
  <2>5. WithinAt("comment", h)
    <3>. SUFFICES ASSUME Bounded
                  PROVE  h <= Len(Line) /\ h < Len(Line) /\ Line[Len(Line)] = "NL"
      BY DEF WithinAt
    <3>1. Here < Len(Line) /\ Line[Len(Line)] = "NL"  BY <1>1, <1>2 DEF WithinAt
    <3>2. Here \in 0 .. Len(Line) - 1  BY <1>2, <3>1
    <3>3. buffer[Here] = Line[Here + 1]  BY <1>1, <3>2, Standpoint
    <3>4. h # Len(Line)  BY <1>2, <2>1, <3>1, <3>3
    <3>. QED  BY <1>2, <3>1, <3>4
  <2>. HIDE DEF h
  <2>. QED
    BY <1>1, <1>3, <1>4, <1>6, <2>2, <2>3, <2>4, <2>5, GotoKeeps DEF Places
<1>. QED  BY <1>5, <1>6

(* A slice of the array, and one character more.                           *)
LEMMA Slices ==
  ASSUME BufferType, NEW i \in Nat
  PROVE  /\ Slice(i, i) = <<>>
         /\ \A j \in Nat : i <= j =>
              /\ Slice(i, j) \in [1 .. j - i -> {buffer[k] : k \in i .. j - 1}]
              /\ Slice(i, j + 1) = Append(Slice(i, j), buffer[j])
              /\ (\A k \in i .. j - 1 : k \in DOMAIN buffer) => Slice(i, j) \in Seq(Source)
<1>1. Slice(i, i) = <<>>  BY DEF Slice
<1>2. ASSUME NEW j \in Nat, i <= j
      PROVE  /\ Slice(i, j) \in [1 .. j - i -> {buffer[k] : k \in i .. j - 1}]
             /\ Slice(i, j + 1) = Append(Slice(i, j), buffer[j])
             /\ (\A k \in i .. j - 1 : k \in DOMAIN buffer) => Slice(i, j) \in Seq(Source)
  <2>. DEFINE V == {buffer[k] : k \in i .. j - 1}
              n == j - i
  <2>1. n \in Nat  BY <1>2
  <2>2. Slice(i, j) = [k \in 1 .. n |-> buffer[i + k - 1]]  BY DEF Slice
  <2>3. Slice(i, j) \in [1 .. n -> V]
    <3>1. \A k \in 1 .. n : i + k - 1 \in i .. j - 1  BY <1>2
    <3>. QED  BY <2>2, <3>1
  <2>4. Slice(i, j) \in Seq(V) /\ Len(Slice(i, j)) = n
    <3>. HIDE DEF V, n
    <3>. QED  BY <2>1, <2>3
  <2>5. Slice(i, j + 1) = [k \in 1 .. n + 1 |-> buffer[i + k - 1]]
    <3>1. j + 1 - i = n + 1  BY <1>2
    <3>. QED  BY <3>1 DEF Slice
  <2>6. Append(Slice(i, j), buffer[j]) = [k \in 1 .. n + 1 |-> buffer[i + k - 1]]
    <3>1. i + (n + 1) - 1 = j  BY <1>2
    <3>. DEFINE t == Slice(i, j)
    <3>2. Append(t, buffer[j]) = [k \in 1 .. n + 1 |-> IF k = n + 1 THEN buffer[j] ELSE t[k]]
      <4>. HIDE DEF t, n, V
      <4>1. Append(t, buffer[j])
              = [k \in 1 .. Len(t) + 1 |-> IF k = Len(t) + 1 THEN buffer[j] ELSE t[k]]
        BY <2>4 DEF t
      <4>. QED  BY <2>4, <4>1 DEF t
    <3>3. \A k \in 1 .. n + 1 :
            (IF k = n + 1 THEN buffer[j] ELSE t[k]) = buffer[i + k - 1]
      BY <2>1, <2>2, <3>1
    <3>. HIDE DEF t, n, V
    <3>. QED  BY <3>2, <3>3 DEF t
  <2>7. (\A k \in i .. j - 1 : k \in DOMAIN buffer) => Slice(i, j) \in Seq(Source)
    <3>. SUFFICES ASSUME \A k \in i .. j - 1 : k \in DOMAIN buffer
                  PROVE  Slice(i, j) \in Seq(Source)
      OBVIOUS
    <3>1. V \subseteq Source  BY DEF BufferType
    <3>. HIDE DEF V
    <3>. QED  BY <2>4, <3>1, SeqMonotonic
  <2>. QED  BY <2>3, <2>5, <2>6, <2>7
<1>. QED  BY <1>1, <1>2

LEMMA BeginStringKeeps ==
  ASSUME LInv, BeginString
  PROVE  LInv'
<1>. DEFINE s == Advance(ls)
            h == Here + 1
<1>1. /\ status = "parsing" /\ at = "start" /\ ls.current = Quote
      /\ Goto("string", s) /\ UNCHANGED input /\ semi' = semi /\ erange' = erange
      /\ token' = token
  BY DEF BeginString, Running, Stay
<1>2. /\ BufferType /\ Fits(ls) /\ Stands(ls, Here) /\ SavedAt(at, ls)
      /\ WithinAt(at, Here) /\ Here \in Nat /\ ls.current = buffer[Here]
      /\ ls.current = ReadByte(buffer, Here) /\ ls.text = <<>>
      /\ Line \in Seq(Chars)
  BY <1>1, Standpoint DEF Stands, SavedAt
<1>3. ls.current \notin {"EOF", "NUL"}  BY <1>1, Marks
<1>4. Fits(s) /\ Stands(s, h) /\ s.text = <<>>
  BY <1>2, <1>3, AdvanceFits, AdvanceStands
<1>5. Explained(erange')  BY <1>1, <1>3, ErangeOld
<1>. HIDE DEF s
<1>6. SavedAt("string", s)  BY DEF SavedAt
<1>7. h \in Nat /\ Here \in 0 .. h - 1 /\ Here \in 1 - 1 .. h - 1 /\ h \in 1 .. h
  BY <1>2
<1>8. BegunAt("string", s, h)
  <2>1. Slice(Here + 1, h) = <<>>  BY <1>2, <1>7, Slices
  <2>2. Decoded(Slice(Here + 1, h)) = [esc |-> FALSE, out |-> s.text]
    BY <1>4, <2>1, DecodedCharacters
  <2>3. buffer[Here] = Quote  BY <1>1, <1>2
  <2>. HIDE DEF h
  <2>. QED  BY <1>7, <2>2, <2>3 DEF BegunAt
<1>9. WithinAt("string", h)
  <2>. SUFFICES ASSUME Bounded
                PROVE  /\ h <= Len(Line) /\ h < Len(Line) /\ Line[Len(Line)] = "NL"
                       /\ \E i \in 1 .. h : Line[i] = Quote
    BY DEF WithinAt
  <2>1. Here <= Len(Line)  BY <1>2 DEF WithinAt
  <2>2. Here + 1 < Len(Line) /\ Line[Len(Line)] = "NL"
    BY <1>1, <1>2, <2>1, InFinishedLine
  <2>3. Line[h] = Quote  BY <1>1, <1>2, <1>3, <2>1, InLine
  <2>. QED  BY <1>2, <1>7, <2>2, <2>3
<1>10. semi' \in SemInfos /\ erange' \in BOOLEAN
       /\ token' \in [type : TokenTypes, value : SemInfos]
  BY <1>1 DEF LInv, TypeOK
<1>. HIDE DEF h
<1>. QED
  BY <1>1, <1>4, <1>5, <1>6, <1>8, <1>9, <1>10, GotoKeeps DEF Places

(* What stands between the quotes, and one character or escape more.       *)
LEMMA DecodedMore ==
  ASSUME BufferType, NEW i \in Nat, NEW j \in Nat, i <= j,
         \A k \in i .. j - 1 : k \in DOMAIN buffer, j \in DOMAIN buffer,
         NEW text, Decoded(Slice(i, j)) = [esc |-> FALSE, out |-> text]
  PROVE  /\ buffer[j] # Backslash =>
              Decoded(Slice(i, j + 1)) = [esc |-> FALSE, out |-> Append(text, buffer[j])]
         /\ buffer[j] = Backslash /\ j + 1 \in DOMAIN buffer =>
              Decoded(Slice(i, j + 2))
                = [esc |-> FALSE, out |-> Append(text, Escaped(buffer[j + 1]))]
<1>1. Slice(i, j) \in Seq(Source) /\ Slice(i, j + 1) = Append(Slice(i, j), buffer[j])
  BY Slices
<1>2. buffer[j] \in Source  BY DEF BufferType
<1>3. Decoded(Slice(i, j + 1)) = Decode([esc |-> FALSE, out |-> text], buffer[j])
  BY <1>1, <1>2, DecodedCharacters
<1>4. CASE buffer[j] # Backslash  BY <1>3, <1>4 DEF Decode
<1>5. ASSUME buffer[j] = Backslash, j + 1 \in DOMAIN buffer
      PROVE  Decoded(Slice(i, j + 2))
               = [esc |-> FALSE, out |-> Append(text, Escaped(buffer[j + 1]))]
  <2>. DEFINE m == j + 1
  <2>1. m \in Nat /\ i <= m /\ m + 1 = j + 2
        /\ \A k \in i .. m - 1 : k \in DOMAIN buffer
    OBVIOUS
  <2>2. buffer[m] \in Source  BY <1>5 DEF BufferType
  <2>3. Decoded(Slice(i, m)) = [esc |-> TRUE, out |-> text]  BY <1>3, <1>5 DEF Decode
  <2>. HIDE DEF m
  <2>4. Slice(i, m) \in Seq(Source) /\ Slice(i, m + 1) = Append(Slice(i, m), buffer[m])
    BY <2>1, Slices
  <2>5. Decoded(Slice(i, m + 1)) = Decode([esc |-> TRUE, out |-> text], buffer[m])
    BY <2>2, <2>3, <2>4, DecodedCharacters
  <2>6. Decoded(Slice(i, m + 1)) = [esc |-> FALSE, out |-> Append(text, Escaped(buffer[m]))]
    BY <2>5 DEF Decode
  <2>. QED  BY <2>1, <2>6 DEF m
<1>. QED  BY <1>4, <1>5

LEMMA StrValueType ==
  ASSUME NEW text \in Seq(Stored)
  PROVE  StrValue(text) \in SemInfos
BY DEF StrValue, SemInfos

LEMMA InStringKeeps ==
  ASSUME LInv, InString
  PROVE  LInv'
<1>1. status = "parsing" /\ at = "string"  BY DEF InString, Running
<1>2. /\ BufferType /\ Fits(ls) /\ Stands(ls, Here)
      /\ BegunAt(at, ls, Here) /\ WithinAt(at, Here)
      /\ Here \in DOMAIN buffer /\ Here \in Nat /\ ls.current = buffer[Here]
      /\ ls.current = ReadByte(buffer, Here)
      /\ Line \in Seq(Chars)
      /\ \A k \in DOMAIN buffer : \A j \in 0 .. k : j \in DOMAIN buffer
  BY <1>1, Standpoint DEF Stands
<1>3. Explained(erange)  BY <1>1, ErangeOld
<1>4. semi \in SemInfos /\ erange \in BOOLEAN
       /\ token \in [type : TokenTypes, value : SemInfos]
  BY DEF LInv, TypeOK
<1>5. Bounded => /\ Here < Len(Line) /\ Line[Len(Line)] = "NL"
                         /\ \A h \in Nat : h >= Here => \E i \in 1 .. h : Line[i] = Quote
  <2>. SUFFICES ASSUME Bounded
                PROVE  /\ Here < Len(Line) /\ Line[Len(Line)] = "NL"
                       /\ \A h \in Nat : h >= Here => \E i \in 1 .. h : Line[i] = Quote
    OBVIOUS
  <2>1. /\ Here < Len(Line) /\ Line[Len(Line)] = "NL"
        /\ \E i \in 1 .. Here : Line[i] = Quote
    BY <1>1, <1>2 DEF WithinAt
  <2>2. PICK i \in 1 .. Here : Line[i] = Quote  BY <2>1
  <2>3. \A h \in Nat : h >= Here => i \in 1 .. h  BY <1>2
  <2>. QED  BY <2>1, <2>2, <2>3
<1>6. Bounded /\ ls.current # "NL" => Here + 1 < Len(Line)
  <2>. SUFFICES ASSUME Bounded, ls.current # "NL"  PROVE Here + 1 < Len(Line)
    OBVIOUS
  <2>1. Here < Len(Line) /\ Line[Len(Line)] = "NL"  BY <1>5
  <2>2. Here \in 0 .. Len(Line) - 1  BY <1>2, <2>1
  <2>3. buffer[Here] = Line[Here + 1]  BY <1>1, <2>2, Standpoint
  <2>4. Here + 1 # Len(Line)  BY <1>2, <2>1, <2>3
  <2>. QED  BY <1>2, <2>1, <2>4
<1>7. ls.current # "EOF" =>
        \E i \in 0 .. Here - 1 :
          /\ buffer[i] = Quote
          /\ Decoded(Slice(i + 1, Here)) = [esc |-> FALSE, out |-> ls.text]
  BY <1>1, <1>2 DEF BegunAt
<1>8. CASE ls.current \in NewLines \cup {"EOF"}
  <2>1. Leave
    <3>1. ls.current \notin {Backslash, Quote}
      <4>1. \A c \in NewLines \cup {"EOF"} : c \notin {Backslash, Quote}
        BY Zenon, Marks DEF NewLines
      <4>. QED  BY <1>8, <4>1
    <3>. QED  BY <1>8, <3>1 DEF InString
  <2>. QED  BY <1>1, <2>1, LeaveKeeps
<1>9. CASE ls.current = Backslash
  <2>. DEFINE s == Escape(ls)
              c == ReadByte(buffer, Here + 1)
  <2>0. ls.current \notin {"EOF", "NL", Quote}  BY <1>9, Marks
  <2>1. /\ Goto("string", s) /\ UNCHANGED input /\ semi' = semi /\ erange' = erange
        /\ token' = token
    <3>1. ls.current \notin NewLines \cup {"EOF"}  BY <1>9, Marks DEF NewLines
    <3>2. Stay("string", s)  BY <1>9, <2>0, <3>1 DEF InString
    <3>. QED  BY <3>2 DEF Stay
  <2>2. Fits(s) /\ \/ /\ c = "EOF" /\ s.current = "EOF" /\ s.text = ls.text
                      /\ Stands(s, Here + 1)
                   \/ /\ c # "EOF" /\ s.text = Append(ls.text, Escaped(c))
                      /\ Stands(s, Here + 2)
    BY <1>2, <2>0, EscapeFits
  <2>. HIDE DEF s
  <2>3. SavedAt("string", s)  BY DEF SavedAt
  <2>4. CASE c = "EOF"
    <3>1. s.current = "EOF" /\ Stands(s, Here + 1)  BY <2>2, <2>4
    <3>2. BegunAt("string", s, Here + 1)  BY <3>1 DEF BegunAt
    <3>3. WithinAt("string", Here + 1)
      <4>1. Here + 1 \in Nat /\ Here + 1 >= Here  BY <1>2
      <4>. DEFINE h == Here + 1
      <4>2. Bounded => /\ h <= Len(Line) /\ h < Len(Line) /\ Line[Len(Line)] = "NL"
                               /\ \E i \in 1 .. h : Line[i] = Quote
        BY <1>2, <1>5, <1>6, <2>0, <4>1
      <4>. HIDE DEF h
      <4>3. WithinAt("string", h)  BY <4>2 DEF WithinAt
      <4>. QED  BY <4>3 DEF h
    <3>. QED
      BY <1>1, <1>3, <1>4, <2>1, <2>2, <2>3, <3>1, <3>2, <3>3, GotoKeeps DEF Places
  <2>5. CASE c # "EOF"
    <3>. DEFINE h == Here + 2
    <3>1. s.text = Append(ls.text, Escaped(c)) /\ Stands(s, h)  BY <2>2, <2>5
    <3>2. h \in Nat /\ h >= Here /\ h = Here + 1 + 1 /\ Here + 1 \in 0 .. h
          /\ Here + 1 \in Nat
      BY <1>2
    <3>3. s.current = "UNSET" \/ (SavedAt("string", s) /\ BegunAt("string", s, h))
      <4>. SUFFICES ASSUME s.current # "UNSET"  PROVE BegunAt("string", s, h)
        BY <2>3
      <4>1. h \in DOMAIN buffer  BY <3>1 DEF Stands, ReadByte
      <4>2. Here + 1 \in DOMAIN buffer /\ c = buffer[Here + 1]
        BY <1>2, <3>2, <4>1 DEF ReadByte
      <4>3. PICK i \in 0 .. Here - 1 :
               /\ buffer[i] = Quote
               /\ Decoded(Slice(i + 1, Here)) = [esc |-> FALSE, out |-> ls.text]
        BY <1>7, <2>0
      <4>4. i + 1 \in Nat /\ i + 1 <= Here /\ i \in 0 .. h - 1
            /\ \A k \in i + 1 .. Here - 1 : k \in 0 .. Here
        BY <1>2
      <4>5. \A k \in i + 1 .. Here - 1 : k \in DOMAIN buffer  BY <1>2, <4>4
      <4>. DEFINE m == i + 1
      <4>6. Decoded(Slice(m, h)) = [esc |-> FALSE, out |-> s.text]
        <5>. HIDE DEF h, m
        <5>1. Decoded(Slice(m, Here + 2))
                = [esc |-> FALSE, out |-> Append(ls.text, Escaped(buffer[Here + 1]))]
          <6>1. m \in Nat /\ m <= Here /\ \A k \in m .. Here - 1 : k \in DOMAIN buffer
            BY <4>4, <4>5 DEF m
          <6>2. Decoded(Slice(m, Here)) = [esc |-> FALSE, out |-> ls.text]
            BY <4>3 DEF m
          <6>3. Here \in Nat /\ Here \in DOMAIN buffer /\ buffer[Here] = Backslash
            BY <1>2, <1>9
          <6>. QED  BY <1>2, <4>2, <6>1, <6>2, <6>3, DecodedMore
        <5>. QED  BY <3>1, <4>2, <5>1 DEF h
      <4>. HIDE DEF h
      <4>. QED  BY <4>3, <4>4, <4>6 DEF BegunAt
    <3>4. WithinAt("string", h)
      <4>. SUFFICES ASSUME Bounded
                    PROVE  /\ h <= Len(Line) /\ h < Len(Line) /\ Line[Len(Line)] = "NL"
                           /\ \E i \in 1 .. h : Line[i] = Quote
        BY DEF WithinAt
      <4>1. /\ Here + 1 < Len(Line) /\ Line[Len(Line)] = "NL"
            /\ \E i \in 1 .. h : Line[i] = Quote
        BY <1>5, <1>6, <2>0, <3>2
      <4>2. Line[Here + 1] = Backslash
        <5>1. Here \in 0 .. Len(Line) - 1  BY <1>2, <4>1
        <5>. QED  BY <1>1, <1>2, <1>9, <5>1, Standpoint
      <4>3. PICK i \in 1 .. Here : Line[i] = Quote
        <5>1. Here \in Nat /\ Here >= Here  BY <1>2
        <5>. QED  BY <1>5, <5>1
      <4>4. Line[Here + 1 + 1] # "NL"
        <5>. DEFINE j == Here + 1
        <5>1. i \in DOMAIN Line /\ j \in DOMAIN Line /\ i < j /\ j < Len(Line)
          BY <1>2, <4>1
        <5>. HIDE DEF j
        <5>2. Line[j] = Backslash  BY <4>2 DEF j
        <5>3. Line[j + 1] # "NL"  BY <4>3, <5>1, <5>2 DEF Bounded, MayRunOn
        <5>. QED  BY <5>3 DEF j
      <4>5. h # Len(Line)  BY <3>2, <4>1, <4>4
      <4>. QED  BY <1>2, <4>1, <4>5
    <3>. HIDE DEF h
    <3>. QED
      BY <1>1, <1>3, <1>4, <2>1, <2>2, <3>1, <3>3, <3>4, GotoKeeps DEF Places
  <2>. QED  BY <2>4, <2>5
<1>10. CASE ls.current = Quote
  <2>. DEFINE s == Advance(ls)
              h == Here + 1
  <2>0. ls.current \notin {"EOF", "NL", Backslash} /\ ls.current \notin NameStart
    BY <1>10, Marks
  <2>1. /\ Goto("between", s) /\ UNCHANGED input /\ semi' = StrValue(ls.text)
        /\ erange' = erange /\ token' = [type |-> "STRING", value |-> StrValue(ls.text)]
    <3>1. ls.current \notin NewLines \cup {"EOF"}  BY <1>10, Marks DEF NewLines
    <3>2. Return("STRING", StrValue(ls.text), s) /\ erange' = erange
      BY <1>10, <2>0, <3>1 DEF InString
    <3>. QED  BY <3>2 DEF Return
  <2>2. Fits(s) /\ s.text = ls.text /\ Stands(s, h)
    BY <1>2, <2>0, AdvanceFits, AdvanceStands
  <2>. HIDE DEF s
  <2>3. SavedAt("between", s)  BY DEF SavedAt
  <2>4. BegunAt("between", s, h)
    <3>1. h - 1 = Here  BY <1>2
    <3>. HIDE DEF h
    <3>2. Preceded(h)  BY <1>2, <2>0, <3>1 DEF Preceded
    <3>. QED  BY <3>2 DEF BegunAt
  <2>5. WithinAt("between", h)
    <3>1. Bounded => h <= Len(Line)  BY <1>2, <1>6, <2>0
    <3>. QED  BY <3>1 DEF WithinAt
  <2>6. semi' \in SemInfos /\ token' \in [type : TokenTypes, value : SemInfos]
    <3>1. StrValue(ls.text) \in SemInfos  BY <1>2, StrValueType DEF Fits, LexStates
    <3>2. "STRING" \in TokenTypes  BY DEF TokenTypes
    <3>. QED  BY <2>1, <3>1, <3>2
  <2>7. TokenProperties'
    <3>1. ls' = s /\ token'.type = "STRING" /\ token'.value = StrValue(ls.text)
          /\ buffer' = buffer
      BY <2>1 DEF Goto, input
    <3>2. Here' = h
      <4>1. Here' = IF s.current = "EOF" THEN s.pos ELSE s.pos - 1  BY <3>1 DEF Here
      <4>. QED  BY <1>2, <2>2, <4>1 DEF Stands
    <3>3. OwnValue'  BY <2>2, <3>1 DEF OwnValue
    <3>4. KindByMagnitude'  BY <3>1 DEF KindByMagnitude
    <3>5. TextIsLexeme'
      <4>1. PICK i \in 0 .. Here - 1 :
               /\ buffer[i] = Quote
               /\ Decoded(Slice(i + 1, Here)) = [esc |-> FALSE, out |-> ls.text]
        BY <1>7, <2>0
      <4>2. h - 1 = Here /\ i \in 0 .. h - 2  BY <1>2
      <4>. HIDE DEF h
      <4>3. /\ buffer[i] = Quote /\ buffer[h - 1] = buffer[i]
            /\ Decoded(Slice(i + 1, h - 1)) = [esc |-> FALSE, out |-> ls'.text]
        BY <1>2, <1>10, <2>2, <3>1, <4>1, <4>2
      <4>. QED  BY <3>1, <3>2, <4>2, <4>3 DEF TextIsLexeme, Slice
    <3>. QED  BY <3>3, <3>4, <3>5 DEF TokenProperties
  <2>8. token'.type # "HIGH"  BY <2>1
  <2>. HIDE DEF h
  <2>. QED
    BY <1>1, <1>3, <1>4, <2>1, <2>2, <2>3, <2>4, <2>5, <2>6, <2>7, <2>8, GotoKeeps DEF Places
<1>11. CASE ls.current \notin NewLines \cup {"EOF", Backslash, Quote}
  <2>. DEFINE s == SaveAndNext(ls)
              h == Here + 1
  <2>0. ls.current \notin {"EOF", "NL", Backslash}  BY <1>11 DEF NewLines
  <2>1. /\ Goto("string", s) /\ UNCHANGED input /\ semi' = semi /\ erange' = erange
        /\ token' = token
    <3>1. Stay("string", s)  BY <1>11 DEF InString
    <3>. QED  BY <3>1 DEF Stay
  <2>2. Fits(s) /\ s.text = Append(ls.text, ls.current) /\ Stands(s, h)
    BY <1>2, <2>0, SaveAndNextFits
  <2>. HIDE DEF s
  <2>3. SavedAt("string", s)  BY DEF SavedAt
  <2>4. BegunAt("string", s, h)
    <3>1. PICK i \in 0 .. Here - 1 :
             /\ buffer[i] = Quote
             /\ Decoded(Slice(i + 1, Here)) = [esc |-> FALSE, out |-> ls.text]
      BY <1>7, <2>0
    <3>. DEFINE m == i + 1
    <3>2. m \in Nat /\ m <= Here /\ i \in 0 .. h - 1
          /\ \A k \in m .. Here - 1 : k \in 0 .. Here
      BY <1>2
    <3>3. \A k \in m .. Here - 1 : k \in DOMAIN buffer  BY <1>2, <3>2
    <3>4. Decoded(Slice(m, Here)) = [esc |-> FALSE, out |-> ls.text]  BY <3>1
    <3>. HIDE DEF m
    <3>5. Decoded(Slice(m, Here + 1)) = [esc |-> FALSE, out |-> Append(ls.text, buffer[Here])]
      BY <1>2, <2>0, <3>2, <3>3, <3>4, DecodedMore
    <3>6. Decoded(Slice(i + 1, h)) = [esc |-> FALSE, out |-> s.text]
      BY <1>2, <2>2, <3>5 DEF m
    <3>. HIDE DEF h
    <3>. QED  BY <3>1, <3>2, <3>6 DEF BegunAt
  <2>5. WithinAt("string", h)
    <3>1. h \in Nat /\ h >= Here  BY <1>2
    <3>2. Bounded => /\ h <= Len(Line) /\ h < Len(Line) /\ Line[Len(Line)] = "NL"
                             /\ \E i \in 1 .. h : Line[i] = Quote
      BY <1>2, <1>5, <1>6, <2>0, <3>1
    <3>. HIDE DEF h
    <3>. QED  BY <3>2 DEF WithinAt
  <2>. HIDE DEF h
  <2>. QED
    BY <1>1, <1>3, <1>4, <2>1, <2>2, <2>3, <2>4, <2>5, GotoKeeps DEF Places
<1>. QED  BY <1>8, <1>9, <1>10, <1>11

(* A step into what is not there ends the session.                         *)
LEMMA LostKeeps ==
  ASSUME LInv, status = "parsing", NEW s, NEW h, Fits(s), Stands(s, h), s.current = "UNSET",
         Stay("start", s), Bounded => h <= Len(Line),
         Explained(erange)
  PROVE  LInv'
<1>1. /\ Goto("start", s) /\ UNCHANGED input /\ semi' = semi /\ erange' = erange
      /\ token' = token
  BY DEF Stay
<1>2. WithinAt("start", h)  BY DEF WithinAt
<1>3. semi' \in SemInfos /\ erange' \in BOOLEAN
       /\ token' \in [type : TokenTypes, value : SemInfos]
  BY <1>1 DEF LInv, TypeOK
<1>. QED  BY <1>1, <1>2, <1>3, GotoKeeps DEF Places

LEMMA CharLiteralKeeps ==
  ASSUME LInv, CharLiteral
  PROVE  LInv'
<1>. DEFINE s == Advance(ls)
            t == IF s.current = Backslash THEN Escape(s) ELSE SaveAndNext(s)
            n == Here + 1
<1>1. /\ status = "parsing" /\ at = "start" /\ ls.current = "'"
      /\ IF s.current = "UNSET" THEN Stay("start", s)
         ELSE IF s.current = "'" THEN Leave
         ELSE IF t.current = "UNSET" THEN Stay("start", t)
         ELSE IF t.current = "'" THEN /\ Return("CHAR", StrValue(t.text), Advance(t))
                                      /\ UNCHANGED erange
         ELSE Leave
  BY DEF CharLiteral, Running
<1>2. /\ BufferType /\ Fits(ls) /\ Stands(ls, Here) /\ SavedAt(at, ls)
      /\ WithinAt(at, Here) /\ Here \in Nat /\ ls.current = buffer[Here]
      /\ ls.current = ReadByte(buffer, Here) /\ ls.text = <<>>
      /\ Line \in Seq(Chars)
      /\ \A k \in DOMAIN buffer : \A j \in 0 .. k : j \in DOMAIN buffer
  BY <1>1, Standpoint DEF Stands, SavedAt
<1>3. Explained(erange)  BY <1>1, ErangeOld
<1>4. Fits(s) /\ Stands(s, n) /\ s.text = <<>>
  BY <1>1, <1>2, AdvanceFits, AdvanceStands
<1>5. Bounded => n < Len(Line)
  <2>. SUFFICES ASSUME Bounded  PROVE n < Len(Line)  OBVIOUS
  <2>1. Here <= Len(Line)  BY <1>2 DEF WithinAt
  <2>. QED  BY <1>1, <1>2, <2>1, InFinishedLine
<1>6. n \in Nat /\ n + 1 \in Nat /\ n + 2 \in Nat /\ n + 1 + 1 = n + 2 /\ n - 1 = Here
      /\ n + 1 \in 0 .. n + 2 /\ n \in 0 .. n + 1
  BY <1>2
<1>. HIDE DEF s, n
<1>7. s.current = ReadByte(buffer, n)  BY <1>4 DEF Stands
(* the character between the apostrophes *)
<1>8. Fits(t) /\ \E m \in {n, n + 1, n + 2} :
        /\ Stands(t, m)
        /\ Bounded => m <= Len(Line)
        /\ t.current # "EOF" /\ t.current # "UNSET" /\ s.current # "UNSET" =>
             \E c \in Stored :
               /\ t.text = Append(<<>>, c)
               /\ Decoded(Slice(n, m)) = [esc |-> FALSE, out |-> Append(<<>>, c)]
  <2>1. Slice(n, n) = <<>>  BY <1>2, <1>6, Slices
  <2>2. Decoded(Slice(n, n)) = [esc |-> FALSE, out |-> <<>>]
    BY <2>1, DecodedCharacters
  <2>3. \A k \in n .. n - 1 : k \in DOMAIN buffer  BY <1>6
  <2>4. s.current # "UNSET" => n \in DOMAIN buffer /\ s.current = buffer[n]
    BY <1>7 DEF ReadByte
  <2>5. CASE s.current = Backslash
    <3>1. s.current # "EOF" /\ s.current # "UNSET"  BY <2>5, Marks
    <3>2. n \in DOMAIN buffer /\ buffer[n] = Backslash  BY <2>4, <2>5, <3>1
    <3>3. Bounded => n + 1 < Len(Line)
      <4>. SUFFICES ASSUME Bounded  PROVE n + 1 < Len(Line)  OBVIOUS
      <4>1. n <= Len(Line)  BY <1>2, <1>5, <1>6
      <4>. QED  BY <1>1, <1>6, <1>7, <2>5, <4>1, InFinishedLine
    <3>4. t = Escape(s)  BY <2>5
    <3>. HIDE DEF t
    <3>. DEFINE c == ReadByte(buffer, n + 1)
    <3>5. Fits(t) /\ \/ /\ c = "EOF" /\ t.current = "EOF" /\ t.text = s.text
                        /\ Stands(t, n + 1)
                     \/ /\ c # "EOF" /\ t.text = Append(s.text, Escaped(c))
                        /\ Stands(t, n + 2)
      BY <1>2, <1>4, <3>1, <3>4, EscapeFits
    <3>6. CASE t.current = "EOF" /\ Stands(t, n + 1)
      <4>1. Bounded => n + 1 <= Len(Line)  BY <1>2, <1>6, <3>3
      <4>. QED  BY <3>5, <3>6, <4>1
    <3>7. CASE t.text = Append(s.text, Escaped(c)) /\ Stands(t, n + 2)
      <4>1. Bounded => n + 2 <= Len(Line)  BY <1>2, <1>6, <3>3
      <4>2. ASSUME t.current # "UNSET"
            PROVE  Decoded(Slice(n, n + 2)) = [esc |-> FALSE, out |-> Append(<<>>, Escaped(c))]
        <5>1. n + 2 \in DOMAIN buffer  BY <3>7, <4>2 DEF Stands, ReadByte
        <5>2. n + 1 \in DOMAIN buffer /\ c = buffer[n + 1]
          BY <1>2, <1>6, <5>1 DEF ReadByte
        <5>3. n <= n  BY <1>6
        <5>4. Decoded(Slice(n, n + 2))
                = [esc |-> FALSE, out |-> Append(<<>>, Escaped(buffer[n + 1]))]
          BY <1>2, <1>6, <2>2, <2>3, <3>2, <5>2, <5>3, DecodedMore
        <5>. QED  BY <5>2, <5>4
      <4>3. Escaped(c) \in Stored
        <5>1. c \in Source  BY <1>2, ReadByteType DEF BufferType
        <5>. QED  BY <5>1, SourceStored
      <4>. HIDE DEF c
      <4>. QED  BY <1>4, <3>5, <3>7, <4>1, <4>2, <4>3
    <3>. QED  BY <3>5, <3>6, <3>7
  <2>6. CASE s.current # Backslash
    <3>1. t = SaveAndNext(s)  BY <2>6
    <3>. HIDE DEF t
    <3>2. Fits(t) /\ t.text = Append(s.text, s.current)
          /\ (s.current # "EOF" => Stands(t, n + 1))
          /\ (s.current = "EOF" => Stands(t, n) /\ t.current = "EOF")
      BY <1>2, <1>4, <3>1, SaveAndNextFits
    <3>3. CASE s.current = "EOF"
      <4>1. Bounded => n <= Len(Line)  BY <1>2, <1>5, <1>6
      <4>. QED  BY <3>2, <3>3, <4>1
    <3>4. CASE s.current # "EOF"
      <4>1. Bounded => n + 1 <= Len(Line)  BY <1>2, <1>5, <1>6
      <4>2. ASSUME s.current # "UNSET"
            PROVE  Decoded(Slice(n, n + 1)) = [esc |-> FALSE, out |-> Append(<<>>, s.current)]
        <5>1. n <= n /\ buffer[n] # Backslash  BY <1>6, <2>4, <2>6, <4>2
        <5>2. Decoded(Slice(n, n + 1)) = [esc |-> FALSE, out |-> Append(<<>>, buffer[n])]
          BY <1>2, <1>6, <2>2, <2>3, <2>4, <4>2, <5>1, DecodedMore
        <5>. QED  BY <2>4, <4>2, <5>2
      <4>3. s.current \in Stored  BY <1>4, SourceStored DEF Fits, LexStates
      <4>. QED  BY <1>4, <3>2, <3>4, <4>1, <4>2, <4>3
    <3>. QED  BY <3>3, <3>4
  <2>. QED  BY <2>5, <2>6
<1>. HIDE DEF t
<1>9. CASE s.current = "UNSET" /\ Stay("start", s)
  <2>1. Bounded => n <= Len(Line)  BY <1>2, <1>5, <1>6
  <2>. QED  BY <1>1, <1>3, <1>4, <1>9, <2>1, LostKeeps
<1>10. CASE Leave  BY <1>1, <1>10, LeaveKeeps
<1>11. CASE t.current = "UNSET" /\ Stay("start", t)
  <2>1. PICK m : Stands(t, m) /\ (Bounded => m <= Len(Line))  BY <1>8
  <2>. QED  BY <1>1, <1>3, <1>8, <1>11, <2>1, LostKeeps
<1>12. CASE /\ s.current # "UNSET" /\ t.current = "'"
            /\ Return("CHAR", StrValue(t.text), Advance(t)) /\ UNCHANGED erange
  <2>. DEFINE u == Advance(t)
  <2>1. /\ Goto("between", u) /\ UNCHANGED input /\ semi' = StrValue(t.text)
        /\ erange' = erange /\ token' = [type |-> "CHAR", value |-> StrValue(t.text)]
    BY <1>12 DEF Return
  <2>2. PICK m \in {n, n + 1, n + 2} : 
          /\ Stands(t, m)
          /\ Bounded => m <= Len(Line)
          /\ t.current # "EOF" /\ t.current # "UNSET" /\ s.current # "UNSET" =>
               \E c \in Stored :
                 /\ t.text = Append(<<>>, c)
                 /\ Decoded(Slice(n, m)) = [esc |-> FALSE, out |-> Append(<<>>, c)]
    BY <1>8
  <2>. DEFINE h == m + 1
  <2>3. m \in Nat /\ h - 1 = m /\ n <= m /\ Here \in 0 .. h - 2 /\ h \in Nat /\ m = h - 1
    BY <1>2, <1>6
  <2>4. Fits(u) /\ u.text = t.text /\ Stands(u, h)
    BY <1>2, <1>8, <1>12, <2>2, AdvanceFits, AdvanceStands
  <2>. HIDE DEF u
  <2>5. PICK c \in Stored :
          /\ t.text = Append(<<>>, c)
          /\ Decoded(Slice(n, m)) = [esc |-> FALSE, out |-> Append(<<>>, c)]
    BY <1>12, <2>2
  <2>6. m \in DOMAIN buffer /\ buffer[m] = "'"  BY <1>12, <2>2 DEF Stands, ReadByte
  <2>. HIDE DEF h
  <2>7. SavedAt("between", u)  BY DEF SavedAt
  <2>8. BegunAt("between", u, h)
    <3>1. Preceded(h)  BY <2>3, <2>6, Marks DEF Preceded
    <3>. QED  BY <3>1 DEF BegunAt
  <2>9. WithinAt("between", h)
    <3>. SUFFICES ASSUME Bounded  PROVE h <= Len(Line)  BY DEF WithinAt
    <3>1. ReadByte(buffer, m) # "NUL"  BY <2>6 DEF ReadByte
    <3>2. m < Len(Line)  BY <1>1, <2>2, <2>3, <3>1, InLine
    <3>. QED  BY <1>2, <2>3, <3>2
  <2>10. semi' \in SemInfos /\ token' \in [type : TokenTypes, value : SemInfos]
    <3>1. StrValue(t.text) \in SemInfos  BY <1>8, StrValueType DEF Fits, LexStates
    <3>2. "CHAR" \in TokenTypes  BY DEF TokenTypes
    <3>. QED  BY <2>1, <3>1, <3>2
  <2>11. TokenProperties'
    <3>1. ls' = u /\ token'.type = "CHAR" /\ token'.value = StrValue(t.text)
          /\ buffer' = buffer
      BY <2>1 DEF Goto, input
    <3>2. Here' = h
      <4>1. Here' = IF u.current = "EOF" THEN u.pos ELSE u.pos - 1  BY <3>1 DEF Here
      <4>. QED  BY <2>3, <2>4, <4>1 DEF Stands
    <3>3. OwnValue'  BY <2>4, <3>1 DEF OwnValue
    <3>4. KindByMagnitude'  BY <3>1 DEF KindByMagnitude
    <3>5. TextIsLexeme'
      <4>1. /\ buffer[Here] = "'" /\ buffer[h - 1] = buffer[Here]
            /\ Decoded(Slice(Here + 1, h - 1)) = [esc |-> FALSE, out |-> ls'.text]
        <5>1. n = Here + 1  BY DEF n
        <5>. QED  BY <1>1, <1>2, <2>3, <2>4, <2>5, <2>6, <3>1, <5>1
      <4>2. Len(ls'.text) = 1  BY <2>4, <2>5, <3>1
      <4>. QED  BY <2>3, <3>1, <3>2, <4>1, <4>2 DEF TextIsLexeme, Slice
    <3>. QED  BY <3>3, <3>4, <3>5 DEF TokenProperties
  <2>12. token'.type # "HIGH"  BY <2>1
  <2>. QED
    BY <1>1, <1>3, <2>1, <2>4, <2>7, <2>8, <2>9, <2>10, <2>11, <2>12, GotoKeeps
       DEF Places, LInv, TypeOK
<1>. QED  BY <1>1, <1>9, <1>10, <1>11, <1>12

(* One more character of a word: it stands behind those that are saved.    *)
LEMMA WordGrows ==
  ASSUME LInv, status = "parsing", NEW place \in {"name", "numeral"},
         at = place \/ (at = "start" /\ ls.current \in NamePart),
         ls.current \notin {"EOF", "NUL"}, Stay(place, SaveAndNext(ls)),
         SavedAt(place, SaveAndNext(ls))
  PROVE  LInv'
<1>. DEFINE s == SaveAndNext(ls)
            h == Here + 1
<1>1. /\ Goto(place, s) /\ UNCHANGED input /\ semi' = semi /\ erange' = erange
      /\ token' = token
  BY DEF Stay
<1>2. /\ BufferType /\ Fits(ls) /\ Stands(ls, Here) /\ SavedAt(at, ls) /\ BegunAt(at, ls, Here)
      /\ WithinAt(at, Here) /\ Here \in Nat /\ ls.current = buffer[Here]
      /\ ls.current = ReadByte(buffer, Here) /\ Line \in Seq(Chars)
      /\ ls.text \in Seq(Stored)
  BY Standpoint DEF Stands, Fits, LexStates
<1>3. Fits(s) /\ Stands(s, h) /\ s.text = Append(ls.text, ls.current)
  BY <1>2, SaveAndNextFits
<1>4. SavedAt(place, s)  OBVIOUS
<1>. HIDE DEF s
<1>5. /\ Here - Len(ls.text) \in Nat
      /\ ls.text = Slice(Here - Len(ls.text), Here)
      /\ Preceded(Here - Len(ls.text))
  <2>1. CASE at = place
    <3>1. /\ Here - Len(ls.text) >= 0 /\ ls.text = Slice(Here - Len(ls.text), Here)
          /\ Preceded(Here - Len(ls.text))
      BY <1>2, <2>1 DEF BegunAt
    <3>2. Len(ls.text) \in Nat  BY <1>2
    <3>. QED  BY <1>2, <3>1, <3>2
  <2>2. CASE at = "start" /\ ls.current \in NamePart
    <3>1. ls.text = <<>> /\ Preceded(Here)  BY <1>2, <2>2 DEF SavedAt, BegunAt
    <3>2. Slice(Here, Here) = <<>>  BY <1>2, Slices
    <3>3. Here - Len(ls.text) = Here  BY <1>2, <3>1
    <3>. QED  BY <1>2, <3>1, <3>2, <3>3
  <2>. QED  BY <2>1, <2>2
<1>6. BegunAt(place, s, h)
  <2>. DEFINE b == Here - Len(ls.text)
  <2>1. h - Len(s.text) = b /\ b <= Here
    <3>1. Len(s.text) = Len(ls.text) + 1 /\ Len(ls.text) \in Nat  BY <1>2, <1>3
    <3>. QED  BY <1>2, <3>1
  <2>2. b \in Nat /\ ls.text = Slice(b, Here) /\ Preceded(b)  BY <1>5
  <2>. HIDE DEF b
  <2>3. Slice(b, Here + 1) = Append(Slice(b, Here), buffer[Here])
    BY <1>2, <2>1, <2>2, Slices
  <2>4. s.text = Slice(b, h)  BY <1>2, <1>3, <2>2, <2>3
  <2>. HIDE DEF h
  <2>5. h - Len(s.text) >= 0  BY <2>1, <2>2
  <2>. QED  BY <2>1, <2>2, <2>4, <2>5 DEF BegunAt
<1>7. WithinAt(place, h)
  <2>. SUFFICES ASSUME Bounded  PROVE h <= Len(Line)  BY DEF WithinAt
  <2>1. Here <= Len(Line)  BY <1>2 DEF WithinAt
  <2>2. Here < Len(Line)  BY <1>2, <2>1, InLine
  <2>. QED  BY <1>2, <2>2
<1>8. Explained(erange')  BY <1>1, ErangeOld
<1>9. semi' \in SemInfos /\ erange' \in BOOLEAN
       /\ token' \in [type : TokenTypes, value : SemInfos]
  BY <1>1 DEF LInv, TypeOK
<1>10. place \in Places /\ place # "between"  BY DEF Places
<1>. HIDE DEF h
<1>. QED  BY <1>1, <1>3, <1>4, <1>6, <1>7, <1>8, <1>9, <1>10, GotoKeeps

LEMMA BeginNumeralKeeps ==
  ASSUME LInv, BeginNumeral
  PROVE  LInv'
<1>. DEFINE s == SaveAndNext(ls)
<1>1. status = "parsing" /\ at = "start" /\ ls.current \in Digits /\ Stay("numeral", s)
  BY DEF BeginNumeral, Running
<1>2. BufferType /\ Fits(ls) /\ SavedAt(at, ls)  BY <1>1, Standpoint
<1>3. s.text = Append(<<>>, ls.current)
  BY <1>1, <1>2, SaveAndNextFits DEF SavedAt
<1>4. SavedAt("numeral", s)
  <2>. HIDE DEF s
  <2>1. s.text \in Seq(Digits \cup {"."}) /\ s.text # <<>> /\ s.text[1] = ls.current
    BY <1>1, <1>3
  <2>. QED  BY <1>1, <2>1 DEF SavedAt
<1>5. ls.current \notin {"EOF", "NUL"} /\ ls.current \in NamePart
  BY <1>1, Classes DEF EndMarks, NamePart
<1>. QED  BY <1>1, <1>4, <1>5, WordGrows

LEMMA BeginNameKeeps ==
  ASSUME LInv, BeginName
  PROVE  LInv'
<1>. DEFINE s == SaveAndNext(ls)
<1>1. status = "parsing" /\ at = "start" /\ ls.current \in NameStart /\ Stay("name", s)
  BY DEF BeginName, Running
<1>2. BufferType /\ Fits(ls) /\ SavedAt(at, ls)  BY <1>1, Standpoint
<1>3. s.text = Append(<<>>, ls.current)
  BY <1>1, <1>2, SaveAndNextFits DEF SavedAt
<1>4. ls.current \notin {"EOF", "NUL"} /\ ls.current \in NamePart
  BY <1>1, Classes DEF EndMarks, NamePart
<1>5. SavedAt("name", s)
  <2>. HIDE DEF s
  <2>1. s.text \in Seq(NamePart) /\ s.text # <<>> /\ s.text[1] = ls.current
    BY <1>3, <1>4
  <2>. QED  BY <1>1, <2>1 DEF SavedAt
<1>. QED  BY <1>1, <1>4, <1>5, WordGrows

(* What is_reserved makes of a word.                                       *)
LEMMA ReservedIs ==
  ASSUME NEW word
  PROVE  /\ Reserved(word) \in TokenTypes \ {"STRING", "CHAR", "NUMBER", "HIGH"}
         /\ Reserved(word) = "BOOL" =>
              word \in {<<"f", "a", "l", "s", "e">>, <<"t", "r", "u", "e">>}
         /\ Reserved(word) = "INT" => word = <<"i", "n", "t">>
<1>1. ASSUME NEW k \in Keywords
      PROVE  /\ k[1] \in {"AND", "BIND", "ELSE", "FOR", "BOOL", "FUN", "INT", "OR", "RETURN",
                          "VOID", "WHILE", "SET", "PRINT"}
             /\ k[1] = "BOOL" => k[2] \in {<<"f", "a", "l", "s", "e">>, <<"t", "r", "u", "e">>}
             /\ k[1] = "INT" => k[2] = <<"i", "n", "t">>
  BY DEF Keywords
<1>2. Reserved(word) \in {"IF", "NAME"}
      \/ \E k \in Keywords : k[2] = word /\ Reserved(word) = k[1]
  <2>1. CASE Len(word) >= 2 /\ SubSeq(word, 1, 2) = <<"i", "f">>
    <3>1. ASSUME NEW k \in Keywords, k[2] = word  PROVE FALSE
      <4>1. k[2][1] # "i" \/ k[2] = <<"i", "n", "t">>  BY DEF Keywords
      <4>2. SubSeq(word, 1, 2)[1] = word[1] /\ SubSeq(word, 1, 2)[2] = word[2]
        <5>. DEFINE S == {word[1], word[2]}
        <5>1. \A i \in 1 .. 2 : word[i] \in S  OBVIOUS
        <5>2. \A i \in 1 .. 2 - 1 + 1 : SubSeq(word, 1, 2)[i] = word[1 + i - 1]
          <6>. HIDE DEF S
          <6>. QED  BY <5>1, SubSeqProperties
        <5>. QED  BY <5>2
      <4>3. word[1] = "i" /\ word[2] = "f"
        <5>. DEFINE u == SubSeq(word, 1, 2)
        <5>1. u = <<"i", "f">> /\ u[1] = word[1] /\ u[2] = word[2]
          BY <2>1, <4>2, Zenon
        <5>. HIDE DEF u
        <5>. QED  BY <5>1
      <4>4. word = <<"i", "n", "t">>  BY <3>1, <4>1, <4>3
      <4>5. word[2] = "n"  BY <4>4
      <4>. QED  BY <4>3, <4>5
    <3>. QED  BY <2>1, <3>1 DEF Reserved
  <2>2. CASE ~(Len(word) >= 2 /\ SubSeq(word, 1, 2) = <<"i", "f">>)
    <3>1. CASE \E k \in Keywords : k[2] = word
      <4>. DEFINE c == CHOOSE k \in Keywords : k[2] = word
      <4>1. c \in Keywords /\ c[2] = word  BY <3>1
      <4>2. Reserved(word) = c[1]  BY <2>2, <3>1 DEF Reserved
      <4>. QED  BY <4>1, <4>2
    <3>2. CASE ~\E k \in Keywords : k[2] = word
      BY <2>2, <3>2 DEF Reserved
    <3>. QED  BY <3>1, <3>2
  <2>. QED  BY <2>1, <2>2
<1>3. CASE Reserved(word) \in {"IF", "NAME"}
  <2>1. {"IF", "NAME"} \subseteq TokenTypes  BY DEF TokenTypes
  <2>. QED  BY <1>3, <2>1
<1>4. CASE \E k \in Keywords : k[2] = word /\ Reserved(word) = k[1]
  <2>1. PICK k \in Keywords : k[2] = word /\ Reserved(word) = k[1]  BY <1>4
  <2>2. k[1] \in TokenTypes  BY DEF TokenTypes
  <2>. QED  BY <1>1, <2>1, <2>2
<1>. QED  BY <1>2, <1>3, <1>4

LEMMA ValueTypes ==
  /\ NoSemInfo \in SemInfos
  /\ \A n \in Nat : IntValue(n) \in SemInfos
  /\ \A text \in Seq(Stored) : NumValue(text) \in SemInfos
<1>1. <<>> \in Seq(Stored)  OBVIOUS
<1>2. NoSemInfo \in SemInfos  BY <1>1 DEF NoSemInfo, SemInfos
<1>3. \A n \in Nat : IntValue(n) \in SemInfos  BY <1>1 DEF IntValue, SemInfos
<1>4. \A text \in Seq(Stored) : NumValue(text) \in SemInfos  BY DEF NumValue, SemInfos
<1>. QED  BY <1>2, <1>3, <1>4

(* A name or a number is returned: its text stands before the position.    *)
LEMMA WordReturns ==
  ASSUME LInv, status = "parsing", at \in {"name", "numeral"},
         NEW type \in TokenTypes \ {"STRING", "CHAR", "HIGH"}, NEW value \in SemInfos,
         Return(type, value, ls), erange' \in BOOLEAN,
         Explained(erange'),
         at = "name" => ls.current \notin NamePart,
         at = "numeral" => ls.current \notin Digits \cup Letters,
         OwnValue', KindByMagnitude'
  PROVE  LInv'
<1>. DEFINE w == ls.text
            b == Here - Len(w)
<1>1. /\ Goto("between", ls) /\ UNCHANGED input /\ semi' = value
      /\ token' = [type |-> type, value |-> value]
  BY DEF Return
<1>2. /\ Fits(ls) /\ Stands(ls, Here) /\ SavedAt(at, ls) /\ BegunAt(at, ls, Here)
      /\ WithinAt(at, Here) /\ Here \in Nat /\ ls.current = buffer[Here] /\ w \in Seq(Stored)
  BY Standpoint DEF Fits, LexStates
<1>3. b >= 0 /\ w = Slice(b, Here) /\ Preceded(b) /\ w # <<>> /\ b \in Nat
  BY <1>2 DEF BegunAt, SavedAt
<1>4. BegunAt("between", ls, Here)
  <2>1. CASE at = "name"  BY <2>1 DEF BegunAt
  <2>2. CASE at = "numeral"
    <3>1. w \in Seq(Digits \cup {"."}) /\ Len(w) \in DOMAIN w /\ Len(w) \in Nat
      BY <1>2, <1>3, <2>2 DEF SavedAt
    <3>2. w[Len(w)] \in Digits \cup {"."}  BY <3>1
    <3>. DEFINE n == Len(w)
    <3>3. n \in 1 .. Here - b /\ b + n - 1 = Here - 1  BY <1>2, <1>3, <3>1
    <3>. HIDE DEF n, b
    <3>4. w[n] = buffer[b + n - 1]  BY <1>3, <3>3 DEF Slice
    <3>5. buffer[Here - 1] \in Digits \cup {"."}  BY <3>2, <3>3, <3>4 DEF n
    <3>6. Preceded(Here)  BY <3>5, Classes DEF Preceded
    <3>. QED  BY <3>6 DEF BegunAt
  <2>. QED  BY <2>1, <2>2
<1>5. SavedAt("between", ls)  BY DEF SavedAt
<1>6. WithinAt("between", Here)  BY <1>2 DEF WithinAt
<1>7. token' \in [type : TokenTypes, value : SemInfos] /\ semi' \in SemInfos
      /\ token'.type # "HIGH"
  BY <1>1
<1>8. TextIsLexeme'
  <2>1. ls' = ls /\ buffer' = buffer /\ token'.type = type  BY <1>1 DEF Goto, input
  <2>2. Here' = Here  BY <2>1 DEF Here
  <2>3. w[1] \in Digits => at = "numeral"
    BY <1>2, Classes DEF SavedAt
  <2>4. ls.current \notin (IF w[1] \in Digits THEN Digits \cup Letters ELSE NamePart)
    <3>1. CASE at = "name"  BY <2>3, <3>1
    <3>2. CASE at = "numeral"  BY <1>2, <3>2 DEF SavedAt
    <3>. QED  BY <3>1, <3>2
  <2>. HIDE DEF b
  <2>5. b > 0 => buffer[b - 1] \notin NameStart  BY <1>3 DEF Preceded
  <2>6. w = [k \in 1 .. Here - b |-> buffer[b + k - 1]]  BY <1>3 DEF Slice
  <2>. QED  BY <1>3, <2>1, <2>2, <2>4, <2>5, <2>6 DEF TextIsLexeme, Slice, b
<1>9. TokenProperties'  BY <1>8 DEF TokenProperties
<1>. QED
  BY <1>1, <1>2, <1>4, <1>5, <1>6, <1>7, <1>9, GotoKeeps DEF Places

LEMMA NameKeeps ==
  ASSUME LInv, Name
  PROVE  LInv'
<1>. DEFINE w == ls.text
<1>1. status = "parsing" /\ at = "name"  BY DEF Name, Running
<1>2. /\ BufferType /\ Fits(ls) /\ SavedAt(at, ls) /\ Explained(erange)
      /\ w \in Seq(NamePart) /\ w # <<>> /\ w[1] \in NameStart /\ w \in Seq(Stored)
  BY <1>1, Standpoint DEF SavedAt, Fits, LexStates
<1>3. CASE ls.current \in NamePart
  <2>. DEFINE s == SaveAndNext(ls)
  <2>1. Stay("name", s)  BY <1>3 DEF Name
  <2>2. s.text = Append(w, ls.current)  BY <1>2, SaveAndNextFits
  <2>3. SavedAt("name", s)
    <3>. HIDE DEF s
    <3>1. s.text \in Seq(NamePart) /\ s.text # <<>> /\ s.text[1] = w[1]
      BY <1>2, <1>3, <2>2
    <3>. QED  BY <1>2, <3>1 DEF SavedAt
  <2>4. ls.current \notin {"EOF", "NUL"}  BY <1>3, Classes DEF EndMarks, NamePart
  <2>. QED  BY <1>1, <2>1, <2>3, <2>4, WordGrows
<1>4. CASE ls.current \notin NamePart
  <2>. DEFINE type == Reserved(w)
              value == WordValue(w, semi)
  <2>1. Return(type, value, ls) /\ erange' = erange  BY <1>4 DEF Name
  <2>2. /\ type \in TokenTypes \ {"STRING", "CHAR", "NUMBER", "HIGH"}
        /\ type = "BOOL" => w \in {<<"f", "a", "l", "s", "e">>, <<"t", "r", "u", "e">>}
        /\ type = "INT" => w = <<"i", "n", "t">>
    BY ReservedIs
  <2>3. value = IF type = "NAME" THEN StrValue(w)
                ELSE IF type = "BOOL" THEN IntValue(IF w[1] = "t" THEN 1 ELSE 0)
                ELSE semi
    BY DEF WordValue
  <2>. HIDE DEF type, value
  <2>4. value \in SemInfos
    <3>1. semi \in SemInfos  BY DEF LInv, TypeOK
    <3>. QED  BY <1>2, <2>3, <3>1, StrValueType, ValueTypes
  <2>5. /\ token'.type = type /\ token'.value = value /\ ls' = ls
    BY <2>1 DEF Return, Goto
  <2>6. OwnValue'
    <3>1. CASE type = "NAME"  BY <2>3, <2>5, <3>1 DEF OwnValue
    <3>2. CASE type = "BOOL"
      <4>1. (IF Len(w) = 4 THEN 1 ELSE 0) = (IF w[1] = "t" THEN 1 ELSE 0)
        BY <2>2, <3>2
      <4>. QED  BY <2>3, <2>5, <3>2, <4>1 DEF OwnValue
    <3>3. CASE type = "INT"  BY <2>2, <2>5, <3>3 DEF OwnValue
    <3>4. CASE type \notin {"NAME", "BOOL", "INT"}
      BY <2>2, <2>5, <3>4 DEF OwnValue
    <3>. QED  BY <3>1, <3>2, <3>3, <3>4
  <2>7. KindByMagnitude'
    <3>1. w[1] \notin Digits  BY <1>2, Classes
    <3>. QED  BY <2>5, <3>1 DEF KindByMagnitude
  <2>8. Explained(erange') /\ erange' \in BOOLEAN
    <3>1. Explained(erange)  BY <1>1, ErangeOld
    <3>2. erange \in BOOLEAN  BY DEF LInv, TypeOK
    <3>. QED  BY <2>1, <3>1, <3>2
  <2>. QED  BY <1>1, <1>4, <2>1, <2>2, <2>4, <2>6, <2>7, <2>8, WordReturns
<1>. QED  BY <1>3, <1>4

(* Digits and dots in a row that make a literal to be reported.            *)
LEMMA OverlongRun ==
  ASSUME NEW c \in Seq(Chars), NEW w \in Seq(Digits \cup {"."}), w # <<>>,
         NEW a \in Nat \ {0}, a + Len(w) - 1 <= Len(c),
         \A k \in 1 .. Len(w) : c[a + k - 1] = w[k],
         SetsErange(w)
  PROVE  Overlong(c)
<1>. DEFINE n == Len(w)
            j == a + n - 1
<1>1. n \in Nat /\ n > 0 /\ w = [k \in 1 .. n |-> w[k]] /\ \A k \in 1 .. n : w[k] \in Digits \cup {"."}
  OBVIOUS
<1>2. a \in DOMAIN c /\ j \in DOMAIN c /\ a <= j /\ j - a + 1 = n  BY <1>1
<1>3. \A k \in a .. j : c[k] \in Digits \cup {"."}
  <2>1. ASSUME NEW k \in a .. j  PROVE c[k] \in Digits \cup {"."}
    <3>. DEFINE m == k - a + 1
    <3>1. m \in 1 .. n /\ a + m - 1 = k  BY <1>1
    <3>. HIDE DEF m, n
    <3>2. c[a + m - 1] = w[m]  BY <3>1 DEF n
    <3>. QED  BY <1>1, <3>1, <3>2
  <2>. QED  BY <2>1
<1>4. SubSeq(c, a, j) = w
  <2>. DEFINE D == Digits \cup {"."}
  <2>1. \A k \in a .. j : c[k] \in D  BY <1>3
  <2>2. a \in Int /\ j \in Int  BY <1>1
  <2>. HIDE DEF j, n, D
  <2>3. /\ SubSeq(c, a, j) \in Seq(D)
        /\ Len(SubSeq(c, a, j)) = n
        /\ \A k \in 1 .. n : SubSeq(c, a, j)[k] = c[a + k - 1]
    <3>1. /\ SubSeq(c, a, j) \in Seq(D)
          /\ Len(SubSeq(c, a, j)) = IF a <= j THEN j - a + 1 ELSE 0
          /\ \A k \in 1 .. j - a + 1 : SubSeq(c, a, j)[k] = c[a + k - 1]
      BY <2>1, <2>2, SubSeqProperties
    <3>. QED  BY <1>2, <3>1
  <2>. DEFINE u == SubSeq(c, a, j)
  <2>4. u \in Seq(D) /\ Len(u) = n /\ \A k \in 1 .. n : u[k] = w[k]
    BY <2>3 DEF n
  <2>. HIDE DEF u
  <2>. QED  BY <1>1, <2>4 DEF u, n
<1>5. SetsErange(SubSeq(c, a, j))  BY <1>4
<1>. HIDE DEF j, n
<1>. QED  BY <1>2, <1>3, <1>5 DEF Overlong

(* A literal to be reported was read, whole, in one line.                  *)
LEMMA ReportExplained ==
  ASSUME LInv, status = "parsing", at = "numeral", SetsErange(ls.text)
  PROVE  Explained(TRUE)
<1>. DEFINE w == ls.text
            b == Here - Len(w)
            j == Here - 1
<1>1. /\ BegunAt(at, ls, Here) /\ SavedAt(at, ls) /\ Here \in Nat /\ Here \in DOMAIN buffer
      /\ Line \in Seq(Chars) /\ Line = chunks[Len(chunks)] /\ Len(chunks) \in DOMAIN chunks
      /\ \A k \in DOMAIN buffer : \A i \in 0 .. k : i \in DOMAIN buffer
      /\ \A i \in 0 .. Len(Line) - 1 : i \in DOMAIN buffer /\ buffer[i] = Line[i + 1]
  BY Standpoint
<1>2. /\ w # <<>> /\ b >= 0 /\ w = Slice(b, Here)
      /\ w \in Seq(Digits \cup {"."}) /\ SetsErange(w)
  BY <1>1 DEF BegunAt, SavedAt
<1>3. /\ Len(w) \in Nat /\ Len(w) > 0 /\ b \in Nat /\ b <= j /\ b \in 0 .. Here /\ j \in 0 .. Here
      /\ Here - b = Len(w) /\ j - b + 1 = Len(w) /\ j \in Nat
  BY <1>1, <1>2
<1>4. \A k \in 1 .. Len(w) : buffer[b + k - 1] = w[k] /\ w[k] \in Digits \cup {"."}
  <2>. HIDE DEF b
  <2>1. w = [k \in 1 .. Len(w) |-> buffer[b + k - 1]]  BY <1>2, <1>3 DEF Slice
  <2>2. \A k \in 1 .. Len(w) : w[k] \in Digits \cup {"."}
    BY <1>1 DEF SavedAt
  <2>. QED  BY <2>1, <2>2
<1>5. \A i \in b .. j : buffer[i] \in Digits \cup {"."}
  <2>1. ASSUME NEW i \in b .. j  PROVE buffer[i] \in Digits \cup {"."}
    <3>. DEFINE k == i - b + 1
    <3>1. k \in 1 .. Len(w) /\ b + k - 1 = i  BY <1>3
    <3>. HIDE DEF k
    <3>. QED  BY <1>4, <3>1
  <2>. QED  BY <2>1
<1>. HIDE DEF b, j, w
<1>6. CASE repl
  <2>1. b \in DOMAIN buffer /\ j \in DOMAIN buffer  BY <1>1, <1>3
  <2>2. PICK n \in DOMAIN chunks : \E a \in DOMAIN chunks[n] :
          /\ a + (j - b) <= Len(chunks[n])
          /\ \A k \in 0 .. j - b : chunks[n][a + k] = buffer[b + k]
    BY <1>3, <1>5, <1>6, <2>1 DEF LInv, RunsRead
  <2>. DEFINE c == chunks[n]
  <2>3. c \in Seq(Chars)
    <3>1. chunks \in Seq(Seq(Chars))  BY DEF LInv, TypeOK
    <3>. QED  BY <3>1, ElementOfSeq
  <2>4. PICK a \in DOMAIN c : a + (j - b) <= Len(c)
                              /\ \A k \in 0 .. j - b : c[a + k] = buffer[b + k]
    BY <2>2
  <2>. HIDE DEF c
  <2>5. a \in Nat \ {0} /\ a + Len(w) - 1 <= Len(c)
    <3>1. a \in 1 .. Len(c)  BY <2>3, <2>4
    <3>2. a + (j - b) = a + Len(w) - 1  BY <1>3, <3>1
    <3>. QED  BY <2>4, <3>1, <3>2
  <2>6. ASSUME NEW k \in 1 .. Len(w)  PROVE c[a + k - 1] = w[k]
    <3>. DEFINE m == k - 1
    <3>1. m \in 0 .. j - b /\ a + m = a + k - 1 /\ b + m = b + k - 1  BY <1>3, <2>5
    <3>. HIDE DEF m
    <3>2. c[a + m] = buffer[b + m]  BY <2>4, <3>1
    <3>. QED  BY <1>4, <3>1, <3>2
  <2>7. Overlong(c)  BY <1>2, <2>3, <2>5, <2>6, OverlongRun
  <2>. QED  BY <2>7 DEF Explained, c
<1>7. CASE ~repl
  <2>1. DOMAIN buffer = 0 .. Len(Line)  BY <1>7 DEF LInv, SourceHeld
  <2>. DEFINE a == b + 1
  <2>2. Len(Line) \in Nat  BY <1>1
  <2>3. a \in Nat \ {0} /\ a + Len(w) - 1 = Here /\ Here <= Len(Line)
    BY <1>1, <1>3, <2>1, <2>2
  <2>4. ASSUME NEW k \in 1 .. Len(w)  PROVE Line[a + k - 1] = w[k]
    <3>. DEFINE m == b + k - 1
    <3>1. m \in 0 .. Len(Line) - 1 /\ a + k - 1 = m + 1  BY <1>3, <2>2, <2>3
    <3>2. buffer[m] = w[k]  BY <1>4
    <3>. HIDE DEF m, a
    <3>3. buffer[m] = Line[m + 1]  BY <1>1, <3>1
    <3>. QED  BY <3>1, <3>2, <3>3
  <2>. HIDE DEF a
  <2>5. Overlong(Line)  BY <1>1, <1>2, <2>3, <2>4, OverlongRun
  <2>. QED  BY <1>1, <2>5 DEF Explained
<1>. QED  BY <1>6, <1>7

LEMMA NumeralKeeps ==
  ASSUME LInv, Numeral
  PROVE  LInv'
<1>. DEFINE w == ls.text
<1>1. status = "parsing" /\ at = "numeral"  BY DEF Numeral, Running
<1>2. /\ BufferType /\ Fits(ls) /\ SavedAt(at, ls)
      /\ w \in Seq(Digits \cup {"."}) /\ w # <<>> /\ w[1] \in Digits /\ w \in Seq(Stored)
  BY <1>1, Standpoint DEF SavedAt, Fits, LexStates
<1>3. Explained(erange)  BY <1>1, ErangeOld
<1>4. CASE ls.current \in Digits \cup {"."} /\ Stay("numeral", SaveAndNext(ls))
  <2>. DEFINE s == SaveAndNext(ls)
  <2>1. s.text = Append(w, ls.current)  BY <1>2, SaveAndNextFits
  <2>2. SavedAt("numeral", s)
    <3>. HIDE DEF s
    <3>1. s.text \in Seq(Digits \cup {"."}) /\ s.text # <<>> /\ s.text[1] = w[1]
      BY <1>2, <1>4, <2>1
    <3>. QED  BY <1>2, <3>1 DEF SavedAt
  <2>3. ls.current \notin {"EOF", "NUL"}  BY <1>4, Classes DEF EndMarks
  <2>. QED  BY <1>1, <1>4, <2>2, <2>3, WordGrows
<1>5. CASE Leave  BY <1>1, <1>5, LeaveKeeps
<1>6. CASE /\ ls.current \notin Digits \cup Letters \cup {"."}
           /\ erange' = (erange \/ SetsErange(w))
           /\ IF IsInteger(w, erange')
              THEN Return("INT", IntValue(Magnitude(w)), ls)
              ELSE Return("NUMBER", NumValue(w), ls)
  <2>. DEFINE integer == IsInteger(w, erange')
              type    == IF integer THEN "INT" ELSE "NUMBER"
              value   == IF integer THEN IntValue(Magnitude(w)) ELSE NumValue(w)
  <2>1. Dots(w) = {} => w \in Seq(Digits) /\ Magnitude(w) \in Nat
    <3>. SUFFICES ASSUME Dots(w) = {}  PROVE w \in Seq(Digits) /\ Magnitude(w) \in Nat
      OBVIOUS
    <3>. DEFINE n == Len(w)
    <3>1. n \in Nat /\ DOMAIN w = 1 .. n /\ w = [k \in 1 .. n |-> w[k]]  BY <1>2
    <3>2. \A k \in 1 .. n : w[k] \in Digits  BY <1>2, <3>1 DEF Dots
    <3>. HIDE DEF n, w
    <3>3. w \in Seq(Digits)  BY <3>1, <3>2
    <3>. QED  BY <3>3, MagnitudeOfDigits
  <2>2. Return(type, value, ls)  BY <1>6
  <2>3. integer <=> Dots(w) = {} /\ ~erange' /\ Magnitude(w) <= HAW_INT_MAX
    BY DEF IsInteger
  <2>4. SetsErange(w) \in BOOLEAN  BY DEF SetsErange
  <2>. HIDE DEF integer
  <2>5. type \in TokenTypes \ {"STRING", "CHAR", "HIGH"}
    <3>1. "NUMBER" \in TokenTypes  BY DEF TokenTypes
    <3>2. "INT" \in TokenTypes
      <4>1. <<"INT", <<"i", "n", "t">>>> \in Keywords  BY DEF Keywords
      <4>2. \E k \in Keywords : k[1] = "INT"  BY <4>1
      <4>. QED  BY <4>2 DEF TokenTypes
    <3>. QED  BY <3>1, <3>2
  <2>6. value \in SemInfos
    <3>1. integer => Magnitude(w) \in Nat  BY <2>1, <2>3
    <3>. QED  BY <1>2, <3>1, ValueTypes
  <2>7. /\ token'.type = type /\ token'.value = value /\ ls' = ls /\ chunks' = chunks
    BY <2>2 DEF Return, Goto, input
  <2>8. erange' \in BOOLEAN
    <3>1. erange \in BOOLEAN  BY DEF LInv, TypeOK
    <3>. QED  BY <1>6, <2>4, <3>1
  <2>9. Explained(erange')
    <3>1. CASE SetsErange(w)
      <4>1. Explained(TRUE)  BY <1>1, <3>1, ReportExplained
      <4>. QED  BY <4>1 DEF Explained
    <3>2. CASE ~SetsErange(w)
      <4>1. erange' => erange  BY <1>6, <3>2
      <4>2. Explained(erange)  BY <1>3
      <4>. QED  BY <4>1, <4>2 DEF Explained
    <3>. QED  BY <3>1, <3>2
  <2>10. OwnValue'
    <3>1. CASE integer  BY <2>7, <3>1 DEF OwnValue
    <3>2. CASE ~integer  BY <2>7, <3>2 DEF OwnValue
    <3>. QED  BY <3>1, <3>2
  <2>11. KindByMagnitude'
    <3>1. CASE integer
      <4>1. Dots(ls'.text) = {} /\ Magnitude(ls'.text) <= HAW_INT_MAX
        BY <2>3, <2>7, <3>1
      <4>2. token'.type = "INT"  BY <2>7, <3>1
      <4>. QED  BY <4>1, <4>2 DEF KindByMagnitude
    <3>2. CASE ~(Dots(w) = {} /\ Magnitude(w) <= HAW_INT_MAX)
      <4>1. token'.type = "NUMBER"  BY <2>3, <2>7, <3>2
      <4>2. ~(Dots(ls'.text) = {} /\ Magnitude(ls'.text) <= HAW_INT_MAX)
        BY <2>7, <3>2
      <4>. QED  BY <4>1, <4>2 DEF KindByMagnitude
    <3>3. CASE Dots(w) = {} /\ Magnitude(w) <= HAW_INT_MAX /\ erange'
      <4>1. token'.type = "NUMBER"  BY <2>3, <2>7, <3>3
      <4>2. \E n \in DOMAIN chunks :
              Overlong(chunks[n]) \/ (Holds(chunks[n], "^") /\ n < Len(chunks))
        BY <2>9, <3>3 DEF Explained
      <4>3. \E n \in DOMAIN chunks' :
              Overlong(chunks'[n]) \/ (Holds(chunks'[n], "^") /\ n < Len(chunks'))
        BY <2>7, <4>2
      <4>. QED  BY <4>1, <4>3 DEF KindByMagnitude
    <3>. QED  BY <2>3, <3>1, <3>2, <3>3
  <2>12. ls.current \notin Digits \cup Letters  BY <1>6
  <2>. HIDE DEF type, value
  <2>. QED
    BY <1>1, <2>2, <2>5, <2>6, <2>8, <2>9, <2>10, <2>11, <2>12, WordReturns
<1>. QED  BY <1>4, <1>5, <1>6 DEF Numeral

(* A byte may name its token, but no token with text or value.             *)
LEMMA BytesAreNoTokens ==
  /\ \A c \in Source : c \notin {"NAME", "STRING", "CHAR", "BOOL", "NUMBER", "INT"}
  /\ \A p \in Pairs : p[3] \in TokenTypes
       /\ p[3] \notin {"NAME", "STRING", "CHAR", "BOOL", "NUMBER", "INT", "HIGH"}
<1>1. {"BOOL", "INT"} \subseteq {k[1] : k \in Keywords}
  <2>1. <<"INT", <<"i", "n", "t">>>> \in Keywords  BY DEF Keywords
  <2>2. <<"BOOL", <<"t", "r", "u", "e">>>> \in Keywords  BY DEF Keywords
  <2>3. \E k \in Keywords : k[1] = "INT"  BY <2>1
  <2>4. \E k \in Keywords : k[1] = "BOOL"  BY <2>2
  <2>. QED  BY <2>3, <2>4
<1>2. Chars \cap ({"NAME", "IF", "STRING", "CHAR", "NUMBER"} \cup {k[1] : k \in Keywords}) = {}
  BY CharactersAssumption
<1>3. \A c \in Chars : c \notin {"NAME", "STRING", "CHAR", "BOOL", "NUMBER", "INT"}
  BY <1>1, <1>2
<1>4. \A p \in Pairs : p[3] \notin {"NAME", "STRING", "CHAR", "BOOL", "NUMBER", "INT", "HIGH"}
  BY PairsAre
<1>5. \A p \in Pairs : p[3] \in TokenTypes  BY DEF TokenTypes
<1>. QED  BY <1>3, <1>4, <1>5 DEF Source

LEMMA SymbolKeeps ==
  ASSUME LInv, Symbol
  PROVE  LInv'
<1>. DEFINE s == Advance(ls)
            t == Advance(s)
            n == Here + 1
            double == {p \in Pairs : p[1] = ls.current /\ p[2] = s.current}
            both == (CHOOSE p \in double : TRUE)[3]
<1>1. /\ status = "parsing" /\ at = "start"
      /\ ls.current \notin EndMarks \cup Blanks \cup NamePart \cup {Backslash, Quote, "'"}
      /\ IF double # {} THEN Return(both, semi, t) ELSE Return(ls.current, semi, s)
      /\ erange' = erange
  BY DEF Symbol, Running
<1>2. /\ BufferType /\ Fits(ls) /\ Stands(ls, Here) /\ SavedAt(at, ls)
      /\ WithinAt(at, Here) /\ Here \in Nat /\ ls.current = buffer[Here]
      /\ ls.current = ReadByte(buffer, Here) /\ ls.text = <<>>
      /\ Line \in Seq(Chars) /\ ls.current \in Source
  BY <1>1, Standpoint DEF Stands, SavedAt, Fits, LexStates
<1>3. ls.current \notin {"EOF", "NUL"} /\ ls.current \notin NameStart
  BY <1>1 DEF EndMarks, NamePart
<1>4. Fits(s) /\ Stands(s, n) /\ s.text = <<>>
  BY <1>2, <1>3, AdvanceFits, AdvanceStands
<1>5. Explained(erange)  BY <1>1, <1>3, ErangeOld
<1>6. Bounded => n <= Len(Line)
  <2>. SUFFICES ASSUME Bounded  PROVE n <= Len(Line)  OBVIOUS
  <2>1. Here <= Len(Line)  BY <1>2 DEF WithinAt
  <2>2. Here < Len(Line)  BY <1>1, <1>2, <1>3, <2>1, InLine
  <2>. QED  BY <1>2, <2>2
<1>7. semi \in SemInfos /\ erange \in BOOLEAN
  BY DEF LInv, TypeOK
<1>8. n \in Nat /\ n - 1 = Here /\ n > Here  BY <1>2
<1>. HIDE DEF s, n
<1>9. CASE double # {}
  <2>1. PICK p \in Pairs : p[1] = ls.current /\ p[2] = s.current /\ both = p[3]
    <3>. DEFINE c == CHOOSE p \in double : TRUE
    <3>1. c \in double  BY <1>9
    <3>. QED  BY <3>1
  <2>. HIDE DEF both
  <2>2. s.current \notin {"EOF", "NUL"} /\ s.current \notin NameStart
    <3>1. s.current \in {"+", "-", "&", "|", ">", "/", "="}  BY <2>1, PairsAre
    <3>2. s.current \in {q[1] : q \in Pairs}
      <4>1. \A c \in {"+", "-", "&", "|", ">", "/", "="} : \E q \in Pairs : q[1] = c
        BY DEF Pairs
      <4>. QED  BY <3>1, <4>1
    <3>. QED  BY <3>1, <3>2, Classes
  <2>3. /\ Goto("between", t) /\ UNCHANGED input /\ semi' = semi
        /\ token' = [type |-> both, value |-> semi]
    BY <1>1, <1>9 DEF Return
  <2>4. Fits(t) /\ Stands(t, n + 1) /\ t.text = <<>>
    BY <1>2, <1>4, <2>2, AdvanceFits, AdvanceStands
  <2>. HIDE DEF t
  <2>. DEFINE h == n + 1
  <2>5. h - 1 = n /\ h \in Nat  BY <1>8
  <2>6. s.current = ReadByte(buffer, n)  BY <1>4 DEF Stands
  <2>7. WithinAt("between", h)
    <3>. SUFFICES ASSUME Bounded  PROVE h <= Len(Line)  BY DEF WithinAt
    <3>1. n <= Len(Line)  BY <1>6
    <3>2. n < Len(Line)  BY <1>1, <1>8, <2>2, <2>6, <3>1, InLine
    <3>. QED  BY <1>2, <1>8, <3>2
  <2>. HIDE DEF h
  <2>8. SavedAt("between", t)  BY DEF SavedAt
  <2>9. t.current = "UNSET" \/ BegunAt("between", t, h)
    <3>. SUFFICES ASSUME t.current # "UNSET"  PROVE Preceded(h)  BY DEF BegunAt
    <3>1. h \in DOMAIN buffer  BY <2>4 DEF Stands, ReadByte, h
    <3>2. n \in DOMAIN buffer  BY <1>1, <1>8, <2>5, <3>1, Standpoint
    <3>. QED  BY <2>2, <2>5, <2>6, <3>2 DEF Preceded, ReadByte
  <2>10. token' \in [type : TokenTypes, value : SemInfos] /\ semi' \in SemInfos
         /\ token'.type # "HIGH"
         /\ token'.type \notin {"NAME", "STRING", "CHAR", "BOOL", "NUMBER", "INT"}
    BY <1>7, <2>1, <2>3, BytesAreNoTokens
  <2>11. TokenProperties'
    <3>1. ls' = t  BY <2>3 DEF Goto
    <3>. QED  BY <2>4, <2>10, <3>1, PlainToken
  <2>. QED
    BY <1>1, <1>5, <1>7, <2>3, <2>4, <2>7, <2>8, <2>9, <2>10, <2>11, GotoKeeps DEF Places, h
<1>10. CASE double = {}
  <2>. HIDE DEF double
  <2>1. /\ Goto("between", s) /\ UNCHANGED input /\ semi' = semi
        /\ token' = [type |-> ls.current, value |-> semi]
    BY <1>1, <1>10 DEF Return
  <2>2. WithinAt("between", n)  BY <1>6 DEF WithinAt
  <2>3. SavedAt("between", s)  BY DEF SavedAt
  <2>4. BegunAt("between", s, n)
    <3>1. Preceded(n)  BY <1>2, <1>3, <1>8 DEF Preceded
    <3>. QED  BY <3>1 DEF BegunAt
  <2>5. /\ token' \in [type : TokenTypes, value : SemInfos] /\ semi' \in SemInfos
        /\ token'.type \notin {"NAME", "STRING", "CHAR", "BOOL", "NUMBER", "INT"}
    <3>1. ls.current \in TokenTypes  BY <1>2 DEF TokenTypes
    <3>2. ls.current \notin {"NAME", "STRING", "CHAR", "BOOL", "NUMBER", "INT"}
      BY <1>2, BytesAreNoTokens
    <3>. QED  BY <1>7, <2>1, <3>1, <3>2
  <2>6. TokenProperties'
    <3>1. ls' = s  BY <2>1 DEF Goto
    <3>. QED  BY <1>4, <2>5, <3>1, PlainToken
  <2>7. token'.type = "HIGH" => ls.current = "HIGH" /\ n > Here  BY <1>8, <2>1
  <2>. QED
    BY <1>1, <1>4, <1>5, <1>7, <2>1, <2>2, <2>3, <2>4, <2>5, <2>6, <2>7, GotoKeeps DEF Places
<1>. QED  BY <1>9, <1>10

-----------------------------------------------------------------------------
(* The parser and main.c. *)

LEMMA EndParseKeeps ==
  ASSUME LInv, EndParse
  PROVE  LInv'
BY LeaveKeeps DEF EndParse, Running

LEMMA InterpretKeeps ==
  ASSUME LInv, Interpret
  PROVE  LInv'
<1>1. status = "parsing"  BY DEF Interpret, Running
<1>2. CASE (\E n \in DOMAIN chunks : Holds(chunks[n], "^")) /\ LeaveWith(TRUE)
  BY <1>1, <1>2, LeaveWithKeeps
<1>3. CASE LeaveWith(FALSE)
  BY <1>1, <1>3, LeaveWithKeeps
<1>. QED  BY <1>2, <1>3 DEF Interpret

LEMMA IndexRulesKeeps ==
  ASSUME LInv, IndexRules
  PROVE  LInv'
<1>1. /\ status = "parsing" /\ token.type = "HIGH" /\ status' = "undefined" /\ at' = at
      /\ UNCHANGED <<input, ls, semi, erange, token>>
  BY DEF IndexRules, Running
<1>2. (repl /\ MayRunOn(Line)) \/ Holds(Line, "HIGH")
  BY <1>1 DEF LInv, WithinLine, Bounded
<1>3. at \in Places  BY DEF LInv, TypeOK, Places
<1>. QED  BY <1>1, <1>2, <1>3, ErangeSofar, QuietKeeps DEF Line

LEMMA QuitKeeps ==
  ASSUME LInv, repl, Quit
  PROVE  LInv'
<1>1. /\ status' = IF opened THEN "exited" ELSE "undefined"
      /\ at' = "between" /\ UNCHANGED <<input, ls, semi, erange, token>>
  BY DEF Quit
<1>2. ~opened => \A n \in DOMAIN chunks : chunks[n] = ClearScreen
  BY DEF LInv, SourceHeld
<1>. QED  BY <1>1, <1>2, ErangeSofar, QuietKeeps DEF Places

LEMMA StartReplKeeps ==
  ASSUME LInv, StartRepl
  PROVE  LInv'
<1>1. /\ repl /\ status' = "prompt" /\ at' = at
      /\ UNCHANGED <<input, ls, semi, erange, token>>
  BY DEF StartRepl
<1>2. at \in Places  BY DEF LInv, TypeOK, Places
<1>. QED  BY <1>1, <1>2, ErangeSofar, QuietKeeps

LEMMA LexInitIs ==
  ASSUME NEW b, 0 \in DOMAIN b
  PROVE  LexInit(b) = [pos |-> IF b[0] = "EOF" THEN 0 ELSE 1, current |-> b[0],
                       text |-> <<>>, cap |-> CAP_INITIAL]
<1>. DEFINE r == [pos |-> 0, current |-> "UNSET", text |-> <<>>, cap |-> CAP_INITIAL]
            c == b[0]
            p == IF c = "EOF" THEN 0 ELSE 1
<1>1. ReadByte(b, r.pos) = c  BY DEF ReadByte
<1>2. (IF c = "EOF" THEN r.pos ELSE r.pos + 1) = p  OBVIOUS
<1>3. LexInit(b) = [r EXCEPT !.current = c, !.pos = IF c = "EOF" THEN r.pos ELSE r.pos + 1]
  BY <1>1 DEF LexInit, AdvanceIn
<1>. HIDE DEF c, p
<1>4. LexInit(b) = [r EXCEPT !.current = c, !.pos = p]  BY <1>2, <1>3
<1>5. [r EXCEPT !.current = c, !.pos = p]
        = [pos |-> p, current |-> c, text |-> <<>>, cap |-> CAP_INITIAL]
  <2>1. r \in LexStates
    <3>1. <<>> \in Seq(Stored) /\ "UNSET" \in Stored /\ "UNSET" \in Source
      BY DEF Stored, Source
    <3>. QED  BY <3>1, LexerAssumption DEF LexStates
  <2>2. r.text = <<>> /\ r.cap = CAP_INITIAL  OBVIOUS
  <2>. HIDE DEF r
  <2>3. [r EXCEPT !.current = c, !.pos = p]
          = [pos |-> p, current |-> c, text |-> r.text, cap |-> r.cap]
    BY <2>1 DEF LexStates
  <2>. QED  BY <2>2, <2>3
<1>. QED  BY <1>4, <1>5 DEF c, p

(* A line or file has been read, lex_init stands at its first character.   *)
LEMMA ParseKeeps ==
  ASSUME LInv, Parse(buffer'), repl' = repl, erange' = erange,
         rest' \in Seq(Chars), ended' \in BOOLEAN,
         chunks' \in Seq(Seq(Chars)), chunks' # <<>>,
         NEW line \in Seq(Chars), line = Line',
         DOMAIN buffer' \subseteq Nat, buffer' \in [DOMAIN buffer' -> Source],
         0 \in DOMAIN buffer', Len(line) \in DOMAIN buffer',
         \A i \in 0 .. Len(line) - 1 : i \in DOMAIN buffer' /\ buffer'[i] = line[i + 1],
         repl => /\ DOMAIN buffer' = 0 .. BUFFER_SIZE - 1
                 /\ buffer'[Len(line)] = "NUL",
         ~repl => /\ DOMAIN buffer' = 0 .. Len(line)
                  /\ buffer'[Len(line)] = "UNSET",
         RunsRead',
         erange => \E n \in DOMAIN chunks' :
                     Overlong(chunks'[n]) \/ (Holds(chunks'[n], "^") /\ n < Len(chunks'))
  PROVE  LInv'
<1>. DEFINE c == buffer'[0]
<1>1. c \in Source /\ (c = "UNSET" => ~repl /\ Len(line) = 0)
  <2>1. CASE Len(line) = 0
    <3>1. repl => c = "NUL"  BY <2>1
    <3>. QED  BY <2>1, <3>1
  <2>2. CASE Len(line) # 0
    <3>1. 0 \in 0 .. Len(line) - 1 /\ 1 \in DOMAIN line  BY <2>2
    <3>2. buffer'[0] = line[0 + 1]  BY <3>1
    <3>. QED  BY <3>1, <3>2, CharactersAssumption
  <2>. QED  BY <2>1, <2>2
<1>2. ls' = [pos |-> IF c = "EOF" THEN 0 ELSE 1, current |-> c, text |-> <<>>,
             cap |-> CAP_INITIAL]
  <2>1. ls' = LexInit(buffer')  BY DEF Parse
  <2>. QED  BY <2>1, LexInitIs DEF c
<1>. HIDE DEF c
<1>3. /\ opened' = TRUE /\ semi' = NoSemInfo /\ at' = "start"
      /\ token' = [type |-> "UNSET", value |-> NoSemInfo]
  BY DEF Parse
<1>4. status' = IF c = "UNSET" THEN "undefined" ELSE "parsing"  BY <1>2 DEF Parse
<1>5. Here' = 0
  <2>1. Here' = IF ls'.current = "EOF" THEN ls'.pos ELSE ls'.pos - 1  BY DEF Here
  <2>. QED  BY <1>2, <2>1
<1>6. TypeOK'
  <2>1. repl' \in BOOLEAN /\ erange' \in BOOLEAN  BY DEF LInv, TypeOK
  <2>2. ls' \in [pos : Nat, current : Source, text : Seq(Stored), cap : Nat]
    <3>1. CAP_INITIAL \in Nat /\ <<>> \in Seq(Stored)  BY LexerAssumption
    <3>. QED  BY <1>1, <1>2, <3>1
  <2>3. semi' \in SemInfos /\ token' \in [type : TokenTypes, value : SemInfos]
    <3>1. "UNSET" \in TokenTypes  BY DEF TokenTypes, Source
    <3>. QED  BY <1>3, <3>1, ValueTypes
  <2>. QED  BY <1>3, <1>4, <2>1, <2>2, <2>3 DEF TypeOK
<1>7. BufferFits'  BY <1>2, LexerAssumption DEF BufferFits
<1>8. OwnValue' /\ TextIsLexeme' /\ KindByMagnitude'
  <2>1. ~Delivered'  BY <1>3 DEF Delivered
  <2>. QED  BY <2>1 DEF OwnValue, TextIsLexeme, KindByMagnitude
<1>9. UndefinedExplained'
  <2>. SUFFICES ASSUME c = "UNSET"  PROVE ~repl' /\ ls'.pos > Len(Line')
    BY <1>4 DEF UndefinedExplained, Line
  <2>. QED  BY <1>1, <1>2
<1>10. SourceHeld'  BY <1>3, <1>4 DEF SourceHeld
<1>11. Standing'  BY <1>2, <1>4, <1>5 DEF Standing, c
<1>12. Saved'  BY <1>2, <1>3 DEF Saved
<1>13. Begun'  BY <1>3, <1>5 DEF Begun
<1>14. ErangeExplained'  BY DEF ErangeExplained, Holds
<1>15. WithinLine'
  <2>1. 0 <= Len(line)  OBVIOUS
  <2>. QED  BY <1>3, <1>5, <2>1 DEF WithinLine
<1>. QED
  BY <1>6, <1>7, <1>8, <1>9, <1>10, <1>11, <1>12, <1>13, <1>14, <1>15 DEF LInv

LEMMA ReadChunkKeeps ==
  ASSUME LInv, status = "prompt", NEW text \in Seq(Chars), ReadChunk(text), ended' \in BOOLEAN
  PROVE  LInv'
<1>. DEFINE line == Chunk(text)
            n    == Len(line)
            m    == Len(chunks) + 1
<1>1. /\ buffer' = Filled(line) /\ rest' = SubSeq(text, n + 1, Len(text))
      /\ chunks' = Append(chunks, line) /\ repl' = repl /\ erange' = erange
      /\ IF line = ClearScreen
         THEN UNCHANGED <<status, opened, ls, at, semi, token>>
         ELSE Parse(buffer')
  BY DEF ReadChunk
<1>2. /\ repl /\ DOMAIN buffer = 0 .. BUFFER_SIZE - 1 /\ BUFFER_SIZE \in Nat /\ BUFFER_SIZE >= 2
      /\ buffer \in [DOMAIN buffer -> Source] /\ chunks \in Seq(Seq(Chars))
  BY LexerAssumption DEF LInv, SourceHeld, TypeOK
<1>3. line \in Seq(Chars) /\ n \in Nat /\ n <= BUFFER_SIZE - 1 /\ n <= Len(text)
  <2>. DEFINE k == Smaller(Len(text), BUFFER_SIZE - 1)
  <2>1. k \in 0 .. Len(text) /\ k <= BUFFER_SIZE - 1  BY <1>2 DEF Smaller
  <2>. HIDE DEF k
  <2>2. line \in Seq(Chars) /\ Len(line) = k
    <3>1. \A i \in 1 .. k : text[i] \in Chars  BY <2>1
    <3>2. k \in Int /\ 1 \in Int  BY <2>1
    <3>3. /\ SubSeq(text, 1, k) \in Seq(Chars)
          /\ Len(SubSeq(text, 1, k)) = IF 1 <= k THEN k - 1 + 1 ELSE 0
      BY <3>1, <3>2, SubSeqProperties
    <3>. QED  BY <2>1, <3>3 DEF Chunk, k
  <2>. QED  BY <2>1, <2>2
<1>4. rest' \in Seq(Chars)
  <2>1. \A i \in n + 1 .. Len(text) : text[i] \in Chars  BY <1>3
  <2>2. n + 1 \in Int /\ Len(text) \in Int  BY <1>3
  <2>. HIDE DEF n
  <2>. QED  BY <1>1, <2>1, <2>2, SubSeqProperties
<1>. HIDE DEF line
<1>5. /\ m \in Nat /\ chunks' \in Seq(Seq(Chars)) /\ chunks' # <<>>
      /\ Len(chunks') = m /\ chunks'[m] = line
      /\ \A i \in DOMAIN chunks : i \in DOMAIN chunks' /\ chunks'[i] = chunks[i]
      /\ m \in DOMAIN chunks' /\ DOMAIN chunks' = DOMAIN chunks \cup {m}
  <2>1. m \in Nat /\ DOMAIN chunks = 1 .. m - 1  BY <1>2
  <2>2. chunks' \in Seq(Seq(Chars)) /\ Len(chunks') = m /\ chunks'[m] = line
    BY <1>1, <1>2, <1>3
  <2>3. \A i \in 1 .. m - 1 : chunks'[i] = chunks[i]  BY <1>1, <1>2
  <2>. HIDE DEF m
  <2>4. DOMAIN chunks' = 1 .. m /\ m > 0  BY <1>1, <2>1, <2>2
  <2>. QED  BY <2>1, <2>2, <2>3, <2>4
<1>6. Line' = line  BY <1>5 DEF Line, Last
<1>7. /\ DOMAIN buffer' = 0 .. BUFFER_SIZE - 1
      /\ \A i \in 0 .. BUFFER_SIZE - 1 :
           buffer'[i] = IF i < n THEN line[i + 1] ELSE IF i = n THEN "NUL" ELSE buffer[i]
  BY <1>1 DEF Filled
<1>8. DOMAIN buffer' \subseteq Nat /\ buffer' \in [DOMAIN buffer' -> Source]
  <2>1. ASSUME NEW i \in 0 .. BUFFER_SIZE - 1  PROVE buffer'[i] \in Source
    <3>1. CASE i < n
      <4>1. i + 1 \in DOMAIN line  BY <1>3, <3>1
      <4>2. line[i + 1] \in Chars  BY <1>3, <4>1
      <4>. QED  BY <1>7, <3>1, <4>2 DEF Source
    <3>2. CASE i = n  BY <1>7, <3>2 DEF Source
    <3>3. CASE ~(i < n) /\ i # n  BY <1>2, <1>7, <3>3
    <3>. QED  BY <3>1, <3>2, <3>3
  <2>2. buffer' = [i \in 0 .. BUFFER_SIZE - 1 |-> buffer'[i]]  BY <1>1 DEF Filled
  <2>. QED  BY <1>2, <1>7, <2>1, <2>2
<1>. HIDE DEF n, m
<1>9. n \in DOMAIN buffer' /\ buffer'[n] = "NUL" /\ 0 \in DOMAIN buffer'
  BY <1>2, <1>3, <1>7
<1>10. \A i \in 0 .. n - 1 : i \in DOMAIN buffer' /\ buffer'[i] = line[i + 1]
  BY <1>2, <1>3, <1>7
<1>11. RunsRead'
  <2>1. ASSUME NEW i \in DOMAIN buffer', NEW j \in DOMAIN buffer', i <= j,
               \A k \in i .. j : buffer'[k] \in Digits \cup {"."}
        PROVE  \E c \in DOMAIN chunks' : \E a \in DOMAIN chunks'[c] :
                 /\ a + (j - i) <= Len(chunks'[c])
                 /\ \A k \in 0 .. j - i : chunks'[c][a + k] = buffer'[i + k]
    <3>0. i \in 0 .. BUFFER_SIZE - 1 /\ j \in 0 .. BUFFER_SIZE - 1  BY <1>7, <2>1
    <3>1. "NUL" \notin Digits \cup {"."}  BY CharactersAssumption DEF Chars
    <3>2. n \notin i .. j  BY <1>9, <2>1, <3>1
    <3>3. CASE j < n
      <4>. DEFINE a == i + 1
      <4>1. a \in DOMAIN line /\ a + (j - i) <= n /\ Len(line) = n  BY <1>3, <2>1, <3>0, <3>3 DEF n
      <4>2. \A k \in 0 .. j - i : line[a + k] = buffer'[i + k]
        <5>1. ASSUME NEW k \in 0 .. j - i  PROVE line[a + k] = buffer'[i + k]
          <6>. DEFINE x == i + k
          <6>1. x \in 0 .. n - 1 /\ a + k = x + 1  BY <1>3, <3>0, <3>3
          <6>. HIDE DEF x, a
          <6>2. buffer'[x] = line[x + 1]  BY <1>10, <6>1
          <6>. QED  BY <6>1, <6>2 DEF x
        <5>. QED  BY <5>1
      <4>. HIDE DEF a
      <4>. QED  BY <1>5, <4>1, <4>2
    <3>4. CASE n < i
      <4>1. \A k \in i .. j : buffer'[k] = buffer[k]
        <5>1. ASSUME NEW k \in i .. j  PROVE buffer'[k] = buffer[k]
          <6>1. k \in 0 .. BUFFER_SIZE - 1 /\ ~(k < n) /\ k # n  BY <1>2, <1>3, <3>0, <3>4
          <6>. QED  BY <1>7, <6>1
        <5>. QED  BY <5>1
      <4>2. i \in DOMAIN buffer /\ j \in DOMAIN buffer /\ \A k \in i .. j : buffer[k] \in Digits \cup {"."}
        BY <1>2, <2>1, <3>0, <4>1
      <4>3. PICK c \in DOMAIN chunks : \E a \in DOMAIN chunks[c] :
                 /\ a + (j - i) <= Len(chunks[c])
                 /\ \A k \in 0 .. j - i : chunks[c][a + k] = buffer[i + k]
        BY <1>2, <2>1, <4>2 DEF LInv, RunsRead
      <4>4. c \in DOMAIN chunks' /\ chunks'[c] = chunks[c]  BY <1>5
      <4>5. \A k \in 0 .. j - i : buffer[i + k] = buffer'[i + k]
        <5>1. \A k \in 0 .. j - i : i + k \in i .. j  BY <1>2, <3>0
        <5>. QED  BY <4>1, <5>1
      <4>. QED  BY <4>3, <4>4, <4>5
    <3>. QED  BY <1>3, <3>0, <3>2, <3>3, <3>4
  <2>. QED  BY <2>1 DEF RunsRead
<1>12. erange => \E c \in DOMAIN chunks' :
                   Overlong(chunks'[c]) \/ (Holds(chunks'[c], "^") /\ c < Len(chunks'))
  <2>1. \A c \in DOMAIN chunks : c < Len(chunks')  BY <1>2, <1>5 DEF m
  <2>. QED  BY <1>5, <2>1, ErangeSofar
<1>13. CASE line # ClearScreen
  <2>1. Parse(buffer')  BY <1>1, <1>13
  <2>3. 0 \in DOMAIN buffer' /\ Len(line) \in DOMAIN buffer' /\ buffer'[Len(line)] = "NUL"
        /\ \A i \in 0 .. Len(line) - 1 : i \in DOMAIN buffer' /\ buffer'[i] = line[i + 1]
    BY <1>9, <1>10 DEF n
  <2>. QED
    BY <1>1, <1>2, <1>3, <1>4, <1>5, <1>6, <1>7, <1>8, <1>11, <1>12, <2>1, <2>3, ParseKeeps
       DEF n
<1>14. CASE line = ClearScreen
  <2>1. /\ status' = status /\ opened' = opened /\ ls' = ls /\ at' = at /\ semi' = semi
        /\ token' = token
    BY <1>1, <1>14
  <2>2. TypeOK'  BY <1>1, <1>4, <1>5, <1>8, <2>1 DEF LInv, TypeOK
  <2>3. BufferFits'  BY <2>1 DEF LInv, BufferFits
  <2>4. OwnValue' /\ TextIsLexeme' /\ KindByMagnitude'
    <3>1. ~Delivered'  BY <2>1 DEF Delivered, Running
    <3>. QED  BY <3>1 DEF OwnValue, TextIsLexeme, KindByMagnitude
  <2>5. UndefinedExplained'
    <3>1. status' # "undefined"  BY <2>1
    <3>. QED  BY <3>1 DEF UndefinedExplained
  <2>6. SourceHeld'
    <3>1. ~opened' => \A i \in DOMAIN chunks' : chunks'[i] = ClearScreen
      BY <1>5, <1>14, <2>1 DEF LInv, SourceHeld
    <3>. QED  BY <1>1, <1>2, <1>7, <2>1, <3>1 DEF SourceHeld
  <2>7. Standing' /\ Saved' /\ Begun' /\ WithinLine'
    BY <2>1 DEF Standing, Saved, Begun, WithinLine
  <2>8. ErangeExplained'  BY <1>1, <1>12 DEF ErangeExplained, Holds
  <2>. QED  BY <1>11, <2>2, <2>3, <2>4, <2>5, <2>6, <2>7, <2>8 DEF LInv
<1>. QED  BY <1>13, <1>14

LEMMA ReadLineKeeps ==
  ASSUME LInv, ReadLine
  PROVE  LInv'
<1>1. PICK line \in Typed[NextLine] :
        \/ ReadChunk(Append(line, "NL")) /\ UNCHANGED ended
        \/ line # <<>> /\ ReadChunk(line) /\ ended' = TRUE
  BY DEF ReadLine
<1>2. status = "prompt" /\ NextLine \in DOMAIN Typed  BY DEF ReadLine
<1>3. line \in Seq(Chars) /\ Append(line, "NL") \in Seq(Chars)
  <2>. DEFINE S == Chars \ {"NL"}
  <2>1. Typed \in Seq(SUBSET Seq(S))  BY LexerAssumption
  <2>. HIDE DEF S
  <2>2. Typed[NextLine] \in SUBSET Seq(S)  BY <1>2, <2>1, ElementOfSeq
  <2>3. line \in Seq(S) /\ S \subseteq Chars /\ "NL" \in Chars  BY <2>2 DEF S, Chars
  <2>4. line \in Seq(Chars)  BY <2>3, SeqMonotonic
  <2>. QED  BY <2>3, <2>4
<1>4. ended \in BOOLEAN  BY DEF LInv, TypeOK
<1>. QED  BY <1>1, <1>2, <1>3, <1>4, ReadChunkKeeps

LEMMA ReadRestKeeps ==
  ASSUME LInv, ReadRest
  PROVE  LInv'
<1>1. status = "prompt" /\ ReadChunk(rest) /\ ended' = ended  BY DEF ReadRest
<1>2. rest \in Seq(Chars) /\ ended \in BOOLEAN  BY DEF LInv, TypeOK
<1>. QED  BY <1>1, <1>2, ReadChunkKeeps

LEMMA RunFileKeeps ==
  ASSUME LInv, RunFile
  PROVE  LInv'
<1>1. PICK text \in Files :
        /\ buffer' = [i \in 0 .. Len(text) |-> IF i < Len(text) THEN text[i + 1] ELSE "UNSET"]
        /\ chunks' = <<text>>
        /\ \/ status' = "undefined" /\ UNCHANGED <<opened, ls, at, semi, token>>
           \/ Parse(buffer')
  BY DEF RunFile
<1>2. /\ ~repl /\ status = "starting" /\ repl' = repl /\ rest' = rest /\ ended' = ended
      /\ erange' = erange
  BY DEF RunFile
<1>3. text \in Seq(Chars)  BY LexerAssumption
<1>. DEFINE n == Len(text)
<1>4. n \in Nat /\ \A i \in 1 .. n : text[i] \in Chars  BY <1>3
<1>. HIDE DEF n
<1>5. buffer' = [i \in 0 .. n |-> IF i < n THEN text[i + 1] ELSE "UNSET"]  BY <1>1 DEF n
<1>6. /\ DOMAIN buffer' = 0 .. n /\ 0 \in DOMAIN buffer' /\ n \in DOMAIN buffer'
      /\ \A i \in 0 .. n - 1 : i \in DOMAIN buffer' /\ buffer'[i] = text[i + 1]
      /\ buffer'[n] = "UNSET"
  BY <1>4, <1>5
<1>7. DOMAIN buffer' \subseteq Nat /\ buffer' \in [DOMAIN buffer' -> Source]
  <2>1. ASSUME NEW i \in 0 .. n  PROVE (IF i < n THEN text[i + 1] ELSE "UNSET") \in Source
    <3>1. i < n => i + 1 \in 1 .. n  BY <1>4
    <3>. QED  BY <1>4, <3>1 DEF Source
  <2>. QED  BY <1>4, <1>5, <2>1
<1>8. chunks' \in Seq(Seq(Chars)) /\ chunks' # <<>> /\ Line' = text
  BY <1>1, <1>3 DEF Line, Last
<1>9. RunsRead'  BY <1>2 DEF RunsRead
<1>10. ~erange /\ rest' \in Seq(Chars) /\ ended' \in BOOLEAN
  BY <1>2 DEF LInv, SourceHeld, TypeOK
<1>11. CASE Parse(buffer')
  BY <1>2, <1>3, <1>6, <1>7, <1>8, <1>9, <1>10, <1>11, ParseKeeps DEF n
<1>12. CASE status' = "undefined" /\ UNCHANGED <<opened, ls, at, semi, token>>
  <2>1. /\ status' = "undefined" /\ opened' = opened /\ ls' = ls /\ at' = at /\ semi' = semi
        /\ token' = token
    BY <1>12
  <2>2. TypeOK'  BY <1>2, <1>7, <1>8, <1>10, <2>1 DEF LInv, TypeOK
  <2>3. BufferFits'  BY <2>1 DEF LInv, BufferFits
  <2>4. OwnValue' /\ TextIsLexeme' /\ KindByMagnitude'
    <3>1. ~Delivered'  BY <2>1 DEF Delivered, Running
    <3>. QED  BY <3>1 DEF OwnValue, TextIsLexeme, KindByMagnitude
  <2>5. ~opened  BY <1>2 DEF LInv, SourceHeld
  <2>6. UndefinedExplained'  BY <1>2, <2>1, <2>5 DEF UndefinedExplained
  <2>7. SourceHeld'  BY <1>2, <2>1 DEF SourceHeld
  <2>8. Standing' /\ Saved' /\ Begun' /\ WithinLine'
    BY <2>1 DEF Standing, Saved, Begun, WithinLine
  <2>9. ErangeExplained'  BY <1>2, <1>10 DEF ErangeExplained
  <2>. QED  BY <1>9, <2>2, <2>3, <2>4, <2>6, <2>7, <2>8, <2>9 DEF LInv
<1>. QED  BY <1>1, <1>11, <1>12

LEMMA InitInv == Init => LInv
<1>. SUFFICES ASSUME Init  PROVE LInv  OBVIOUS
<1>1. /\ repl \in BOOLEAN /\ status = "starting" /\ rest = <<>> /\ ended = FALSE
      /\ opened = FALSE /\ chunks = <<>> /\ at = "between" /\ semi = NoSemInfo
      /\ erange = FALSE /\ token = [type |-> "UNSET", value |-> NoSemInfo]
      /\ ls = [pos |-> 0, current |-> "UNSET", text |-> <<>>, cap |-> CAP_INITIAL]
      /\ buffer = [i \in 0 .. BUFFER_SIZE - 1 |-> "UNSET"]
  BY DEF Init
<1>2. BUFFER_SIZE \in Nat /\ CAP_INITIAL \in Nat /\ CAP_INITIAL >= 2
  BY LexerAssumption
<1>3. "UNSET" \in Source /\ "UNSET" \notin Digits \cup {"."}
  BY CharactersAssumption DEF Source, Chars
<1>4. TypeOK
  <2>1. DOMAIN buffer \subseteq Nat /\ buffer \in [DOMAIN buffer -> Source]
    BY <1>1, <1>2, <1>3
  <2>2. ls \in [pos : Nat, current : Source, text : Seq(Stored), cap : Nat]
    <3>1. <<>> \in Seq(Stored)  OBVIOUS
    <3>. QED  BY <1>1, <1>2, <1>3, <3>1
  <2>3. token \in [type : TokenTypes, value : SemInfos] /\ semi \in SemInfos
    <3>1. "UNSET" \in TokenTypes  BY <1>3 DEF TokenTypes
    <3>. QED  BY <1>1, <3>1, ValueTypes
  <2>4. rest \in Seq(Chars) /\ chunks \in Seq(Seq(Chars))  BY <1>1
  <2>. QED  BY <1>1, <2>1, <2>2, <2>3, <2>4 DEF TypeOK
<1>5. BufferFits  BY <1>1, <1>2 DEF BufferFits
<1>6. OwnValue /\ TextIsLexeme /\ KindByMagnitude
  BY <1>1 DEF OwnValue, TextIsLexeme, KindByMagnitude, Delivered, Running
<1>7. UndefinedExplained  BY <1>1 DEF UndefinedExplained
<1>8. SourceHeld  BY <1>1 DEF SourceHeld
<1>9. Standing /\ Saved /\ Begun /\ WithinLine
  BY <1>1 DEF Standing, Saved, Begun, WithinLine
<1>10. RunsRead
  <2>. SUFFICES ASSUME NEW i \in DOMAIN buffer, NEW j \in DOMAIN buffer, i <= j,
                       \A k \in i .. j : buffer[k] \in Digits \cup {"."}
                PROVE  FALSE
    BY DEF RunsRead
  <2>1. i \in 0 .. BUFFER_SIZE - 1 /\ j \in 0 .. BUFFER_SIZE - 1  BY <1>1
  <2>2. i \in i .. j /\ buffer[i] = "UNSET"  BY <1>1, <1>2, <2>1
  <2>. QED  BY <1>3, <2>2
<1>11. ErangeExplained  BY <1>1 DEF ErangeExplained
<1>. QED  BY <1>4, <1>5, <1>6, <1>7, <1>8, <1>9, <1>10, <1>11 DEF LInv

-----------------------------------------------------------------------------
(* The inductive invariant holds in every reachable state: whatever is     *)
(* typed, and whatever an earlier line left behind (lexer.c, main.c:34-64).*)
THEOREM LexerInvariance == Spec => []LInv
<1>1. Init => LInv  BY InitInv
<1>2. LInv /\ [Next]_vars => LInv'
  <2>. SUFFICES ASSUME LInv, [Next]_vars  PROVE LInv'  OBVIOUS
  <2>1. CASE Lex  BY <2>1, LexKeeps
  <2>2. CASE LexStep
    BY <2>2, EndKeeps, BlankKeeps, BeginCommentKeeps, CommentKeeps, BeginStringKeeps,
       InStringKeeps, CharLiteralKeeps, BeginNumeralKeeps, NumeralKeeps, BeginNameKeeps,
       NameKeeps, SymbolKeeps DEF LexStep
  <2>3. CASE EndParse \/ Interpret  BY <2>3, EndParseKeeps, InterpretKeeps
  <2>4. CASE IndexRules  BY <2>4, IndexRulesKeeps
  <2>5. CASE StartRepl  BY <2>5, StartReplKeeps
  <2>6. CASE ReadLine  BY <2>6, ReadLineKeeps
  <2>7. CASE ReadRest  BY <2>7, ReadRestKeeps
  <2>8. CASE EndOfInput  BY <2>8, QuitKeeps DEF EndOfInput, LInv, SourceHeld
  <2>9. CASE Interrupt  BY <2>9, QuitKeeps DEF Interrupt
  <2>10. CASE RunFile  BY <2>10, RunFileKeeps
  <2>11. CASE UNCHANGED vars
    <3>1. /\ repl' = repl /\ status' = status /\ buffer' = buffer /\ rest' = rest
          /\ ended' = ended /\ opened' = opened /\ chunks' = chunks /\ ls' = ls /\ at' = at
          /\ semi' = semi /\ erange' = erange /\ token' = token
      BY <2>11 DEF vars, input
    <3>2. (TypeOK' <=> TypeOK) /\ (BufferFits' <=> BufferFits)
      BY <3>1 DEF TypeOK, BufferFits
    <3>3. (OwnValue' <=> OwnValue) /\ (KindByMagnitude' <=> KindByMagnitude)
      BY <3>1 DEF OwnValue, KindByMagnitude, Delivered, Running
    <3>4. TextIsLexeme' <=> TextIsLexeme
      BY <3>1 DEF TextIsLexeme, Delivered, Running, Here, Slice
    <3>5. UndefinedExplained' <=> UndefinedExplained
      BY <3>1 DEF UndefinedExplained, MayRunOn, Holds
    <3>6. (SourceHeld' <=> SourceHeld) /\ (Standing' <=> Standing) /\ (Saved' <=> Saved)
      BY <3>1 DEF SourceHeld, Standing, Saved, Here, Line
    <3>7. Begun' <=> Begun  BY <3>1 DEF Begun, Here, Slice
    <3>8. (RunsRead' <=> RunsRead) /\ (ErangeExplained' <=> ErangeExplained)
      BY <3>1 DEF RunsRead, ErangeExplained, Holds
    <3>9. WithinLine' <=> WithinLine  BY <3>1 DEF WithinLine, Bounded, MayRunOn, Line, Here, Holds
    <3>. QED  BY <3>2, <3>3, <3>4, <3>5, <3>6, <3>7, <3>8, <3>9 DEF LInv
  <2>. QED
    BY <2>1, <2>2, <2>3, <2>4, <2>5, <2>6, <2>7, <2>8, <2>9, <2>10, <2>11 DEF Next
<1>. QED  BY <1>1, <1>2, PTL DEF Spec

(* The lexer's state has its type, and nothing but source characters is    *)
(* ever stored (lexer.c:14-50).                                            *)
THEOREM LexerTypeCorrect == Spec => []TypeOK
<1>1. LInv => TypeOK  BY DEF LInv
<1>. QED  BY <1>1, LexerInvariance, PTL

(* The characters saved and their terminator fit into the block, for every *)
(* first size of it and however long the token (string.c:111-131).         *)
THEOREM TextFits == Spec => []BufferFits
<1>1. LInv => BufferFits  BY DEF LInv
<1>. QED  BY <1>1, LexerInvariance, PTL

(* The text of a token is the lexeme before the lexer's position, decoded  *)
(* if quoted (lexer.c:326-353, 355-363, 404, 497-522, 539-547).            *)
THEOREM LexemesAreTexts == Spec => []TextIsLexeme
<1>1. LInv => TextIsLexeme  BY DEF LInv
<1>. QED  BY <1>1, LexerInvariance, PTL

(* No token carries the value of an earlier one, although all share one    *)
(* union (lexer.c:104, 144, 181, 351, 375-380, 520, 562).                  *)
THEOREM ValuesAreOwn == Spec => []OwnValue
<1>1. LInv => OwnValue  BY DEF LInv
<1>. QED  BY <1>1, LexerInvariance, PTL

(* Only errno makes a number of an integer that fits: after a literal that *)
(* strtoll or strtod could not represent, or an earlier line with the      *)
(* operator ^ (lexer.c:239-266, vm.c:434).                                 *)
THEOREM KindsAreByMagnitude == Spec => []KindByMagnitude
<1>1. LInv => KindByMagnitude  BY DEF LInv
<1>. QED  BY <1>1, LexerInvariance, PTL

(* Nothing behind the terminator is read, but in the lines MayRunOn names  *)
(* (lexer.c:38-48, 326-353, 416-418, 451-460, 497-518).                    *)
THEOREM LinesAreKept == Spec => []StaysInLine
<1>1. LInv => StaysInLine
  <2>. SUFFICES ASSUME LInv, status = "parsing", Bounded \/ ~repl
                PROVE  ls.pos <= Len(Line) + 1
    BY DEF StaysInLine, Line, Bounded
  <2>1. /\ Stands(ls, Here) /\ Here \in Nat /\ Line \in Seq(Chars)
        /\ Here \in DOMAIN buffer
    BY Standpoint
  <2>2. Here <= Len(Line)
    <3>1. CASE Bounded  BY <3>1 DEF LInv, WithinLine
    <3>2. CASE ~repl  BY <2>1, <3>2 DEF LInv, SourceHeld
    <3>. QED  BY <3>1, <3>2
  <2>3. Len(Line) \in Nat  BY <2>1
  <2>4. ls.pos = Here \/ ls.pos = Here + 1  BY <2>1 DEF Stands
  <2>. QED  BY <2>1, <2>2, <2>3, <2>4
<1>. QED  BY <1>1, LexerInvariance, PTL

(* The session's state becomes undefined in the known ways only: a file's  *)
(* by the store behind its block or the byte nobody wrote                  *)
(* (main.c:67-80, 117-121, 173; lexer.c:552-555).                          *)
THEOREM UndefinedIsExplained == Spec => []UndefinedExplained
<1>1. LInv => UndefinedExplained  BY DEF LInv
<1>. QED  BY <1>1, LexerInvariance, PTL
=============================================================================
