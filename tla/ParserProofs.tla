---------------------------- MODULE ParserProofs ----------------------------
(* That the parser keeps to its types, and that it emits the code of the   *)
(* phrases it accepts.  The invariant puts a mark between any two calls    *)
(* of the C stack: a token, a byte of the code, and what is to be parsed   *)
(* from there.  Each call is linked to the marks before and behind it, by  *)
(* what it goes on with when the calls above it return, and what has been  *)
(* parsed so far is what the topmost mark says (PhraseProofs).             *)
EXTENDS PhraseProofs

-----------------------------------------------------------------------------
(* The lexer's tokens. *)

(* The token looked at is the last one read.                               *)
Reading(a, cu, rd) ==
  /\ a \in Alphabets
  /\ Reads(a, rd)
  /\ cu = rd[Len(rd)]
  /\ cu # "EOF" => Len(rd) <= a.length

(* One more token. *)
LEMMA ReadsMore ==
  ASSUME NEW a, NEW cu, NEW rd, Reading(a, cu, rd), cu # "EOF",
         NEW t, t = "EOF" \/ /\ t \in DOMAIN a.most
                             /\ Len(rd) < a.length
                             /\ Cardinality({i \in DOMAIN rd : rd[i] = t}) < a.most[t]
  PROVE  Reading(a, t, Append(rd, t))
<1>. DEFINE T == DOMAIN a.most \cup {"EOF"}
            r == Append(rd, t)
            n == Len(rd)
<1>1. a \in Alphabets /\ a.length \in Nat /\ a.most \in [DOMAIN a.most -> Nat \ {0}]
  BY ParserAssumption DEF Reading
<1>2. /\ rd \in Seq(T) /\ n \in Nat /\ n # 0 /\ rd[n] # "EOF" /\ n <= a.length
      /\ \A i \in 1 .. n - 1 : rd[i] # "EOF"
      /\ \A u \in DOMAIN a.most \ {"EOF"} :
           Cardinality({i \in DOMAIN rd : rd[i] = u}) <= a.most[u]
  BY DEF Reading, Reads
<1>3. /\ r \in Seq(T) /\ Len(r) = n + 1 /\ r[n + 1] = t /\ DOMAIN r = 1 .. n + 1
      /\ DOMAIN rd = 1 .. n /\ \A i \in 1 .. n : r[i] = rd[i]
  <2>1. t \in T  OBVIOUS
  <2>. HIDE DEF T
  <2>. QED  BY <1>2, <2>1
<1>. HIDE DEF r, n
<1>4. ASSUME NEW u \in DOMAIN a.most \ {"EOF"}
      PROVE  Cardinality({i \in DOMAIN r : r[i] = u}) <= a.most[u]
  <2>. DEFINE A == {i \in DOMAIN rd : rd[i] = u}
              B == {i \in DOMAIN r : r[i] = u}
  <2>1. IsFiniteSet(A)
    <3>1. IsFiniteSet(1 .. n)  BY <1>2, FS_Interval
    <3>2. A \subseteq 1 .. n  BY <1>3
    <3>. QED  BY <3>1, <3>2, FS_Subset
  <2>2. Cardinality(A) \in Nat /\ Cardinality(A) <= a.most[u] /\ a.most[u] \in Nat
    BY <1>1, <1>2, <2>1, FS_CardinalityType
  <2>3. CASE u # t
    <3>1. A = B  BY <1>2, <1>3, <2>3
    <3>. QED  BY <2>2, <3>1
  <2>4. CASE u = t
    <3>1. B = A \cup {n + 1}  BY <1>2, <1>3, <2>4
    <3>2. n + 1 \notin A  BY <1>2, <1>3
    <3>3. Cardinality(B) = Cardinality(A) + 1  BY <2>1, <3>1, <3>2, FS_AddElement
    <3>4. Cardinality(A) < a.most[u]  BY <2>4
    <3>. QED  BY <2>2, <3>3, <3>4
  <2>. QED  BY <2>3, <2>4
<1>5. r # <<>>  BY <1>2, <1>3
<1>6. \A i \in 1 .. Len(r) - 1 : r[i] # "EOF"  BY <1>2, <1>3
<1>7. Len(r) - 1 <= a.length /\ (t # "EOF" => Len(r) <= a.length)
  BY <1>1, <1>2, <1>3 DEF n
<1>8. Reads(a, r)  BY <1>3, <1>4, <1>5, <1>6, <1>7 DEF Reads
<1>. QED  BY <1>1, <1>3, <1>7, <1>8 DEF Reading, r

(* advance makes the token looked at the previous one, and reads another   *)
(* unless the source has ended.                                            *)
LEMMA AdvanceReads ==
  ASSUME Reading(alphabet, current, read), Advance, alphabet' = alphabet
  PROVE  /\ Reading(alphabet, current, read)'
         /\ current = "EOF" => current' = "EOF" /\ read' = read
         /\ current # "EOF" => read' = Append(read, current')
         /\ previous' = current
         /\ current' \in DOMAIN alphabet.most \cup {"EOF"}
<1>1. PICK t \in Upcoming : /\ previous' = current
                            /\ current' = t
                            /\ read' = IF current = "EOF" THEN read ELSE Append(read, t)
  BY DEF Advance
<1>2. \/ t = "EOF"
      \/ /\ t \in DOMAIN alphabet.most
         /\ current # "EOF"
         /\ Len(read) < alphabet.length
         /\ Cardinality({i \in DOMAIN read : read[i] = t}) < alphabet.most[t]
  BY DEF Upcoming, Occurs
<1>3. CASE current = "EOF"  BY <1>1, <1>2, <1>3 DEF Reading
<1>4. CASE current # "EOF"
  <2>1. Reading(alphabet, t, Append(read, t))  BY <1>2, <1>4, ReadsMore
  <2>. QED  BY <1>1, <1>2, <1>4, <2>1
<1>. QED  BY <1>3, <1>4

-----------------------------------------------------------------------------
(* The types of what is still to be done. *)

Typed(e) ==
  /\ e.do \in Places
  /\ e.do \in {"prec", "infix"} => e.level \in 1 .. 9
  /\ e.do = "emit" => e.bytes \in Seq(Bytes)
  /\ e.do = "argument" => e.count \in 0 .. MAX_ARGUMENTS
  /\ e.do \in {"while", "loop", "for_exit", "for_step", "for_body"} => e.start \in Nat
  /\ e.do \in {"loop", "else", "patch", "for_body"} => e.hole \in Nat
  /\ e.do \in {"for_body", "for_end"} => e.step \in Nat
  /\ e.do \in {"for_step", "for_body", "for_end"} => e.exit \subseteq Nat

(* The rules, which are called at once, are for the token just read.       *)
Fits(e, pv) ==
  /\ e.do = "name"    => pv \in Names
  /\ e.do = "literal" => pv \in Literals \cup {"void"}
  /\ e.do = "binary"  => pv \in BinaryTokens
  /\ e.do = "unary"   => pv \in UnaryTokens
Waits(e) == e.do \notin {"name", "literal", "binary", "unary"}

TypedRest(calls)      == \E S : calls \in Seq(S) /\ \A e \in S : Typed(e) /\ Waits(e)
TypedStack(calls, pv) ==
  \/ calls = <<>>
  \/ \E e, rest : calls = <<e>> \o rest /\ Typed(e) /\ Fits(e, pv) /\ TypedRest(rest)

TInv ==
  /\ Reading(alphabet, current, read)
  /\ previous \in DOMAIN alphabet.most \cup {"EOF"}
  /\ TypedStack(todo, previous)
  /\ code \in Seq(Bytes)
  /\ status \in {"parsing", "done", "error", "undefined"}

(* A call of the rest comes to the top. *)
LEMMA RestStack ==
  ASSUME NEW rest, TypedRest(rest), NEW pv
  PROVE  TypedStack(rest, pv)
<1>1. PICK S : rest \in Seq(S) /\ \A x \in S : Typed(x) /\ Waits(x)  BY DEF TypedRest
<1>2. CASE rest = <<>>  BY <1>2 DEF TypedStack
<1>3. CASE rest # <<>>
  <2>. DEFINE e == rest[1]
              r == Tail(rest)
  <2>1. e \in S /\ r \in Seq(S)  BY <1>1, <1>3
  <2>2. rest = <<e>> \o r  BY <1>1, <1>3
  <2>3. Typed(e) /\ Fits(e, pv)  BY <1>1, <2>1 DEF Waits, Fits
  <2>4. TypedRest(r)  BY <1>1, <2>1 DEF TypedRest
  <2>. HIDE DEF e, r
  <2>. QED  BY <2>2, <2>3, <2>4 DEF TypedStack
<1>. QED  BY <1>2, <1>3

(* The top, and what is below it. *)
LEMMA StackTop ==
  ASSUME NEW calls, NEW pv, TypedStack(calls, pv), calls # <<>>
  PROVE  Typed(calls[1]) /\ Fits(calls[1], pv) /\ TypedRest(Tail(calls))
<1>1. PICK e, rest : calls = <<e>> \o rest /\ Typed(e) /\ Fits(e, pv) /\ TypedRest(rest)
  BY DEF TypedStack
<1>2. PICK S : rest \in Seq(S)  BY <1>1 DEF TypedRest
<1>. DEFINE R == S \cup {e}
<1>3. rest \in Seq(R) /\ e \in R  BY <1>2
<1>. HIDE DEF R
<1>4. (<<e>> \o rest)[1] = e  BY <1>3
<1>5. Tail(<<e>> \o rest) = rest  BY <1>3
<1>. QED  BY <1>1, <1>4, <1>5

(* A call that waits may be put on others that wait.                       *)
LEMMA RestPush ==
  ASSUME NEW rest, TypedRest(rest), NEW e, Typed(e), Waits(e)
  PROVE  TypedRest(<<e>> \o rest)
<1>1. PICK S : rest \in Seq(S) /\ \A x \in S : Typed(x) /\ Waits(x)  BY DEF TypedRest
<1>. DEFINE R == S \cup {e}
<1>2. rest \in Seq(R) /\ <<e>> \in Seq(R)  BY <1>1
<1>3. \A x \in R : Typed(x) /\ Waits(x)  BY <1>1
<1>. HIDE DEF R
<1>4. <<e>> \o rest \in Seq(R)  BY <1>2
<1>. QED  BY <1>3, <1>4 DEF TypedRest

(* The calls, up to three, that take the place of another. *)
LEMMA StackPush ==
  ASSUME NEW rest, TypedRest(rest), NEW pv, NEW d, Typed(d), Fits(d, pv), NEW e, NEW f
  PROVE  /\ TypedStack(<<d>> \o rest, pv)
         /\ Typed(e) /\ Waits(e) => TypedStack(<<d, e>> \o rest, pv)
         /\ Typed(e) /\ Waits(e) /\ Typed(f) /\ Waits(f)
              => TypedStack(<<d, e, f>> \o rest, pv)
<1>1. PICK S : rest \in Seq(S)  BY DEF TypedRest
<1>2. \A r : TypedRest(r) => TypedStack(<<d>> \o r, pv)  BY DEF TypedStack
<1>3. Typed(e) /\ Waits(e) => TypedRest(<<e>> \o rest)  BY RestPush
<1>4. Typed(f) /\ Waits(f) => TypedRest(<<f>> \o rest)  BY RestPush
<1>5. Typed(e) /\ Waits(e) /\ Typed(f) /\ Waits(f) => TypedRest(<<e>> \o (<<f>> \o rest))
  BY <1>4, RestPush
<1>6. /\ <<d>> \o (<<e>> \o rest) = <<d, e>> \o rest
      /\ <<d>> \o (<<e>> \o (<<f>> \o rest)) = <<d, e, f>> \o rest
  BY <1>1, Regrouped
<1>. QED  BY <1>2, <1>3, <1>5, <1>6, Zenon

-----------------------------------------------------------------------------
(* The types are kept. *)

(* Reading or not, the token looked at stays the last one read.            *)
LEMMA LexerStep ==
  ASSUME TInv, alphabet' = alphabet, Advance \/ Skip
  PROVE  Reading(alphabet, current, read)' /\ previous' \in DOMAIN alphabet'.most \cup {"EOF"}
<1>1. CASE Advance
  <2>1. Reading(alphabet, current, read) /\ current \in DOMAIN alphabet.most \cup {"EOF"}
    BY DEF TInv, Reading, Reads
  <2>. QED  BY <1>1, <2>1, AdvanceReads
<1>2. CASE Skip  BY <1>2 DEF TInv, Skip
<1>. QED  BY <1>1, <1>2

(* The call on top and those below it are of their types.                  *)
LEMMA TopTyped ==
  ASSUME TInv, todo # <<>>
  PROVE  /\ Typed(Top) /\ Fits(Top, previous) /\ TypedRest(Tail(todo))
         /\ TypedStack(Tail(todo), previous')
         /\ Tail(todo) = <<>> \o Tail(todo)
<1>1. Typed(Top) /\ Fits(Top, previous) /\ TypedRest(Tail(todo))
  BY StackTop DEF TInv, Top
<1>2. PICK S : Tail(todo) \in Seq(S)  BY <1>1 DEF TypedRest
<1>. QED  BY <1>1, <1>2, RestStack

(* Most calls leave the code alone and put others in their place.          *)
LEMMA Continues ==
  ASSUME TInv, Goes, code' \in Seq(Bytes), Advance \/ Skip, TypedStack(todo, previous)'
  PROVE  TInv'
<1>1. alphabet' = alphabet /\ status' = status  BY DEF Goes
<1>. QED  BY <1>1, LexerStep DEF TInv

(* An error keeps the types.                                               *)
LEMMA Stops == ASSUME TInv, Error  PROVE TInv'
BY DEF TInv, Error

(* The calls that functions of the parser leave behind.                    *)
LEMMA ExprTyped ==
  /\ Typed(Expr) /\ Waits(Expr)
  /\ \A t : Typed(Consume(t)) /\ Waits(Consume(t))
  /\ \A bytes \in Seq(Bytes) : Typed(Emit(bytes)) /\ Waits(Emit(bytes))
  /\ \A what \in {"stmt", "return", "scope", "block", "if", "for", "for_condition", "script"} :
       Typed(Do(what)) /\ Waits(Do(what))
<1>1. Typed(Expr) /\ Waits(Expr)
  BY DEF Typed, Waits, Expr, Prec, Level, Places
<1>2. \A t : Typed(Consume(t)) /\ Waits(Consume(t))
  BY DEF Typed, Waits, Consume, Places
<1>3. \A bytes \in Seq(Bytes) : Typed(Emit(bytes)) /\ Waits(Emit(bytes))
  BY DEF Typed, Waits, Emit, Places
<1>4. \A what \in {"stmt", "return", "scope", "block", "if", "for", "for_condition", "script"} :
        Typed(Do(what)) /\ Waits(Do(what))
  BY DEF Typed, Waits, Do, Places
<1>. QED  BY <1>1, <1>2, <1>3, <1>4

(* A call that waits fits whatever token was read.                         *)
LEMMA WaitsFits == ASSUME NEW e, Waits(e), NEW pv  PROVE Fits(e, pv)
BY DEF Waits, Fits

(* Calls that wait, whatever has been read. *)
LEMMA Calls ==
  ASSUME TInv, todo # <<>>,
         NEW d, Typed(d), Waits(d), NEW e, NEW f, NEW pv
  PROVE  /\ TypedStack(<<>> \o Tail(todo), pv)
         /\ TypedStack(<<d>> \o Tail(todo), pv)
         /\ Typed(e) /\ Waits(e) => TypedStack(<<d, e>> \o Tail(todo), pv)
         /\ Typed(e) /\ Waits(e) /\ Typed(f) /\ Waits(f)
              => TypedStack(<<d, e, f>> \o Tail(todo), pv)
<1>1. TypedRest(Tail(todo)) /\ Tail(todo) = <<>> \o Tail(todo)  BY TopTyped
<1>2. Fits(d, pv)  BY WaitsFits
<1>3. TypedStack(Tail(todo), pv)  BY <1>1, RestStack
<1>. QED  BY <1>1, <1>2, <1>3, StackPush

(* The rules of the expressions keep the types.                            *)
LEMMA ExpressionTyped == ASSUME TInv, ExpressionStep  PROVE TInv'
<1>0. code \in Seq(Bytes) /\ status \in {"parsing", "done", "error", "undefined"}  BY DEF TInv
<1>1. CASE PrecPrefix
  <2>1. todo # <<>> /\ Top.do = "prec"  BY <1>1 DEF PrecPrefix, At
  <2>2. CASE Prefix(current) = "NULL"  BY <1>1, <2>2, Stops DEF PrecPrefix
  <2>3. CASE Prefix(current) # "NULL"
    <3>. DEFINE d == [do |-> Prefix(current), assigns |-> (Top.level <= Level.ASSIGNMENT)]
                e == [do |-> "infix", level |-> Top.level,
                      assigns |-> (Top.level <= Level.ASSIGNMENT)]
    <3>1. /\ Advance /\ UNCHANGED code /\ Goes
          /\ todo' = <<d, e>> \o Tail(todo)
      BY <1>1, <2>3 DEF PrecPrefix, Then
    <3>2. previous' = current  BY <3>1 DEF Advance
    <3>3. Typed(d) /\ Fits(d, current)
      <4>1. Prefix(current) \in {"unary", "name", "literal", "grouping"}
        BY <2>3 DEF Prefix
      <4>2. /\ Prefix(current) = "unary" => current \in UnaryTokens
            /\ Prefix(current) = "name" => current \in Names
            /\ Prefix(current) = "literal" => current \in Literals \cup {"void"}
        BY DEF Prefix, UnaryTokens
      <4>. QED  BY <4>1, <4>2 DEF Typed, Fits, Places
    <3>4. Typed(e) /\ Waits(e)
      <4>1. Top.level \in 1 .. 9  BY <2>1, TopTyped DEF Typed
      <4>. QED  BY <4>1 DEF Typed, Waits, Places
    <3>. HIDE DEF d, e
    <3>5. TypedStack(<<d, e>> \o Tail(todo), previous')
      BY <2>1, <3>2, <3>3, <3>4, TopTyped, StackPush
    <3>. QED  BY <1>0, <3>1, <3>5, Continues
  <2>. QED  BY <2>2, <2>3
<1>2. CASE PrecInfix
  <2>1. todo # <<>> /\ Top.do = "infix"  BY <1>2 DEF PrecInfix, At
  <2>2. Typed(Top) /\ Waits(Top) /\ Top.level \in 1 .. 9
    BY <2>1, TopTyped DEF Typed, Waits
  <2>3. CASE Top.level <= Precedence(current)
    <3>. DEFINE d == [do |-> Infix(current)]
    <3>1. /\ Advance /\ todo' = <<d, Top>> \o Tail(todo) /\ UNCHANGED <<code, alphabet>>
          /\ status' = IF Infix(current) = "NULL" THEN "undefined" ELSE status
      BY <1>2, <2>3 DEF PrecInfix, Then
    <3>2. previous' = current  BY <3>1 DEF Advance
    <3>3. Typed(d) /\ Fits(d, current)
      <4>1. Infix(current) \in {"postfix", "call", "NULL", "binary"}  BY DEF Infix
      <4>2. Precedence(current) >= 1  BY <2>2, <2>3, Precedences
      <4>3. Infix(current) = "binary" => current \in BinaryTokens  BY <4>2, Precedences
      <4>. QED  BY <4>1, <4>3 DEF Typed, Fits, Places
    <3>. HIDE DEF d
    <3>4. TypedStack(<<d, Top>> \o Tail(todo), previous')
      BY <2>1, <2>2, <3>2, <3>3, TopTyped, StackPush
    <3>5. Reading(alphabet, current, read)' /\ previous' \in DOMAIN alphabet'.most \cup {"EOF"}
      BY <3>1, LexerStep
    <3>. QED  BY <1>0, <3>1, <3>4, <3>5 DEF TInv
  <2>4. CASE ~ (Top.level <= Precedence(current)) /\ Top.assigns /\ current = "="
    BY <1>2, <2>4, Stops DEF PrecInfix
  <2>5. CASE ~ (Top.level <= Precedence(current)) /\ ~ (Top.assigns /\ current = "=")
    <3>1. Then(<<>>) /\ Skip /\ UNCHANGED code /\ Goes  BY <1>2, <2>5 DEF PrecInfix
    <3>2. TypedStack(todo, previous)'  BY <2>1, <3>1, TopTyped DEF Then
    <3>. QED  BY <1>0, <3>1, <3>2, Continues
  <2>. QED  BY <2>3, <2>4, <2>5
<1>3. CASE Name
  <2>1. todo # <<>> /\ Top.do = "name"  BY <1>3 DEF Name, At
  <2>2. Index[previous] \in Nat  BY <2>1, TopTyped, IndexOf DEF Fits
  <2>3. /\ OperandCode("SETGLOBAL", Index[previous]) \in Seq(Bytes)
        /\ OperandCode("LOADGLOBAL", Index[previous]) \in Seq(Bytes)
    BY <2>2, OperandBytes
  <2>4. CASE Top.assigns /\ current = "="
    <3>. DEFINE e == Emit(OperandCode("SETGLOBAL", Index[previous]))
    <3>1. Typed(e) /\ Waits(e)  BY <2>3, ExprTyped
    <3>2. Advance /\ todo' = <<Expr, e>> \o Tail(todo) /\ UNCHANGED code /\ Goes
      BY <1>3, <2>4 DEF Name, Then
    <3>. HIDE DEF e
    <3>3. TypedStack(todo, previous)'  BY <2>1, <3>1, <3>2, ExprTyped, Calls
    <3>. QED  BY <1>0, <3>2, <3>3, Continues
  <2>5. CASE ~ (Top.assigns /\ current = "=")
    <3>. DEFINE e == Emit(OperandCode("LOADGLOBAL", Index[previous]))
    <3>1. Typed(e) /\ Waits(e)  BY <2>3, ExprTyped
    <3>2. Skip /\ todo' = <<e>> \o Tail(todo) /\ UNCHANGED code /\ Goes
      BY <1>3, <2>5 DEF Name, Then
    <3>. HIDE DEF e
    <3>3. TypedStack(todo, previous)'  BY <2>1, <3>1, <3>2, Calls
    <3>. QED  BY <1>0, <3>2, <3>3, Continues
  <2>. QED  BY <2>4, <2>5
<1>4. CASE Literal
  <2>1. todo # <<>> /\ Top.do = "literal"  BY <1>4 DEF Literal, At
  <2>2. CASE previous = "void"  BY <1>4, <2>2, Stops DEF Literal
  <2>3. CASE previous # "void"
    <3>. DEFINE e == Emit(ConstantCode(Index[previous]))
    <3>1. Typed(e) /\ Waits(e)
      <4>1. Index[previous] \in Nat  BY <2>1, TopTyped, IndexOf DEF Fits
      <4>. QED  BY <4>1, ConstantBytes, ExprTyped
    <3>2. Skip /\ todo' = <<e>> \o Tail(todo) /\ UNCHANGED code /\ Goes
      BY <1>4, <2>3 DEF Literal, Then
    <3>. HIDE DEF e
    <3>3. TypedStack(todo, previous)'  BY <2>1, <3>1, <3>2, Calls
    <3>. QED  BY <1>0, <3>2, <3>3, Continues
  <2>. QED  BY <2>2, <2>3
<1>5. CASE Grouping
  <2>1. todo # <<>> /\ todo' = <<Expr, Consume(")")>> \o Tail(todo) /\ Skip /\ UNCHANGED code /\ Goes
    BY <1>5 DEF Grouping, At, Then
  <2>2. TypedStack(todo, previous)'  BY <2>1, ExprTyped, Calls
  <2>. QED  BY <1>0, <2>1, <2>2, Continues
<1>6. CASE Binary
  <2>. DEFINE d == Prec(Precedence(previous) + 1)
              e == Emit(BinaryBytes(previous))
  <2>1. /\ todo # <<>> /\ Top.do = "binary"
        /\ todo' = <<d, e>> \o Tail(todo) /\ Skip /\ UNCHANGED code /\ Goes
    BY <1>6 DEF Binary, At, Then
  <2>2. previous \in BinaryTokens  BY <2>1, TopTyped DEF Fits
  <2>3. Typed(e) /\ Waits(e)  BY <2>2, BinarysBytes, ExprTyped
  <2>4. Typed(d) /\ Waits(d)
    <3>1. Precedence(previous) + 1 \in 1 .. 9  BY <2>2, Precedences
    <3>. QED  BY <3>1 DEF Typed, Waits, Places, Prec
  <2>. HIDE DEF d, e
  <2>5. TypedStack(todo, previous)'  BY <2>1, <2>3, <2>4, Calls
  <2>. QED  BY <1>0, <2>1, <2>5, Continues
<1>7. CASE Unary
  <2>. DEFINE d == Prec(Precedence(previous) + 1)
              e == Emit(UnaryBytes(previous))
  <2>1. /\ todo # <<>> /\ Top.do = "unary"
        /\ todo' = <<d, e>> \o Tail(todo) /\ Skip /\ UNCHANGED code /\ Goes
    BY <1>7 DEF Unary, At, Then
  <2>2. previous \in UnaryTokens  BY <2>1, TopTyped DEF Fits
  <2>3. Typed(e) /\ Waits(e)  BY StepsBytes, ExprTyped
  <2>4. Typed(d) /\ Waits(d)
    <3>1. Precedence(previous) + 1 \in 1 .. 9  BY <2>2, Precedences
    <3>. QED  BY <3>1 DEF Typed, Waits, Places, Prec
  <2>. HIDE DEF d, e
  <2>5. TypedStack(todo, previous)'  BY <2>1, <2>3, <2>4, Calls
  <2>. QED  BY <1>0, <2>1, <2>5, Continues
<1>8. CASE Postfix
  <2>. DEFINE e == Emit(StepBytes(previous))
  <2>1. /\ todo # <<>> /\ todo' = <<e>> \o Tail(todo) /\ Skip /\ UNCHANGED code /\ Goes
    BY <1>8 DEF Postfix, At, Then
  <2>2. Typed(e) /\ Waits(e)  BY StepsBytes, ExprTyped
  <2>. HIDE DEF e
  <2>3. TypedStack(todo, previous)'  BY <2>1, <2>2, Calls
  <2>. QED  BY <1>0, <2>1, <2>3, Continues
<1>9. CASE Call
  <2>. DEFINE e == Emit(<<Opcode("CALL"), 0>>)
              f == [do |-> "argument", count |-> 0]
  <2>1. todo # <<>> /\ UNCHANGED code /\ Goes  BY <1>9 DEF Call, At
  <2>2. \/ Advance /\ todo' = <<e>> \o Tail(todo)
        \/ todo' = <<Expr, f>> \o Tail(todo) /\ Skip
    BY <1>9 DEF Call, Then
  <2>3. Typed(e) /\ Waits(e)
    <3>1. Opcode("CALL") \in Bytes /\ 0 \in Bytes
      BY OpcodeByte, ByteRange DEF EmittedOps, Bytes
    <3>2. <<Opcode("CALL"), 0>> \in Seq(Bytes)  BY <3>1
    <3>. QED  BY <3>2, ExprTyped
  <2>4. Typed(f) /\ Waits(f)
    <3>1. 0 \in 0 .. MAX_ARGUMENTS  BY ParserAssumption, ByteRange DEF Bytes
    <3>. QED  BY <3>1 DEF Typed, Waits, Places
  <2>. HIDE DEF e, f
  <2>5. TypedStack(todo, previous)'  BY <2>1, <2>2, <2>3, <2>4, ExprTyped, Calls
  <2>. QED  BY <1>0, <2>1, <2>2, <2>5, Continues
<1>10. CASE Argument
  <2>1. todo # <<>> /\ Top.do = "argument"  BY <1>10 DEF Argument, At
  <2>2. CASE Top.count = MAX_ARGUMENTS \/ current \notin {")", "COMMA"}
    BY <1>10, <2>2, Stops DEF Argument
  <2>3. CASE ~ (Top.count = MAX_ARGUMENTS \/ current \notin {")", "COMMA"})
    <3>. DEFINE n == Top.count + 1
                e == Emit(<<Opcode("CALL"), n>>)
                f == [do |-> "argument", count |-> n]
    <3>1. Advance /\ UNCHANGED code /\ Goes  BY <1>10, <2>3 DEF Argument
    <3>2. \/ todo' = <<e>> \o Tail(todo)
          \/ todo' = <<Expr, f>> \o Tail(todo)
      BY <1>10, <2>3 DEF Argument, Then
    <3>3. n \in 0 .. MAX_ARGUMENTS
      <4>1. Top.count \in 0 .. MAX_ARGUMENTS /\ MAX_ARGUMENTS \in Int
        BY <2>1, TopTyped, ParserAssumption, ByteRange DEF Typed, Bytes
      <4>2. Top.count # MAX_ARGUMENTS  BY <2>3
      <4>. QED  BY <4>1, <4>2
    <3>4. n \in Bytes  BY <3>3, ParserAssumption, ByteRange DEF Bytes
    <3>. HIDE DEF n
    <3>5. Typed(e) /\ Waits(e)
      <4>1. Opcode("CALL") \in Bytes  BY OpcodeByte DEF EmittedOps
      <4>2. <<Opcode("CALL"), n>> \in Seq(Bytes)  BY <3>4, <4>1
      <4>. QED  BY <4>2, ExprTyped
    <3>6. Typed(f) /\ Waits(f)  BY <3>3 DEF Typed, Waits, Places
    <3>. HIDE DEF e, f
    <3>7. TypedStack(todo, previous)'  BY <2>1, <3>2, <3>5, <3>6, ExprTyped, Calls
    <3>. QED  BY <1>0, <3>1, <3>7, Continues
  <2>. QED  BY <2>2, <2>3
<1>11. CASE EmitBytes
  <2>1. /\ todo # <<>> /\ Top.do = "emit" /\ code' = code \o Top.bytes
        /\ todo' = <<>> \o Tail(todo) /\ Skip /\ Goes
    BY <1>11 DEF EmitBytes, At, Then
  <2>2. Top.bytes \in Seq(Bytes)  BY <2>1, TopTyped DEF Typed
  <2>3. code' \in Seq(Bytes)  BY <1>0, <2>1, <2>2, SegBehind
  <2>4. TypedStack(todo, previous)'  BY <2>1, TopTyped
  <2>. QED  BY <2>1, <2>3, <2>4, Continues
<1>12. CASE ConsumeToken
  <2>1. todo # <<>>  BY <1>12 DEF ConsumeToken, At
  <2>2. CASE current # Top.token  BY <1>12, <2>2, Stops DEF ConsumeToken
  <2>3. CASE current = Top.token
    <3>1. Advance /\ todo' = <<>> \o Tail(todo) /\ UNCHANGED code /\ Goes
      BY <1>12, <2>3 DEF ConsumeToken, Then
    <3>2. TypedStack(todo, previous)'  BY <2>1, <3>1, TopTyped
    <3>. QED  BY <1>0, <3>1, <3>2, Continues
  <2>. QED  BY <2>2, <2>3
<1>. QED
  BY <1>1, <1>2, <1>3, <1>4, <1>5, <1>6, <1>7, <1>8, <1>9, <1>10, <1>11, <1>12
  DEF ExpressionStep

(* The statements, and the script, keep the types.                         *)
LEMMA StatementTyped == ASSUME TInv, StatementStep \/ Script  PROVE TInv'
<1>0. code \in Seq(Bytes) /\ status \in {"parsing", "done", "error", "undefined"} /\ Len(code) \in Nat
  BY DEF TInv
<1>. DEFINE Op == <<Opcode(IF REPL THEN "PRINT" ELSE "POP")>>
<1>a. /\ Typed(Emit(Op)) /\ Waits(Emit(Op))
      /\ \A op \in {"PRINT", "RETURN"} :
           Typed(Emit(<<Opcode(op)>>)) /\ Waits(Emit(<<Opcode(op)>>))
  <2>1. \A op \in {"PRINT", "RETURN", "POP"} : <<Opcode(op)>> \in Seq(Bytes)
    BY OneByte DEF EmittedOps
  <2>2. (IF REPL THEN "PRINT" ELSE "POP") \in {"PRINT", "RETURN", "POP"}  OBVIOUS
  <2>3. Op \in Seq(Bytes)  BY <2>1, <2>2
  <2>. HIDE DEF Op
  <2>. QED  BY <2>1, <2>3, ExprTyped
<1>b. ExprStat = <<Expr, Emit(Op)>>  BY DEF ExprStat
<1>. HIDE DEF Op
<1>1. CASE Stmt
  <2>. DEFINE w == [do |-> "while", start |-> Len(code)]
  <2>1. todo # <<>> /\ UNCHANGED code /\ Goes  BY <1>1 DEF Stmt, At
  <2>2. \/ Advance /\ todo' = <<>> \o Tail(todo)
        \/ Advance /\ todo' = <<Do("return")>> \o Tail(todo)
        \/ Advance /\ todo' = <<Expr, Emit(<<Opcode("PRINT")>>)>> \o Tail(todo)
        \/ Advance /\ todo' = <<Expr, w>> \o Tail(todo)
        \/ Advance /\ todo' = <<Do("for")>> \o Tail(todo)
        \/ Advance /\ todo' = <<Expr, Do("if")>> \o Tail(todo)
        \/ Skip /\ todo' = <<Do("scope")>> \o Tail(todo)
        \/ Skip /\ todo' = <<Expr, Emit(Op)>> \o Tail(todo)
    BY <1>1, <1>b DEF Stmt, Then
  <2>3. Typed(w) /\ Waits(w)  BY <1>0 DEF Typed, Waits, Places
  <2>. HIDE DEF w
  <2>4. TypedStack(todo, previous)'
    BY <1>a, <2>1, <2>2, <2>3, ExprTyped, Calls
  <2>. QED  BY <1>0, <2>1, <2>2, <2>4, Continues
<1>2. CASE Return
  <2>. DEFINE v == Emit(ConstantCode(Index["void"]))
  <2>1. todo # <<>> /\ UNCHANGED code /\ Goes  BY <1>2 DEF Return, At
  <2>2. \/ Advance /\ todo' = <<v, Emit(<<Opcode("RETURN")>>)>> \o Tail(todo)
        \/ Skip /\ todo' = <<Expr, Emit(<<Opcode("RETURN")>>)>> \o Tail(todo)
    BY <1>2 DEF Return, Then
  <2>3. Typed(v) /\ Waits(v)  BY IndexOf, ConstantBytes, ExprTyped
  <2>. HIDE DEF v
  <2>4. TypedStack(todo, previous)'
    BY <1>a, <2>1, <2>2, <2>3, ExprTyped, Calls
  <2>. QED  BY <1>0, <2>1, <2>2, <2>4, Continues
<1>3. CASE Scope
  <2>1. /\ todo # <<>> /\ UNCHANGED code /\ Goes /\ Advance
        /\ todo' = <<Do("block")>> \o Tail(todo)
    BY <1>3 DEF Scope, At, Then
  <2>2. TypedStack(todo, previous)'  BY <2>1, ExprTyped, Calls
  <2>. QED  BY <1>0, <2>1, <2>2, Continues
<1>4. CASE Block
  <2>1. /\ todo # <<>> /\ UNCHANGED code /\ Goes /\ Skip
        /\ \/ todo' = <<Consume("RBRACE")>> \o Tail(todo)
           \/ todo' = <<Do("stmt"), Do("block")>> \o Tail(todo)
    BY <1>4 DEF Block, At, Then
  <2>2. TypedStack(todo, previous)'  BY <2>1, ExprTyped, Calls
  <2>. QED  BY <1>0, <2>1, <2>2, Continues
<1>5. CASE WhileBody
  <2>. DEFINE w == [do |-> "loop", start |-> Top.start, hole |-> Hole]
  <2>1. /\ todo # <<>> /\ Top.do = "while" /\ code' = WithJump("JMPF") /\ Goes /\ Skip
        /\ todo' = <<Do("stmt"), w>> \o Tail(todo)
    BY <1>5 DEF WhileBody, At, Then
  <2>2. WithJump("JMPF") \in Seq(Bytes) /\ Hole \in Nat  BY <1>0, WithJumpBytes
  <2>3. Typed(w) /\ Waits(w)
    <3>1. Top.start \in Nat  BY <2>1, TopTyped DEF Typed
    <3>. QED  BY <2>2, <3>1 DEF Typed, Waits, Places
  <2>. HIDE DEF w
  <2>4. TypedStack(todo, previous)'  BY <2>1, <2>3, ExprTyped, Calls
  <2>. QED  BY <2>1, <2>2, <2>4, Continues
<1>6. CASE WhileEnd
  <2>1. /\ todo # <<>> /\ Top.do = "loop" /\ code' = Patched(WithLoop(Top.start), Top.hole)
        /\ Goes /\ Skip /\ todo' = <<>> \o Tail(todo)
    BY <1>6 DEF WhileEnd, At, Then
  <2>2. Top.start \in Nat /\ Top.hole \in Nat  BY <2>1, TopTyped DEF Typed
  <2>3. code' \in Seq(Bytes)  BY <1>0, <2>1, <2>2, LoopBytes, PatchedBytes
  <2>4. TypedStack(todo, previous)'  BY <2>1, TopTyped
  <2>. QED  BY <2>1, <2>3, <2>4, Continues
<1>7. CASE IfThen
  <2>. DEFINE w == [do |-> "else", hole |-> Hole]
  <2>1. /\ todo # <<>> /\ code' = WithJump("JMPF") /\ Goes /\ Skip
        /\ todo' = <<Do("stmt"), w>> \o Tail(todo)
    BY <1>7 DEF IfThen, At, Then
  <2>2. WithJump("JMPF") \in Seq(Bytes) /\ Hole \in Nat  BY <1>0, WithJumpBytes
  <2>3. Typed(w) /\ Waits(w)  BY <2>2 DEF Typed, Waits, Places
  <2>. HIDE DEF w
  <2>4. TypedStack(todo, previous)'  BY <2>1, <2>3, ExprTyped, Calls
  <2>. QED  BY <2>1, <2>2, <2>4, Continues
<1>8. CASE IfElse
  <2>. DEFINE w == [do |-> "patch", hole |-> Hole]
  <2>1. /\ todo # <<>> /\ Top.do = "else" /\ code' = Patched(WithJump("JMP"), Top.hole) /\ Goes
        /\ \/ Advance /\ todo' = <<Do("stmt"), w>> \o Tail(todo)
           \/ Skip /\ todo' = <<w>> \o Tail(todo)
    BY <1>8 DEF IfElse, At, Then
  <2>2. WithJump("JMP") \in Seq(Bytes) /\ Hole \in Nat  BY <1>0, WithJumpBytes
  <2>3. code' \in Seq(Bytes)
    <3>1. Top.hole \in Nat  BY <2>1, TopTyped DEF Typed
    <3>. QED  BY <2>1, <2>2, <3>1, PatchedBytes
  <2>4. Typed(w) /\ Waits(w)  BY <2>2 DEF Typed, Waits, Places
  <2>. HIDE DEF w
  <2>5. TypedStack(todo, previous)'  BY <2>1, <2>4, ExprTyped, Calls
  <2>. QED  BY <2>1, <2>3, <2>5, Continues
<1>9. CASE PatchJump
  <2>1. /\ todo # <<>> /\ Top.do = "patch" /\ code' = Patched(code, Top.hole)
        /\ Goes /\ Skip /\ todo' = <<>> \o Tail(todo)
    BY <1>9 DEF PatchJump, At, Then
  <2>2. Top.hole \in Nat  BY <2>1, TopTyped DEF Typed
  <2>3. code' \in Seq(Bytes)  BY <1>0, <2>1, <2>2, PatchedBytes
  <2>4. TypedStack(todo, previous)'  BY <2>1, TopTyped
  <2>. QED  BY <2>1, <2>3, <2>4, Continues
<1>10. CASE ForInit
  <2>1. /\ todo # <<>> /\ UNCHANGED code /\ Goes
        /\ \/ Advance /\ todo' = <<Do("for_condition")>> \o Tail(todo)
           \/ Skip /\ todo' = <<Do("stmt"), Consume("SEMICOLON"), Do("for_condition")>> \o Tail(todo)
    BY <1>10 DEF ForInit, At, Then
  <2>2. TypedStack(todo, previous)'  BY <2>1, ExprTyped, Calls
  <2>. QED  BY <1>0, <2>1, <2>2, Continues
<1>11. CASE ForCondition
  <2>. DEFINE w == [do |-> "for_step", start |-> Len(code), exit |-> {}]
              x == [do |-> "for_exit", start |-> Len(code)]
  <2>1. /\ todo # <<>> /\ UNCHANGED code /\ Goes
        /\ \/ Advance /\ todo' = <<w>> \o Tail(todo)
           \/ Skip /\ todo' = <<Expr, Consume("SEMICOLON"), x>> \o Tail(todo)
    BY <1>11 DEF ForCondition, At, Then
  <2>2. Typed(w) /\ Waits(w)  BY <1>0 DEF Typed, Waits, Places
  <2>3. Typed(x) /\ Waits(x)  BY <1>0 DEF Typed, Waits, Places
  <2>. HIDE DEF w, x
  <2>4. TypedStack(todo, previous)'  BY <2>1, <2>2, <2>3, ExprTyped, Calls
  <2>. QED  BY <1>0, <2>1, <2>4, Continues
<1>12. CASE ForExit
  <2>. DEFINE w == [do |-> "for_step", start |-> Top.start, exit |-> {Hole}]
  <2>1. /\ todo # <<>> /\ Top.do = "for_exit" /\ code' = WithJump("JMPF") /\ Goes /\ Skip
        /\ todo' = <<w>> \o Tail(todo)
    BY <1>12 DEF ForExit, At, Then
  <2>2. WithJump("JMPF") \in Seq(Bytes) /\ Hole \in Nat  BY <1>0, WithJumpBytes
  <2>3. Typed(w) /\ Waits(w)
    <3>1. Top.start \in Nat  BY <2>1, TopTyped DEF Typed
    <3>. QED  BY <2>2, <3>1 DEF Typed, Waits, Places
  <2>. HIDE DEF w
  <2>4. TypedStack(todo, previous)'  BY <2>1, <2>3, Calls
  <2>. QED  BY <2>1, <2>2, <2>4, Continues
<1>13. CASE ForStep
  <2>. DEFINE w == [do |-> "for_body", start |-> Top.start, exit |-> Top.exit,
                    hole |-> Hole, step |-> Len(code')]
  <2>1. /\ todo # <<>> /\ Top.do = "for_step" /\ code' = WithJump("JMP") /\ Goes /\ Skip
        /\ todo' = (IF current = "LBRACE" THEN <<>> ELSE ExprStat) \o <<w>> \o Tail(todo)
    BY <1>13 DEF ForStep, At, Then
  <2>2. WithJump("JMP") \in Seq(Bytes) /\ Hole \in Nat  BY <1>0, WithJumpBytes
  <2>3. Typed(w) /\ Waits(w)
    <3>1. Top.start \in Nat /\ Top.exit \subseteq Nat  BY <2>1, TopTyped DEF Typed
    <3>2. Len(code') = Len(code) + 3  BY <1>0, <2>1, WithJumpBytes
    <3>3. Len(code') \in Nat  BY <1>0, <3>2
    <3>. QED  BY <2>2, <3>1, <3>3 DEF Typed, Waits, Places
  <2>. HIDE DEF w
  <2>4. \/ todo' = <<w>> \o Tail(todo)
        \/ todo' = <<Expr, Emit(Op), w>> \o Tail(todo)
    <3>1. <<Expr, Emit(Op)>> \o <<w>> = <<Expr, Emit(Op), w>>
      BY Triple
    <3>2. <<>> \o <<w>> = <<w>>  OBVIOUS
    <3>. QED  BY <1>b, <2>1, <3>1, <3>2
  <2>5. TypedStack(todo, previous)'  BY <1>a, <2>1, <2>3, <2>4, ExprTyped, Calls
  <2>. QED  BY <2>1, <2>2, <2>5, Continues
<1>14. CASE ForBody
  <2>. DEFINE w == [do |-> "for_end", step |-> Top.step, exit |-> Top.exit]
  <2>1. /\ todo # <<>> /\ Top.do = "for_body" /\ code' = Patched(WithLoop(Top.start), Top.hole)
        /\ Goes /\ Skip /\ todo' = <<Do("scope"), w>> \o Tail(todo)
    BY <1>14 DEF ForBody, At, Then
  <2>2. Top.start \in Nat /\ Top.hole \in Nat /\ Top.step \in Nat /\ Top.exit \subseteq Nat
    BY <2>1, TopTyped DEF Typed
  <2>3. code' \in Seq(Bytes)  BY <1>0, <2>1, <2>2, LoopBytes, PatchedBytes
  <2>4. Typed(w) /\ Waits(w)  BY <2>2 DEF Typed, Waits, Places
  <2>. HIDE DEF w
  <2>5. TypedStack(todo, previous)'  BY <2>1, <2>4, ExprTyped, Calls
  <2>. QED  BY <2>1, <2>3, <2>5, Continues
<1>15. CASE ForEnd
  <2>1. /\ todo # <<>> /\ Top.do = "for_end" /\ Goes /\ Skip /\ todo' = <<>> \o Tail(todo)
        /\ code' = IF Top.exit = {} THEN WithLoop(Top.step)
                   ELSE Patched(WithLoop(Top.step), CHOOSE hole \in Top.exit : TRUE)
    BY <1>15 DEF ForEnd, At, Then
  <2>2. Top.step \in Nat /\ Top.exit \subseteq Nat  BY <2>1, TopTyped DEF Typed
  <2>3. WithLoop(Top.step) \in Seq(Bytes)  BY <1>0, <2>2, LoopBytes
  <2>4. Top.exit # {} => (CHOOSE hole \in Top.exit : TRUE) \in Nat  BY <2>2
  <2>5. code' \in Seq(Bytes)  BY <2>1, <2>3, <2>4, PatchedBytes
  <2>6. TypedStack(todo, previous)'  BY <2>1, TopTyped
  <2>. QED  BY <2>1, <2>5, <2>6, Continues
<1>16. CASE Script
  <2>1. todo # <<>> /\ Skip  BY <1>16 DEF Script, At
  <2>2. CASE current = "EOF"
    <3>1. /\ code' = Append(code, Opcode("HALT")) /\ status' = "done" /\ todo' = <<>>
          /\ alphabet' = alphabet
      BY <1>16, <2>2 DEF Script
    <3>2. Opcode("HALT") \in Bytes  BY OpcodeByte DEF EmittedOps
    <3>3. code' \in Seq(Bytes)  BY <1>0, <3>1, <3>2
    <3>4. TypedStack(todo, previous)'  BY <3>1 DEF TypedStack
    <3>. QED  BY <2>1, <3>1, <3>3, <3>4, LexerStep DEF TInv
  <2>3. CASE current # "EOF"
    <3>1. todo' = <<Do("stmt"), Do("script")>> \o Tail(todo) /\ UNCHANGED code /\ Goes
      BY <1>16, <2>3 DEF Script, Then
    <3>2. TypedStack(todo, previous)'  BY <2>1, <3>1, ExprTyped, Calls
    <3>. QED  BY <1>0, <2>1, <3>1, <3>2, Continues
  <2>. QED  BY <2>2, <2>3
<1>. QED
  BY <1>1, <1>2, <1>3, <1>4, <1>5, <1>6, <1>7, <1>8, <1>9, <1>10, <1>11, <1>12,
     <1>13, <1>14, <1>15, <1>16
  DEF StatementStep

(* The parser starts with the types.                                       *)
LEMMA InitTyped == ASSUME Init  PROVE TInv
<1>1. /\ alphabet \in Alphabets /\ previous = "EOF" /\ todo = <<Do("script")>> /\ code = <<>>
      /\ status = "parsing" /\ read = <<current>>
      /\ current \in DOMAIN alphabet.most \cup {"EOF"}
  BY DEF Init
<1>2. alphabet.length \in Nat \ {0} /\ alphabet.most \in [DOMAIN alphabet.most -> Nat \ {0}]
  BY <1>1, ParserAssumption
<1>3. Len(read) = 1 /\ read[1] = current /\ DOMAIN read = 1 .. 1 /\ read # <<>>
      /\ read \in Seq(DOMAIN alphabet.most \cup {"EOF"})
  BY <1>1
<1>4. ASSUME NEW t \in DOMAIN alphabet.most
      PROVE  Cardinality({i \in DOMAIN read : read[i] = t}) <= alphabet.most[t]
  <2>. DEFINE B == {i \in DOMAIN read : read[i] = t}
  <2>1. B = {} \/ B = {1}  BY <1>3
  <2>2. Cardinality(B) = 0 \/ Cardinality(B) = 1
    BY <2>1, FS_EmptySet, FS_Singleton
  <2>. HIDE DEF B
  <2>3. alphabet.most[t] \in Nat \ {0}  BY <1>2
  <2>. QED  BY <2>2, <2>3 DEF B
<1>5. Reads(alphabet, read)  BY <1>2, <1>3, <1>4 DEF Reads
<1>6. Reading(alphabet, current, read)  BY <1>1, <1>2, <1>3, <1>5 DEF Reading
<1>7. TypedStack(todo, previous)
  <2>1. TypedRest(<<>>)
    <3>. DEFINE S == {}
    <3>1. <<>> \in Seq(S) /\ \A e \in S : Typed(e) /\ Waits(e)  OBVIOUS
    <3>. HIDE DEF S
    <3>. QED  BY <3>1 DEF TypedRest
  <2>2. Typed(Do("script")) /\ Fits(Do("script"), previous)  BY ExprTyped, WaitsFits
  <2>3. todo = <<Do("script")>> \o <<>>  BY <1>1
  <2>. QED  BY <2>1, <2>2, <2>3 DEF TypedStack
<1>8. code \in Seq(Bytes)  BY <1>1
<1>. QED  BY <1>1, <1>6, <1>7, <1>8 DEF TInv

(* Every step keeps them.                                                  *)
LEMMA StepTyped == TInv /\ [Next]_vars => TInv'
<1>1. ASSUME TInv, Next  PROVE TInv'
  BY <1>1, ExpressionTyped, StatementTyped DEF Next
<1>2. ASSUME TInv, UNCHANGED vars  PROVE TInv'
  BY <1>2 DEF vars, TInv
<1>. QED  BY <1>1, <1>2

(* They are those of TypeOK.                                               *)
LEMMA TypedIsTypeOK == ASSUME TInv  PROVE TypeOK
<1>1. /\ alphabet \in Alphabets /\ read \in Seq(DOMAIN alphabet.most \cup {"EOF"})
      /\ current \in DOMAIN alphabet.most \cup {"EOF"}
  BY DEF TInv, Reading, Reads
<1>2. \A i \in DOMAIN todo : todo[i].do \in Places
  <2>1. CASE todo = <<>>  BY <2>1
  <2>2. CASE todo # <<>>
    <3>1. PICK e, rest : /\ todo = <<e>> \o rest /\ Typed(e) /\ TypedRest(rest)
      BY <2>2 DEF TInv, TypedStack
    <3>2. PICK S : rest \in Seq(S) /\ \A x \in S : Typed(x)  BY <3>1 DEF TypedRest
    <3>. DEFINE R == S \cup {e}
    <3>3. rest \in Seq(R) /\ <<e>> \in Seq(R) /\ \A x \in R : Typed(x)  BY <3>1, <3>2
    <3>. HIDE DEF R
    <3>4. todo \in Seq(R)  BY <3>1, <3>3
    <3>5. \A i \in DOMAIN todo : todo[i] \in R  BY <3>4
    <3>. QED  BY <3>3, <3>5 DEF Typed
  <2>. QED  BY <2>1, <2>2
<1>. QED  BY <1>1, <1>2 DEF TypeOK, TInv, Bytes

(* The parser keeps to its types: the calls on its C stack, the places of  *)
(* the jumps it has yet to patch, the tokens read and the bytes emitted    *)
(* are what its functions expect of each other (parser.c:535-731,          *)
(* 767-862).                                                               *)
THEOREM TypeCorrect == Spec => []TypeOK
<1>1. Spec => []TInv
  BY InitTyped, StepTyped, PTL DEF Spec
<1>2. TInv => TypeOK  BY TypedIsTypeOK
<1>. QED  BY <1>1, <1>2, PTL

-----------------------------------------------------------------------------
(* The call on top, e, with what it needs, i, and what it is to parse, o.  *)

Stage(a, rd, cd, pv, e, i, o, rest) ==
  /\ Context(a, rd, cd) /\ i \in Marks /\ o \in Marks
  /\ Holds(Language[a], rd, cd, pv, i)
  /\ Link(Language[a], rd, cd, e, i, o)
  /\ Under(Language[a], rd, cd, rest, o)

(* All that is known where a call is on top of a stack.                    *)
LEMMA StageIs ==
  ASSUME NEW a, NEW rd, NEW cd, NEW pv, NEW e, NEW i, NEW o, NEW rest,
         Stage(a, rd, cd, pv, e, i, o, rest), NEW n, n = Len(rd) - 1, NEW c, c = Len(cd)
  PROVE  /\ Context(a, rd, cd) /\ i \in Marks /\ o \in Marks
         /\ Holds(Language[a], rd, cd, pv, i)
         /\ Link(Language[a], rd, cd, e, i, o) /\ Linked(Language[a], rd, cd, e, i, o)
         /\ Under(Language[a], rd, cd, rest, o)
         /\ n \in Nat /\ c \in Nat /\ n < Len(rd) /\ n + 1 = Len(rd)
         /\ i.tok \in Nat /\ i.pos \in Nat /\ i.level \in 0 .. 9
         /\ o.tok \in Nat /\ o.pos \in Nat /\ o.level \in 0 .. 9
         /\ o.tok <= i.tok /\ o.pos <= i.pos /\ i.tok <= n /\ i.pos <= c
         /\ o.tok <= n /\ o.pos <= c
<1>1. /\ Context(a, rd, cd) /\ i \in Marks /\ o \in Marks
      /\ Holds(Language[a], rd, cd, pv, i)
      /\ Link(Language[a], rd, cd, e, i, o)
      /\ Under(Language[a], rd, cd, rest, o)
  BY DEF Stage
<1>2. Linked(Language[a], rd, cd, e, i, o) /\ o.tok <= i.tok /\ o.pos <= i.pos
  BY <1>1 DEF Link
<1>3. /\ n \in Nat /\ c \in Nat /\ n < Len(rd) /\ n + 1 = Len(rd)
      /\ i.tok \in Nat /\ i.pos \in Nat /\ i.level \in 0 .. 9
      /\ i.tok <= n /\ i.pos <= c
  BY <1>1, HoldsBehind
<1>4. o.tok \in Nat /\ o.pos \in Nat /\ o.level \in 0 .. 9  BY <1>1 DEF Marks
<1>5. o.tok <= n /\ o.pos <= c  BY <1>2, <1>3, <1>4
<1>. QED  BY <1>1, <1>2, <1>3, <1>4, <1>5

(* A mark of each kind, and the link between it and the mark below.        *)
LEMMA MarkOf ==
  ASSUME NEW kind \in Kinds, NEW tok \in Nat, NEW pos \in Nat, NEW level \in 0 .. 9
  PROVE  /\ Mark(kind, tok, pos, level) \in Marks
         /\ Mark(kind, tok, pos, level).kind = kind /\ Mark(kind, tok, pos, level).tok = tok
         /\ Mark(kind, tok, pos, level).pos = pos /\ Mark(kind, tok, pos, level).level = level
BY DEF Mark, Marks

(* One more token is read. *)
ReadOn(a, rd, cd, rd2) == Context(a, rd2, cd) /\ \E x : rd2 = Append(rd, x)

(* When a token is read the marks below stay.                              *)
LEMMA AfterRead ==
  ASSUME NEW a, NEW rd, NEW cd, NEW pv, NEW e, NEW i, NEW o, NEW rest,
         Stage(a, rd, cd, pv, e, i, o, rest), NEW n, n = Len(rd) - 1, NEW c, c = Len(cd),
         NEW rd2, ReadOn(a, rd, cd, rd2), NEW m, m = n + 1
  PROVE  /\ m = Len(rd2) - 1 /\ m \in Nat /\ m < Len(rd2) /\ m = Len(rd)
         /\ \A k \in 1 .. m : rd2[k] = rd[k]
         /\ Context(a, rd2, cd) /\ Later(rd, cd, rd2, cd, 0, c)
         /\ Link(Language[a], rd2, cd, e, i, o) /\ Under(Language[a], rd2, cd, rest, o)
<1>1. /\ Context(a, rd, cd) /\ i \in Marks /\ o \in Marks
      /\ Link(Language[a], rd, cd, e, i, o) /\ Under(Language[a], rd, cd, rest, o)
      /\ n \in Nat /\ c \in Nat /\ n < Len(rd) /\ n + 1 = Len(rd)
      /\ i.tok \in Nat /\ i.pos \in Nat /\ o.tok \in Nat /\ o.pos \in Nat
      /\ i.tok <= n /\ i.pos <= c /\ o.tok <= n /\ o.pos <= c
  BY StageIs
<1>2. Context(a, rd2, cd)  BY DEF ReadOn
<1>3. PICK x : rd2 = Append(rd, x)  BY DEF ReadOn
<1>4. PICK S : rd \in Seq(S)  BY <1>1 DEF Context, Reads
<1>. DEFINE R == S \cup {x}
<1>5. rd \in Seq(R) /\ x \in R  BY <1>4
<1>. HIDE DEF R
<1>6. /\ rd2 \in Seq(R) /\ Len(rd2) = Len(rd) + 1 /\ Len(rd) \in Nat
      /\ \A k \in 1 .. Len(rd) : rd2[k] = rd[k]
  BY <1>3, <1>5
<1>7. /\ m = Len(rd2) - 1 /\ m \in Nat /\ m < Len(rd2) /\ m = Len(rd)
  BY <1>1, <1>6
<1>8. cd \in Seq(Bytes)  BY <1>1 DEF Context
<1>9. Later(rd, cd, rd2, cd, 0, c)
  <2>1. Agree(rd2, rd, Len(rd))  BY <1>6 DEF Agree
  <2>2. Alike(cd, cd, 0, c)  BY DEF Alike
  <2>3. \E Q : rd \in Seq(Q) /\ rd2 \in Seq(Q)  BY <1>5, <1>6
  <2>4. Len(rd) <= Len(rd2) /\ 0 \in Nat /\ c <= Len(cd)  BY <1>1, <1>6
  <2>. QED  BY <1>1, <1>8, <2>1, <2>2, <2>3, <2>4 DEF Later
<1>10. Later(rd, cd, rd2, cd, 0, i.pos) /\ Later(rd, cd, rd2, cd, 0, o.pos)
  <2>1. 0 \in Nat /\ 0 <= 0  OBVIOUS
  <2>. QED  BY <1>1, <1>9, <2>1, LaterPart
<1>11. i.tok < Len(rd) /\ o.tok < Len(rd)  BY <1>1
<1>12. Unmoved(rd, cd, rd2, cd, i) /\ Unmoved(rd, cd, rd2, cd, o)
  BY <1>1, <1>10, <1>11 DEF Unmoved
<1>13. Link(Language[a], rd2, cd, e, i, o)  BY <1>1, <1>12, LinkKept
<1>14. Under(Language[a], rd2, cd, rest, o)  BY <1>1, <1>12, UnderKept
<1>15. \A k \in 1 .. m : rd2[k] = rd[k]  BY <1>6, <1>7
<1>. QED  BY <1>2, <1>7, <1>9, <1>13, <1>14, <1>15

(* Code is emitted behind that which there is. *)
Longer(cd, cd2) ==
  /\ cd2 \in Seq(Bytes) /\ Len(cd) <= Len(cd2)
  /\ \A k \in 1 .. Len(cd) : cd2[k] = cd[k]

(* When code is emitted they stay.                                         *)
LEMMA AfterEmit ==
  ASSUME NEW a, NEW rd, NEW cd, NEW pv, NEW e, NEW i, NEW o, NEW rest,
         Stage(a, rd, cd, pv, e, i, o, rest), NEW n, n = Len(rd) - 1, NEW c, c = Len(cd),
         NEW cd2, Longer(cd, cd2)
  PROVE  /\ Context(a, rd, cd2) /\ Later(rd, cd, rd, cd2, 0, c)
         /\ Link(Language[a], rd, cd2, e, i, o) /\ Under(Language[a], rd, cd2, rest, o)
<1>1. /\ Context(a, rd, cd) /\ i \in Marks /\ o \in Marks
      /\ Link(Language[a], rd, cd, e, i, o) /\ Under(Language[a], rd, cd, rest, o)
      /\ n \in Nat /\ c \in Nat /\ n < Len(rd) /\ n + 1 = Len(rd)
      /\ i.tok \in Nat /\ i.pos \in Nat /\ o.tok \in Nat /\ o.pos \in Nat
      /\ i.tok <= n /\ i.pos <= c /\ o.tok <= n /\ o.pos <= c
  BY StageIs
<1>2. cd2 \in Seq(Bytes) /\ c <= Len(cd2) /\ \A k \in 1 .. c : cd2[k] = cd[k]
  BY DEF Longer
<1>3. Context(a, rd, cd2) /\ cd \in Seq(Bytes)  BY <1>1, <1>2 DEF Context
<1>4. Later(rd, cd, rd, cd2, 0, c)
  <2>1. Agree(rd, rd, Len(rd))  BY DEF Agree
  <2>2. Alike(cd2, cd, 0, c)  BY <1>1, <1>2 DEF Alike
  <2>3. \E Q : rd \in Seq(Q) /\ rd \in Seq(Q)  BY <1>1 DEF Context, Reads
  <2>4. Len(rd) <= Len(rd) /\ 0 \in Nat /\ c <= Len(cd)  BY <1>1
  <2>. QED  BY <1>1, <1>2, <1>3, <2>1, <2>2, <2>3, <2>4 DEF Later
<1>5. Later(rd, cd, rd, cd2, 0, i.pos) /\ Later(rd, cd, rd, cd2, 0, o.pos)
  <2>1. 0 \in Nat /\ 0 <= 0  OBVIOUS
  <2>. QED  BY <1>1, <1>4, <2>1, LaterPart
<1>6. i.tok < Len(rd) /\ o.tok < Len(rd)  BY <1>1
<1>7. Unmoved(rd, cd, rd, cd2, i) /\ Unmoved(rd, cd, rd, cd2, o)
  BY <1>1, <1>5, <1>6 DEF Unmoved
<1>8. Link(Language[a], rd, cd2, e, i, o)  BY <1>1, <1>7, LinkKept
<1>9. Under(Language[a], rd, cd2, rest, o)  BY <1>1, <1>7, UnderKept
<1>. QED  BY <1>3, <1>4, <1>8, <1>9

(* Bytes put behind the code.                                              *)
LEMMA AfterBytes ==
  ASSUME NEW cd, NEW bytes, cd \in Seq(Bytes), bytes \in Seq(Bytes)
  PROVE  /\ Longer(cd, cd \o bytes) /\ Len(cd) <= Len(cd \o bytes)
         /\ Seg(cd \o bytes, Len(cd), Len(cd \o bytes)) = bytes
<1>. DEFINE cd2 == cd \o bytes
<1>1. /\ cd2 \in Seq(Bytes) /\ Len(cd2) = Len(cd) + Len(bytes)
      /\ Agree(cd2, cd, Len(cd)) /\ Seg(cd2, Len(cd), Len(cd2)) = bytes
  BY SegBehind
<1>. HIDE DEF cd2
<1>2. Len(cd) \in Nat /\ Len(bytes) \in Nat  OBVIOUS
<1>3. Len(cd) <= Len(cd2)  BY <1>1, <1>2
<1>4. Longer(cd, cd2)  BY <1>1, <1>3 DEF Longer, Agree
<1>. QED  BY <1>1, <1>3, <1>4 DEF cd2

(* A jump is patched behind the h-th byte; code may have been put behind,  *)
(* and a token read.                                                       *)
ReadSome(a, rd, cd, rd2) ==
  Context(a, rd2, cd) /\ Len(rd) <= Len(rd2) /\ Agree(rd2, rd, Len(rd))

(* When a jump above them is patched they stay, also when a token is read  *)
(* with it.                                                                *)
LEMMA AfterPatch ==
  ASSUME NEW a, NEW rd, NEW cd, NEW pv, NEW e, NEW i, NEW o, NEW rest, NEW c, NEW cd2,
         NEW h, NEW v, NEW rd2,
         Stage(a, rd, cd, pv, e, i, o, rest), c = Len(cd), cd2 \in Seq(Bytes),
         Len(cd) <= Len(cd2), h \in Nat, v = h + 3, v <= Len(cd), o.pos <= h,
         \A k \in 1 .. Len(cd) : k <= h \/ v < k => cd2[k] = cd[k],
         ReadSome(a, rd, cd, rd2)
  PROVE  /\ Context(a, rd2, cd2)
         /\ Later(rd, cd, rd2, cd2, 0, h) /\ Later(rd, cd, rd2, cd2, v, c)
         /\ Under(Language[a], rd2, cd2, rest, o)
<1>. DEFINE n == Len(rd) - 1
<1>1. n = Len(rd) - 1  OBVIOUS
<1>. HIDE DEF n
<1>2. /\ Context(a, rd, cd) /\ o \in Marks /\ Under(Language[a], rd, cd, rest, o)
      /\ n \in Nat /\ c \in Nat /\ n < Len(rd) /\ n + 1 = Len(rd)
      /\ o.tok \in Nat /\ o.pos \in Nat /\ o.tok <= n /\ o.pos <= c
  BY <1>1, StageIs
<1>3. Context(a, rd2, cd2) /\ cd \in Seq(Bytes)  BY <1>2 DEF Context, ReadSome
<1>4. Agree(rd2, rd, Len(rd)) /\ Len(rd) <= Len(rd2)  BY DEF ReadSome
<1>5. \E Q : rd \in Seq(Q) /\ rd2 \in Seq(Q)
  <2>1. rd \in Seq(DOMAIN a.most \cup {"EOF"}) /\ rd2 \in Seq(DOMAIN a.most \cup {"EOF"})
    BY <1>2, <1>3 DEF Context, Reads
  <2>. QED  BY <2>1
<1>6. h <= Len(cd) /\ h <= Len(cd2) /\ v \in Nat /\ c <= Len(cd) /\ c <= Len(cd2) /\ 0 \in Nat
  BY <1>2
<1>7. Alike(cd2, cd, 0, h)  BY <1>6, <1>2 DEF Alike
<1>8. Alike(cd2, cd, v, c)  BY <1>6, <1>2 DEF Alike
<1>9. Later(rd, cd, rd2, cd2, 0, h)
  BY <1>2, <1>3, <1>4, <1>5, <1>6, <1>7 DEF Later
<1>10. Later(rd, cd, rd2, cd2, v, c)
  BY <1>2, <1>3, <1>4, <1>5, <1>6, <1>8 DEF Later
<1>11. Later(rd, cd, rd2, cd2, 0, o.pos)
  <2>1. 0 \in Nat /\ 0 <= 0  OBVIOUS
  <2>. QED  BY <1>2, <1>9, <2>1, LaterPart
<1>12. o.tok < Len(rd)  BY <1>2
<1>13. Unmoved(rd, cd, rd2, cd2, o)  BY <1>2, <1>11, <1>12 DEF Unmoved
<1>14. Under(Language[a], rd2, cd2, rest, o)  BY <1>2, <1>13, UnderKept
<1>. QED  BY <1>3, <1>9, <1>10, <1>14

-----------------------------------------------------------------------------
(* What each function of the descent does to the marks: expressions.       *)

(* An expression is parsed from the level of assignments.                  *)
LEMMA Levels == Expr = Prec(1) /\ Level.ASSIGNMENT = 1
BY DEF Expr, Level

(* The rules a token may have in front of an operand.                      *)
LEMMA PrefixRules ==
  ASSUME NEW t, Prefix(t) # "NULL"
  PROVE  /\ Prefix(t) \in {"name", "literal", "grouping", "unary"}
         /\ Prefix(t) = "grouping" => t = "("
<1>1. Prefix(t) \in {"name", "literal", "grouping", "unary"}  BY DEF Prefix
<1>2. ASSUME Prefix(t) = "grouping"  PROVE t = "("
  BY <1>2 DEF Prefix
<1>. QED  BY <1>1, <1>2

(* The rules a token may have behind an operand.                           *)
LEMMA InfixRules ==
  ASSUME NEW t
  PROVE  /\ Infix(t) # "NULL" => Infix(t) \in InfixKinds
         /\ Infix(t) = "call" => t = "("
         /\ Infix(t) = "postfix" => t \in {"INC", "DEC"} /\ Precedence(t) = 8
BY DEF Infix, InfixKinds, Precedence, Level

(* A prefix rule is called with its token just read.                       *)
LEMMA TokenHeld ==
  ASSUME NEW L, NEW rd, NEW cd, NEW pv, NEW i, Holds(L, rd, cd, pv, i), i.kind = "token",
         NEW n, n = Len(rd) - 1, NEW c, c = Len(cd)
  PROVE  i.tok + 1 = n /\ i.pos = c /\ pv = rd[n]
<1>1. Parsed(L, rd, cd, pv, i, n, c)  BY DEF Holds
<1>. QED  BY <1>1 DEF Parsed, InfixKinds

(* prec with a prefix rule (parser.c:653-680).                             *)
LEMMA MarkPrec ==
  ASSUME NEW a, NEW rd, NEW cd, NEW pv, NEW e, NEW i, NEW o, NEW rest,
         Stage(a, rd, cd, pv, e, i, o, rest), e.do = "prec",
         NEW rd2, ReadOn(a, rd, cd, rd2), NEW t, t = rd[Len(rd)], Prefix(t) # "NULL",
         NEW d, d.do = Prefix(t), d.assigns = (e.level <= 1),
         NEW f, f.do = "infix", f.level = e.level, f.assigns = (e.level <= 1)
  PROVE  Marked(Language[a], rd2, cd, t, <<d, f>> \o rest)
<1>. DEFINE n == Len(rd) - 1
            c == Len(cd)
            m == n + 1
            L == Language[a]
<1>1. n = Len(rd) - 1 /\ c = Len(cd) /\ m = n + 1  OBVIOUS
<1>. HIDE DEF n, c, m
<1>2. /\ Context(a, rd, cd) /\ Holds(L, rd, cd, pv, i) /\ Linked(L, rd, cd, e, i, o)
      /\ n \in Nat /\ c \in Nat
  BY <1>1, StageIs
<1>3. /\ m = Len(rd2) - 1 /\ m \in Nat /\ m = Len(rd)
      /\ \A k \in 1 .. m : rd2[k] = rd[k]
      /\ Under(L, rd2, cd, rest, o)
  BY <1>1, AfterRead
<1>. HIDE DEF L
<1>4. /\ i.kind = "here" /\ o.kind = "value" /\ SameStart(i, o)
      /\ o.level = e.level /\ e.level \in 1 .. 9
  BY <1>2, LinkIs DEF PrecLink
<1>5. i.tok = n /\ i.pos = c  BY <1>1, <1>2, <1>4, HoldsIs
<1>6. o.tok = n /\ o.pos = c  BY <1>4, <1>5 DEF SameStart
<1>. DEFINE y == Mark("operand", n, c, e.level)
            x == Mark("token", n, c, 0)
<1>7. y \in Marks /\ y.kind = "operand" /\ y.tok = n /\ y.pos = c /\ y.level = e.level
  BY <1>2, <1>4 DEF Mark, Marks, Kinds
<1>8. x \in Marks /\ x.kind = "token" /\ x.tok = n /\ x.pos = c
  BY <1>2 DEF Mark, Marks, Kinds
<1>. HIDE DEF x, y
<1>9. Link(L, rd2, cd, f, y, o)
  <2>1. InfixLink(f, y, o)  BY <1>4, <1>6, <1>7 DEF InfixLink, SameStart
  <2>2. Linked(L, rd2, cd, f, y, o)  BY <2>1, LinkIs
  <2>. QED  BY <1>2, <1>6, <1>7, <2>2 DEF Link
<1>10. Link(L, rd2, cd, d, x, y)
  <2>1. m \in 1 .. m /\ n + 1 = m  BY <1>1, <1>2, <1>3
  <2>2. rd2[x.tok + 1] = t  BY <1>3, <1>8, <2>1
  <2>3. d.do \in {"name", "literal", "grouping", "unary"}
    BY PrefixRules
  <2>4. d.do = "grouping" => rd2[x.tok + 1] = "("  BY <2>2, PrefixRules
  <2>5. PrefixLink(rd2, d, x, y)
    BY <1>4, <1>7, <1>8, <2>4 DEF PrefixLink, SameStart, AsOperand
  <2>6. Linked(L, rd2, cd, d, x, y)  BY <2>3, <2>5, LinkIs
  <2>. QED  BY <1>2, <1>7, <1>8, <2>6 DEF Link
<1>11. Holds(L, rd2, cd, t, x)
  <2>1. m \in 1 .. m  BY <1>1, <1>2
  <2>2. t = rd2[m] /\ x.tok + 1 = m /\ x.pos = c  BY <1>1, <1>3, <1>8, <2>1
  <2>. QED  BY <1>1, <1>3, <1>8, <2>2, HoldsIs
<1>. QED  BY <1>3, <1>7, <1>8, <1>9, <1>10, <1>11, PushTwo DEF L

(* Its loop, when the token's precedence is high enough.                   *)
LEMMA MarkInfix ==
  ASSUME NEW a, NEW rd, NEW cd, NEW pv, NEW e, NEW i, NEW o, NEW rest,
         Stage(a, rd, cd, pv, e, i, o, rest), e.do = "infix",
         NEW rd2, ReadOn(a, rd, cd, rd2), NEW t, t = rd[Len(rd)],
         e.level <= Precedence(t), Infix(t) # "NULL", NEW d, d.do = Infix(t)
  PROVE  Marked(Language[a], rd2, cd, t, <<d, e>> \o rest)
<1>. DEFINE n == Len(rd) - 1
            c == Len(cd)
            m == n + 1
            L == Language[a]
<1>1. n = Len(rd) - 1 /\ c = Len(cd) /\ m = n + 1  OBVIOUS
<1>. HIDE DEF n, c, m
<1>2. /\ Context(a, rd, cd) /\ Holds(L, rd, cd, pv, i) /\ Linked(L, rd, cd, e, i, o)
      /\ n \in Nat /\ c \in Nat /\ i \in Marks
      /\ i.tok \in Nat /\ i.pos \in Nat /\ i.tok <= n /\ i.pos <= c
  BY <1>1, StageIs
<1>3. /\ m = Len(rd2) - 1 /\ m \in Nat /\ m = Len(rd)
      /\ \A k \in 1 .. m : rd2[k] = rd[k]
      /\ Later(rd, cd, rd2, cd, 0, c)
      /\ Link(L, rd2, cd, e, i, o) /\ Under(L, rd2, cd, rest, o)
  BY <1>1, AfterRead
<1>. HIDE DEF L
<1>4. /\ i.kind = "operand" /\ i.level = e.level /\ e.level \in 1 .. 9
  BY <1>2, LinkIs DEF InfixLink
<1>5. Operand(L, rd, cd, i.tok, n, i.pos, c, i.level)  BY <1>1, <1>2, <1>4, HoldsIs
<1>6. Operand(L, rd2, cd, i.tok, n, i.pos, c, i.level)
  <2>1. 0 <= i.pos /\ c <= c  BY <1>2
  <2>. QED  BY <1>3, <1>5, <2>1, KeepsOperand
<1>7. Infix(t) \in InfixKinds  BY InfixRules
<1>. DEFINE x == Mark(Infix(t), i.tok, i.pos, i.level)
<1>8. x \in Marks /\ x.kind = Infix(t) /\ x.tok = i.tok /\ x.pos = i.pos /\ x.level = i.level
  <2>1. Infix(t) \in Kinds  BY <1>7 DEF Kinds
  <2>2. i.level \in 0 .. 9  BY <1>4
  <2>. QED  BY <1>2, <2>1, <2>2 DEF Mark, Marks
<1>. HIDE DEF x
<1>9. Link(L, rd2, cd, d, x, i)
  <2>1. OperatorLink(d, x, i)  BY <1>4, <1>8 DEF OperatorLink, SameStart, AsOperand
  <2>2. Linked(L, rd2, cd, d, x, i)  BY <1>7, <2>1, LinkIs
  <2>. QED  BY <1>2, <1>8, <2>2 DEF Link
<1>10. Holds(L, rd2, cd, t, x)
  <2>1. m \in 1 .. m /\ m # 0  BY <1>1, <1>2
  <2>2. t = rd2[m]  BY <1>3, <2>1
  <2>3. Operated(L, rd2, cd, t, x, m, c)
    BY <1>1, <1>2, <1>4, <1>6, <1>8, <2>1, <2>2 DEF Operated
  <2>4. x.kind \in InfixKinds  BY <1>7, <1>8
  <2>. QED  BY <1>1, <1>3, <2>3, <2>4, HoldsIs
<1>. QED  BY <1>2, <1>3, <1>8, <1>9, <1>10, PushTwo DEF L

(* Its end: the operand is a value, for no operator follows.               *)
LEMMA MarkValue ==
  ASSUME NEW a, NEW rd, NEW cd, NEW pv, NEW e, NEW i, NEW o, NEW rest,
         Stage(a, rd, cd, pv, e, i, o, rest), e.do = "infix",
         ~ (e.level <= Precedence(rd[Len(rd)])), ~ (e.assigns /\ rd[Len(rd)] = "=")
  PROVE  Marked(Language[a], rd, cd, pv, <<>> \o rest)
<1>. DEFINE n == Len(rd) - 1
            c == Len(cd)
            L == Language[a]
<1>1. n = Len(rd) - 1 /\ c = Len(cd)  OBVIOUS
<1>. HIDE DEF n, c
<1>2. /\ Context(a, rd, cd) /\ Holds(L, rd, cd, pv, i) /\ Linked(L, rd, cd, e, i, o)
      /\ n \in Nat /\ c \in Nat /\ n + 1 = Len(rd) /\ o \in Marks
      /\ Under(L, rd, cd, rest, o)
  BY <1>1, StageIs
<1>. HIDE DEF L
<1>3. /\ i.kind = "operand" /\ o.kind = "value" /\ SameStart(i, o)
      /\ i.level = e.level /\ o.level = e.level /\ e.level \in 1 .. 9
      /\ e.assigns = (e.level <= 1)
  BY <1>2, LinkIs DEF InfixLink
<1>4. Operand(L, rd, cd, o.tok, n, o.pos, c, o.level)
  BY <1>1, <1>2, <1>3, HoldsIs DEF SameStart
<1>5. Precedence(rd[n + 1]) < o.level
  <2>1. Precedence(rd[n + 1]) \in 0 .. 9  BY Precedences
  <2>. QED  BY <1>2, <1>3, <2>1
<1>6. o.level <= 1 => rd[n + 1] # "="  BY <1>2, <1>3
<1>7. Value(L, rd, cd, o.tok, n, o.pos, c, o.level)  BY <1>4, <1>5, <1>6 DEF Value
<1>8. Holds(L, rd, cd, pv, o)  BY <1>1, <1>3, <1>7, HoldsIs
<1>. QED  BY <1>2, <1>8, PushNothing DEF L

(* A name with an assignment behind it.                                    *)
LEMMA MarkStore ==
  ASSUME NEW a, NEW rd, NEW cd, NEW pv, NEW e, NEW i, NEW o, NEW rest,
         Stage(a, rd, cd, pv, e, i, o, rest), e.do = "name", pv \in Names, e.assigns,
         NEW rd2, ReadOn(a, rd, cd, rd2), NEW t, t = rd[Len(rd)], t = "=",
         NEW bytes, bytes = OperandCode("SETGLOBAL", Index[pv])
  PROVE  Marked(Language[a], rd2, cd, t, <<Expr, Emit(bytes)>> \o rest)
<1>. DEFINE n == Len(rd) - 1
            c == Len(cd)
            m == n + 1
            L == Language[a]
            f == Emit(bytes)
<1>1. n = Len(rd) - 1 /\ c = Len(cd) /\ m = n + 1  OBVIOUS
<1>0. f.do = "emit" /\ f.bytes = bytes  BY DEF Emit
<1>. HIDE DEF n, c, m, f
<1>2. /\ Context(a, rd, cd) /\ Holds(L, rd, cd, pv, i) /\ Linked(L, rd, cd, e, i, o)
      /\ n \in Nat /\ c \in Nat /\ o \in Marks /\ o.tok \in Nat /\ o.pos \in Nat
      /\ o.level \in 0 .. 9
  BY <1>1, StageIs
<1>3. /\ m = Len(rd2) - 1 /\ m \in Nat /\ m = Len(rd) /\ Context(a, rd2, cd)
      /\ \A k \in 1 .. m : rd2[k] = rd[k]
      /\ Under(L, rd2, cd, rest, o)
  BY <1>1, AfterRead
<1>. HIDE DEF L
<1>4. /\ i.kind = "token" /\ AsOperand(o) /\ SameStart(i, o)
      /\ e.assigns = (o.level <= 1)
  BY <1>2, LinkIs DEF PrefixLink
<1>5. i.tok + 1 = n /\ i.pos = c /\ pv = rd[n]
  <2>1. i.kind = "token"  BY <1>4
  <2>. QED  BY <1>1, <1>2, <2>1, TokenHeld
<1>6. o.tok + 1 = n /\ o.pos = c /\ o.level = 1 /\ o.kind = "operand"
  <2>1. o.level <= 1  BY <1>4, Zenon
  <2>. QED  BY <1>2, <1>4, <1>5, <2>1 DEF SameStart, AsOperand
<1>7. n \in 1 .. m /\ m \in 1 .. m /\ m = o.tok + 2 /\ o.tok <= m  BY <1>1, <1>2, <1>6
<1>8. rd2[o.tok + 1] = pv /\ rd2[m] = "="  BY <1>3, <1>5, <1>6, <1>7
<1>. DEFINE x == Mark("value", m, c, 1)
<1>9. x \in Marks /\ x.kind = "value" /\ x.tok = m /\ x.pos = c /\ x.level = 1
  BY <1>2, <1>3 DEF Mark, Marks, Kinds
<1>. HIDE DEF x
<1>10. Link(L, rd2, cd, f, x, o)
  <2>1. StoreLink(rd2, bytes, x, o)
    BY <1>6, <1>7, <1>8, <1>9 DEF StoreLink
  <2>2. EmitLink(L, rd2, cd, f.bytes, x, o)  BY <1>0, <2>1 DEF EmitLink
  <2>3. Linked(L, rd2, cd, f, x, o)  BY <1>0, <2>2, LinkIs
  <2>. QED  BY <1>2, <1>6, <1>7, <1>9, <2>3 DEF Link
<1>11. 1 \in 1 .. 9 /\ x.tok = Len(rd2) - 1 /\ x.pos = Len(cd)  BY <1>1, <1>3, <1>9
<1>12. Marked(L, rd2, cd, t, <<Prec(1), f>> \o rest)
  BY <1>3, <1>9, <1>10, <1>11, PushPrec
<1>. QED  BY <1>12, Levels DEF L, f

(* What a name or a literal loads. *)
LEMMA MarkLoad ==
  ASSUME NEW a, NEW rd, NEW cd, NEW pv, NEW e, NEW i, NEW o, NEW rest,
         Stage(a, rd, cd, pv, e, i, o, rest), e.do \in {"name", "literal"}, NEW bytes,
         \/ pv \in Names /\ bytes = OperandCode("LOADGLOBAL", Index[pv])
         \/ pv \in Literals /\ bytes = ConstantCode(Index[pv])
  PROVE  Marked(Language[a], rd, cd, pv, <<Emit(bytes)>> \o rest)
<1>. DEFINE n == Len(rd) - 1
            c == Len(cd)
            L == Language[a]
            f == Emit(bytes)
<1>1. n = Len(rd) - 1 /\ c = Len(cd)  OBVIOUS
<1>0. f.do = "emit" /\ f.bytes = bytes  BY DEF Emit
<1>. HIDE DEF n, c, f
<1>2. /\ Context(a, rd, cd) /\ Holds(L, rd, cd, pv, i) /\ Linked(L, rd, cd, e, i, o)
      /\ n \in Nat /\ c \in Nat /\ o \in Marks /\ o.tok \in Nat /\ o.pos \in Nat
      /\ Under(L, rd, cd, rest, o)
  BY <1>1, StageIs
<1>. HIDE DEF L
<1>3. i.kind = "token" /\ AsOperand(o) /\ SameStart(i, o)
  BY <1>2, LinkIs DEF PrefixLink
<1>4. i.tok + 1 = n /\ i.pos = c /\ pv = rd[n]  BY <1>1, <1>2, <1>3, TokenHeld
<1>5. o.tok + 1 = n /\ o.pos = c /\ o.tok <= n
  BY <1>2, <1>3, <1>4 DEF SameStart
<1>6. PICK x \in Marks : /\ x.kind = "here" /\ x.tok = Len(rd) - 1 /\ x.pos = Len(cd)
                         /\ \A K, y : Holds(K, rd, cd, y, x)
  BY <1>2, HereExists, Zenon
<1>7. x.kind = "here" /\ x.tok = n /\ x.pos = c  BY <1>1, <1>6
<1>8. Link(L, rd, cd, f, x, o)
  <2>1. LoadLink(rd, bytes, x, o)  BY <1>3, <1>4, <1>5, <1>7 DEF LoadLink
  <2>2. EmitLink(L, rd, cd, f.bytes, x, o)  BY <1>0, <2>1 DEF EmitLink
  <2>3. Linked(L, rd, cd, f, x, o)  BY <1>0, <2>2, LinkIs
  <2>. QED  BY <1>2, <1>5, <1>7, <2>3 DEF Link
<1>. QED  BY <1>2, <1>6, <1>8, PushOne DEF L, f

(* An expression in parentheses.                                           *)
LEMMA MarkGrouping ==
  ASSUME NEW a, NEW rd, NEW cd, NEW pv, NEW e, NEW i, NEW o, NEW rest,
         Stage(a, rd, cd, pv, e, i, o, rest), e.do = "grouping"
  PROVE  Marked(Language[a], rd, cd, pv, <<Expr, Consume(")")>> \o rest)
<1>. DEFINE n == Len(rd) - 1
            c == Len(cd)
            L == Language[a]
            f == Consume(")")
<1>1. n = Len(rd) - 1 /\ c = Len(cd)  OBVIOUS
<1>0. f.do = "consume" /\ f.token = ")"  BY DEF Consume
<1>. HIDE DEF n, c, f
<1>2. /\ Context(a, rd, cd) /\ Holds(L, rd, cd, pv, i) /\ Linked(L, rd, cd, e, i, o)
      /\ n \in Nat /\ c \in Nat /\ o \in Marks /\ o.tok \in Nat /\ o.pos \in Nat
      /\ Under(L, rd, cd, rest, o)
  BY <1>1, StageIs
<1>. HIDE DEF L
<1>3. i.kind = "token" /\ AsOperand(o) /\ SameStart(i, o) /\ rd[i.tok + 1] = "("
  BY <1>2, LinkIs DEF PrefixLink
<1>4. i.tok + 1 = n /\ i.pos = c /\ pv = rd[n]  BY <1>1, <1>2, <1>3, TokenHeld
<1>5. n = o.tok + 1 /\ o.pos = c /\ o.tok <= n /\ rd[n] = "("
  BY <1>2, <1>3, <1>4 DEF SameStart
<1>. DEFINE x == Mark("value", n, c, 1)
<1>6. x \in Marks /\ x.kind = "value" /\ x.tok = n /\ x.pos = c /\ x.level = 1
  BY <1>2 DEF Mark, Marks, Kinds
<1>. HIDE DEF x
<1>7. Link(L, rd, cd, f, x, o)
  <2>1. GroupLink(rd, x, o)  BY <1>3, <1>5, <1>6 DEF GroupLink
  <2>2. ConsumeLink(L, rd, cd, f.token, x, o)  BY <1>0, <2>1 DEF ConsumeLink
  <2>3. Linked(L, rd, cd, f, x, o)  BY <1>0, <2>2, LinkIs
  <2>. QED  BY <1>2, <1>5, <1>6, <2>3 DEF Link
<1>8. 1 \in 1 .. 9 /\ x.tok = Len(rd) - 1 /\ x.pos = Len(cd)  BY <1>1, <1>6
<1>9. Marked(L, rd, cd, pv, <<Prec(1), f>> \o rest)
  BY <1>2, <1>6, <1>7, <1>8, PushPrec
<1>. QED  BY <1>9, Levels DEF L, f

(* A prefix operator.                                                      *)
LEMMA MarkUnary ==
  ASSUME NEW a, NEW rd, NEW cd, NEW pv, NEW e, NEW i, NEW o, NEW rest,
         Stage(a, rd, cd, pv, e, i, o, rest), e.do = "unary", pv \in UnaryTokens
  PROVE  Marked(Language[a], rd, cd, pv,
                <<Prec(Precedence(pv) + 1), Emit(UnaryBytes(pv))>> \o rest)
<1>. DEFINE n == Len(rd) - 1
            c == Len(cd)
            L == Language[a]
            f == Emit(UnaryBytes(pv))
            lv == Precedence(pv) + 1
<1>1. n = Len(rd) - 1 /\ c = Len(cd)  OBVIOUS
<1>0. f.do = "emit" /\ f.bytes = UnaryBytes(pv)  BY DEF Emit
<1>a. lv \in 1 .. 9 /\ lv \in 0 .. 9
  <2>1. Precedence(pv) \in 6 .. 8  BY Precedences
  <2>. QED  BY <2>1
<1>b. lv = Precedence(pv) + 1  OBVIOUS
<1>. HIDE DEF n, c, f, lv
<1>2. /\ Context(a, rd, cd) /\ Holds(L, rd, cd, pv, i) /\ Linked(L, rd, cd, e, i, o)
      /\ n \in Nat /\ c \in Nat /\ o \in Marks /\ o.tok \in Nat /\ o.pos \in Nat
      /\ Under(L, rd, cd, rest, o)
  BY <1>1, StageIs
<1>. HIDE DEF L
<1>3. i.kind = "token" /\ AsOperand(o) /\ SameStart(i, o)
  BY <1>2, LinkIs DEF PrefixLink
<1>4. i.tok + 1 = n /\ i.pos = c /\ pv = rd[n]  BY <1>1, <1>2, <1>3, TokenHeld
<1>5. n = o.tok + 1 /\ o.pos = c /\ o.tok <= n /\ rd[n] \in UnaryTokens
  BY <1>2, <1>3, <1>4 DEF SameStart
<1>. DEFINE x == Mark("value", n, c, lv)
<1>6. x \in Marks /\ x.kind = "value" /\ x.tok = n /\ x.pos = c /\ x.level = lv
  BY <1>2, <1>a DEF Mark, Marks, Kinds
<1>. HIDE DEF x
<1>7. Link(L, rd, cd, f, x, o)
  <2>1. UnaryLink(rd, f.bytes, x, o)
    BY <1>0, <1>3, <1>4, <1>5, <1>6, <1>b DEF UnaryLink
  <2>2. EmitLink(L, rd, cd, f.bytes, x, o)  BY <2>1 DEF EmitLink
  <2>3. Linked(L, rd, cd, f, x, o)  BY <1>0, <2>2, LinkIs
  <2>. QED  BY <1>2, <1>5, <1>6, <2>3 DEF Link
<1>8. x.tok = Len(rd) - 1 /\ x.pos = Len(cd)  BY <1>1, <1>6
<1>9. Marked(L, rd, cd, pv, <<Prec(lv), f>> \o rest)
  BY <1>2, <1>6, <1>7, <1>8, <1>a, PushPrec
<1>. QED  BY <1>9 DEF L, f, lv

(* The infix operator that was just read, behind an operand.               *)
LEMMA OperatorHeld ==
  ASSUME NEW a, NEW rd, NEW cd, NEW pv, NEW e, NEW i, NEW o, NEW rest,
         Stage(a, rd, cd, pv, e, i, o, rest), e.do \in InfixKinds,
         NEW n, n = Len(rd) - 1, NEW c, c = Len(cd)
  PROVE  /\ Context(a, rd, cd) /\ Under(Language[a], rd, cd, rest, o) /\ o \in Marks
         /\ n \in Nat /\ c \in Nat /\ n # 0 /\ o.tok \in Nat /\ o.pos \in Nat
         /\ o.tok <= n /\ o.pos <= c /\ o.level \in 1 .. 9 /\ AsOperand(o)
         /\ pv = rd[n] /\ Infix(pv) = e.do /\ o.level <= Precedence(pv)
         /\ \E k \in Nat : n = k + 1 /\ Operand(Language[a], rd, cd, o.tok, k, o.pos, c, o.level)
<1>. DEFINE L == Language[a]
<1>1. /\ Context(a, rd, cd) /\ Holds(L, rd, cd, pv, i) /\ Linked(L, rd, cd, e, i, o)
      /\ n \in Nat /\ c \in Nat /\ o \in Marks /\ o.tok \in Nat /\ o.pos \in Nat
      /\ o.tok <= n /\ o.pos <= c /\ Under(L, rd, cd, rest, o)
  BY StageIs
<1>. HIDE DEF L
<1>2. i.kind = e.do /\ i.level = o.level /\ AsOperand(o) /\ SameStart(i, o)
  BY <1>1, LinkIs DEF OperatorLink
<1>3. Operated(L, rd, cd, pv, i, n, c)  BY <1>1, <1>2, HoldsIs
<1>4. /\ n # 0 /\ pv = rd[n] /\ Infix(pv) = i.kind /\ i.level <= Precedence(pv)
      /\ \E k \in Nat : n = k + 1 /\ Operand(L, rd, cd, i.tok, k, i.pos, c, i.level)
  BY <1>3 DEF Operated
<1>5. o.level \in 1 .. 9  BY <1>2 DEF AsOperand
<1>. QED  BY <1>1, <1>2, <1>4, <1>5 DEF SameStart, L

(* A binary operator: its right operand binds tighter.                     *)
LEMMA MarkBinary ==
  ASSUME NEW a, NEW rd, NEW cd, NEW pv, NEW e, NEW i, NEW o, NEW rest,
         Stage(a, rd, cd, pv, e, i, o, rest), e.do = "binary", pv \in BinaryTokens
  PROVE  Marked(Language[a], rd, cd, pv,
                <<Prec(Precedence(pv) + 1), Emit(BinaryBytes(pv))>> \o rest)
<1>. DEFINE n == Len(rd) - 1
            c == Len(cd)
            L == Language[a]
            f == Emit(BinaryBytes(pv))
            lv == Precedence(pv) + 1
<1>1. n = Len(rd) - 1 /\ c = Len(cd)  OBVIOUS
<1>0. f.do = "emit" /\ f.bytes = BinaryBytes(pv)  BY DEF Emit
<1>a. lv \in 1 .. 9 /\ lv \in 0 .. 9
  <2>1. Precedence(pv) \in 3 .. 7  BY Precedences
  <2>. QED  BY <2>1
<1>b. lv = Precedence(pv) + 1  OBVIOUS
<1>. HIDE DEF n, c, f, lv
<1>2. e.do \in InfixKinds  BY DEF InfixKinds
<1>3. /\ Context(a, rd, cd) /\ Under(L, rd, cd, rest, o) /\ o \in Marks
      /\ n \in Nat /\ c \in Nat /\ o.tok \in Nat /\ o.pos \in Nat
      /\ o.tok <= n /\ o.pos <= c /\ AsOperand(o)
      /\ pv = rd[n] /\ o.level <= Precedence(pv)
      /\ \E k \in Nat : n = k + 1 /\ Operand(L, rd, cd, o.tok, k, o.pos, c, o.level)
  BY <1>1, <1>2, OperatorHeld
<1>. HIDE DEF L
<1>. DEFINE x == Mark("value", n, c, lv)
<1>6. x \in Marks /\ x.kind = "value" /\ x.tok = n /\ x.pos = c /\ x.level = lv
  BY <1>3, <1>a DEF Mark, Marks, Kinds
<1>. HIDE DEF x
<1>7. Link(L, rd, cd, f, x, o)
  <2>1. BinaryLink(L, rd, cd, f.bytes, x, o)
    BY <1>0, <1>3, <1>6, <1>b DEF BinaryLink
  <2>2. EmitLink(L, rd, cd, f.bytes, x, o)  BY <2>1 DEF EmitLink
  <2>3. Linked(L, rd, cd, f, x, o)  BY <1>0, <2>2, LinkIs
  <2>. QED  BY <1>3, <1>6, <2>3 DEF Link
<1>8. x.tok = Len(rd) - 1 /\ x.pos = Len(cd)  BY <1>1, <1>6
<1>9. Marked(L, rd, cd, pv, <<Prec(lv), f>> \o rest)
  BY <1>3, <1>6, <1>7, <1>8, <1>a, PushPrec
<1>. QED  BY <1>9 DEF L, f, lv

(* A step behind an operand.                                               *)
LEMMA MarkPostfix ==
  ASSUME NEW a, NEW rd, NEW cd, NEW pv, NEW e, NEW i, NEW o, NEW rest,
         Stage(a, rd, cd, pv, e, i, o, rest), e.do = "postfix"
  PROVE  Marked(Language[a], rd, cd, pv, <<Emit(StepBytes(pv))>> \o rest)
<1>. DEFINE n == Len(rd) - 1
            c == Len(cd)
            L == Language[a]
            f == Emit(StepBytes(pv))
<1>1. n = Len(rd) - 1 /\ c = Len(cd)  OBVIOUS
<1>0. f.do = "emit" /\ f.bytes = StepBytes(pv)  BY DEF Emit
<1>. HIDE DEF n, c, f
<1>2. e.do \in InfixKinds  BY DEF InfixKinds
<1>3. /\ Context(a, rd, cd) /\ Under(L, rd, cd, rest, o) /\ o \in Marks
      /\ n \in Nat /\ c \in Nat /\ o.tok \in Nat /\ o.pos \in Nat
      /\ o.tok <= n /\ o.pos <= c /\ o.level \in 1 .. 9 /\ o.kind = "operand"
      /\ pv = rd[n] /\ Infix(pv) = "postfix" /\ o.level <= Precedence(pv)
      /\ \E k \in Nat : n = k + 1 /\ Operand(L, rd, cd, o.tok, k, o.pos, c, o.level)
  BY <1>1, <1>2, OperatorHeld DEF AsOperand
<1>. HIDE DEF L
<1>4. pv \in {"INC", "DEC"} /\ o.level \in 1 .. 8  BY <1>3, InfixRules
<1>5. PICK x \in Marks : /\ x.kind = "here" /\ x.tok = Len(rd) - 1 /\ x.pos = Len(cd)
                         /\ \A K, y : Holds(K, rd, cd, y, x)
  BY <1>3, HereExists, Zenon
<1>6. x.kind = "here" /\ x.tok = n /\ x.pos = c  BY <1>1, <1>5
<1>7. Link(L, rd, cd, f, x, o)
  <2>1. PostfixLink(L, rd, cd, f.bytes, x, o)
    BY <1>0, <1>3, <1>4, <1>6 DEF PostfixLink
  <2>2. EmitLink(L, rd, cd, f.bytes, x, o)  BY <2>1 DEF EmitLink
  <2>3. Linked(L, rd, cd, f, x, o)  BY <1>0, <2>2, LinkIs
  <2>. QED  BY <1>3, <1>6, <2>3 DEF Link
<1>. QED  BY <1>3, <1>5, <1>7, PushOne DEF L, f

(* A call with a first argument.                                           *)
LEMMA MarkCall ==
  ASSUME NEW a, NEW rd, NEW cd, NEW pv, NEW e, NEW i, NEW o, NEW rest,
         Stage(a, rd, cd, pv, e, i, o, rest), e.do = "call",
         NEW f, f.do = "argument", f.count = 0
  PROVE  Marked(Language[a], rd, cd, pv, <<Expr, f>> \o rest)
<1>. DEFINE n == Len(rd) - 1
            c == Len(cd)
            L == Language[a]
<1>1. n = Len(rd) - 1 /\ c = Len(cd)  OBVIOUS
<1>. HIDE DEF n, c
<1>2. e.do \in InfixKinds  BY DEF InfixKinds
<1>3. /\ Context(a, rd, cd) /\ Under(L, rd, cd, rest, o) /\ o \in Marks
      /\ n \in Nat /\ c \in Nat /\ o.tok \in Nat /\ o.pos \in Nat
      /\ o.tok <= n /\ o.pos <= c /\ AsOperand(o)
      /\ pv = rd[n] /\ Infix(pv) = "call"
      /\ \E k \in Nat : n = k + 1 /\ Operand(L, rd, cd, o.tok, k, o.pos, c, o.level)
  BY <1>1, <1>2, OperatorHeld
<1>. HIDE DEF L
<1>4. rd[n] = "("  BY <1>3, InfixRules
<1>. DEFINE x == Mark("value", n, c, 1)
<1>5. x \in Marks /\ x.kind = "value" /\ x.tok = n /\ x.pos = c /\ x.level = 1
  BY <1>3 DEF Mark, Marks, Kinds
<1>. HIDE DEF x
<1>6. Link(L, rd, cd, f, x, o)
  <2>1. Callee(L, rd, cd, o, n, c)  BY <1>3, <1>4 DEF Callee
  <2>2. Span(rd, cd, n, n, c, c)
    <3>1. \E S : rd \in Seq(S)  BY <1>3 DEF Context, Reads
    <3>2. n < Len(rd) /\ n <= n /\ c <= c /\ c <= Len(cd)  BY <1>1, <1>3, <3>1
    <3>. QED  BY <1>3, <3>2 DEF Span
  <2>3. Passed(L, rd, cd, n, x.tok, c, x.pos, f.count)  BY <1>5, <2>2 DEF Passed
  <2>4. ArgumentLink(L, rd, cd, f, x, o)  BY <1>3, <1>5, <2>1, <2>3 DEF ArgumentLink
  <2>5. Linked(L, rd, cd, f, x, o)  BY <2>4, LinkIs
  <2>. QED  BY <1>3, <1>5, <2>5 DEF Link
<1>7. 1 \in 1 .. 9 /\ x.tok = Len(rd) - 1 /\ x.pos = Len(cd)  BY <1>1, <1>5
<1>8. Marked(L, rd, cd, pv, <<Prec(1), f>> \o rest)
  BY <1>3, <1>5, <1>6, <1>7, PushPrec
<1>. QED  BY <1>8, Levels DEF L

(* A call without arguments.                                               *)
LEMMA MarkEmptyCall ==
  ASSUME NEW a, NEW rd, NEW cd, NEW pv, NEW e, NEW i, NEW o, NEW rest,
         Stage(a, rd, cd, pv, e, i, o, rest), e.do = "call",
         NEW rd2, ReadOn(a, rd, cd, rd2), NEW t, t = rd[Len(rd)], t = ")"
  PROVE  Marked(Language[a], rd2, cd, t, <<Emit(<<Opcode("CALL"), 0>>)>> \o rest)
<1>. DEFINE n == Len(rd) - 1
            c == Len(cd)
            m == n + 1
            L == Language[a]
            f == Emit(<<Opcode("CALL"), 0>>)
<1>1. n = Len(rd) - 1 /\ c = Len(cd) /\ m = n + 1  OBVIOUS
<1>0. f.do = "emit" /\ f.bytes = <<Opcode("CALL"), 0>>  BY DEF Emit
<1>. HIDE DEF n, c, m, f
<1>2. e.do \in InfixKinds  BY DEF InfixKinds
<1>3. /\ o \in Marks /\ n \in Nat /\ n # 0 /\ c \in Nat /\ o.tok \in Nat /\ o.pos \in Nat
      /\ o.tok <= n /\ o.pos <= c /\ AsOperand(o)
      /\ pv = rd[n] /\ Infix(pv) = "call"
      /\ \E k \in Nat : n = k + 1 /\ Operand(L, rd, cd, o.tok, k, o.pos, c, o.level)
  BY <1>1, <1>2, OperatorHeld
<1>4. /\ m = Len(rd2) - 1 /\ m \in Nat /\ m = Len(rd) /\ Context(a, rd2, cd)
      /\ \A k \in 1 .. m : rd2[k] = rd[k]
      /\ Later(rd, cd, rd2, cd, 0, c) /\ Under(L, rd2, cd, rest, o)
  BY <1>1, AfterRead
<1>. HIDE DEF L
<1>5. n \in 1 .. m /\ m \in 1 .. m /\ o.tok <= m  BY <1>1, <1>3
<1>6. rd2[n] = "(" /\ rd2[m] = ")"  BY <1>3, <1>4, <1>5, InfixRules
<1>7. PICK x \in Marks : /\ x.kind = "here" /\ x.tok = Len(rd2) - 1 /\ x.pos = Len(cd)
                         /\ \A K, y : Holds(K, rd2, cd, y, x)
  BY <1>4, HereExists, Zenon
<1>8. x.kind = "here" /\ x.tok = m /\ x.pos = c  BY <1>1, <1>4, <1>7
<1>9. Link(L, rd2, cd, f, x, o)
  <2>1. PICK k \in Nat : n = k + 1 /\ Operand(L, rd, cd, o.tok, k, o.pos, c, o.level)
    BY <1>3
  <2>2. Operand(L, rd2, cd, o.tok, k, o.pos, c, o.level)
    <3>1. 0 <= o.pos /\ c <= c  BY <1>3
    <3>. QED  BY <1>4, <2>1, <3>1, KeepsOperand
  <2>3. Callee(L, rd2, cd, o, n, c)  BY <1>3, <1>6, <2>1, <2>2 DEF Callee
  <2>4. CallLink(L, rd2, cd, f.bytes, x, o)
    <3>1. 0 \in Nat  OBVIOUS
    <3>. QED  BY <1>0, <1>1, <1>3, <1>6, <1>8, <2>3, <3>1 DEF CallLink
  <2>5. EmitLink(L, rd2, cd, f.bytes, x, o)  BY <2>4 DEF EmitLink
  <2>6. Linked(L, rd2, cd, f, x, o)  BY <1>0, <2>5, LinkIs
  <2>. QED  BY <1>3, <1>5, <1>8, <2>6 DEF Link
<1>. QED  BY <1>4, <1>7, <1>9, PushOne DEF L, f

(* A value is what has been parsed at a mark for one.                      *)
LEMMA ValueHeld ==
  ASSUME NEW L, NEW rd, NEW cd, NEW pv, NEW i, Holds(L, rd, cd, pv, i), i.kind = "value",
         NEW n, n = Len(rd) - 1, NEW c, c = Len(cd)
  PROVE  Value(L, rd, cd, i.tok, n, i.pos, c, i.level)
<1>1. Parsed(L, rd, cd, pv, i, n, c)  BY DEF Holds
<1>. QED  BY <1>1 DEF Parsed, InfixKinds

(* One more argument was parsed, and the token behind it is read.          *)
LEMMA ArgumentParsed ==
  ASSUME NEW a, NEW rd, NEW cd, NEW pv, NEW e, NEW i, NEW o, NEW rest,
         Stage(a, rd, cd, pv, e, i, o, rest), e.do = "argument",
         e.count \in Nat, e.count < MAX_ARGUMENTS,
         NEW n, n = Len(rd) - 1, NEW c, c = Len(cd), NEW rd2, ReadOn(a, rd, cd, rd2)
  PROVE  /\ AsOperand(o)
         /\ \E p \in Nat, q \in Nat :
              /\ Callee(Language[a], rd2, cd, o, p, q)
              /\ Arguments(Language[a], rd2, cd, p, n, q, c, e.count + 1)
<1>. DEFINE L == Language[a]
<1>0. 0 \in Nat /\ 0 <= 0  OBVIOUS
<1>1. /\ Context(a, rd, cd) /\ Holds(L, rd, cd, pv, i) /\ Linked(L, rd, cd, e, i, o)
      /\ n \in Nat /\ c \in Nat /\ n + 1 = Len(rd) /\ i \in Marks
      /\ i.tok \in Nat /\ i.pos \in Nat /\ o.tok \in Nat /\ i.tok <= n /\ i.pos <= c
  BY StageIs
<1>2. Later(rd, cd, rd2, cd, 0, c)
  <2>. DEFINE m == n + 1
  <2>1. m = n + 1  OBVIOUS
  <2>. HIDE DEF m
  <2>. QED  BY <2>1, AfterRead
<1>. HIDE DEF L
<1>3. PICK p \in Nat, q \in Nat :
        /\ i.kind = "value" /\ i.level = 1
        /\ Callee(L, rd, cd, o, p, q)
        /\ Passed(L, rd, cd, p, i.tok, q, i.pos, e.count)
  BY <1>1, LinkIs DEF ArgumentLink
<1>4. Value(L, rd, cd, i.tok, n, i.pos, c, 1)
  <2>1. i.kind = "value" /\ i.level = 1  BY <1>3
  <2>2. Value(L, rd, cd, i.tok, n, i.pos, c, i.level)  BY <1>1, <2>1, ValueHeld
  <2>. QED  BY <2>1, <2>2
<1>5. /\ AsOperand(o) /\ rd[p] = "("
      /\ \E k \in Nat : p = k + 1 /\ Operand(L, rd, cd, o.tok, k, o.pos, q, o.level)
  BY <1>3 DEF Callee
<1>6. PICK k \in Nat : p = k + 1 /\ Operand(L, rd, cd, o.tok, k, o.pos, q, o.level)
  BY <1>5
<1>7. k < Len(rd) /\ q <= Len(cd) /\ k \in Nat
  BY <1>6 DEF Operand, Span
<1>8. p <= i.tok /\ q <= i.pos
  <2>1. CASE e.count = 0  BY <1>1, <1>3, <2>1 DEF Passed
  <2>2. CASE e.count # 0
    <3>1. Arguments(L, rd, cd, p, i.tok - 1, q, i.pos, e.count)  BY <1>3, <2>2 DEF Passed
    <3>2. p <= i.tok - 1 /\ q <= i.pos  BY <3>1 DEF Arguments, Span
    <3>. QED  BY <1>1, <3>2
  <2>. QED  BY <2>1, <2>2
<1>9. "(" \in Tokens(a)
  <2>1. p # 0 /\ p <= Len(rd) - 1  BY <1>1, <1>6, <1>8
  <2>2. a \in Alphabets /\ Reads(a, rd)  BY <1>1 DEF Context
  <2>3. rd[p] \in Tokens(a)  BY <2>1, <2>2, TokenRead
  <2>. QED  BY <1>5, <2>3
<1>10. Arguments(L, rd, cd, p, n, q, c, e.count + 1)
  BY <1>1, <1>3, <1>4, <1>9, MoreArguments DEF L
<1>11. Arguments(L, rd2, cd, p, n, q, c, e.count + 1)
  <2>1. 0 <= q /\ c <= c  BY <1>1
  <2>. QED  BY <1>2, <1>10, <2>1, KeepsArguments
<1>12. Operand(L, rd2, cd, o.tok, k, o.pos, q, o.level)
  <2>1. 0 <= o.pos /\ q <= c  BY <1>1, <1>6, <1>8 DEF Operand, Span
  <2>. QED  BY <1>2, <1>6, <2>1, KeepsOperand
<1>13. rd2[p] = "("
  <2>1. p # 0 /\ p <= Len(rd)  BY <1>1, <1>6, <1>8
  <2>. QED  BY <1>2, <1>5, <2>1, LaterToken
<1>14. Callee(L, rd2, cd, o, p, q)  BY <1>5, <1>6, <1>12, <1>13 DEF Callee
<1>. QED  BY <1>5, <1>11, <1>14 DEF L

(* The last argument of a call.                                            *)
LEMMA MarkArguments ==
  ASSUME NEW a, NEW rd, NEW cd, NEW pv, NEW e, NEW i, NEW o, NEW rest,
         Stage(a, rd, cd, pv, e, i, o, rest), e.do = "argument",
         e.count \in Nat, e.count < MAX_ARGUMENTS, NEW count, count = e.count + 1,
         NEW rd2, ReadOn(a, rd, cd, rd2), NEW t, t = rd[Len(rd)], t = ")"
  PROVE  Marked(Language[a], rd2, cd, t, <<Emit(<<Opcode("CALL"), count>>)>> \o rest)
<1>. DEFINE n == Len(rd) - 1
            c == Len(cd)
            m == n + 1
            L == Language[a]
            f == Emit(<<Opcode("CALL"), count>>)
<1>1. n = Len(rd) - 1 /\ c = Len(cd) /\ m = n + 1  OBVIOUS
<1>0. f.do = "emit" /\ f.bytes = <<Opcode("CALL"), count>>  BY DEF Emit
<1>. HIDE DEF n, c, m, f
<1>2. /\ n \in Nat /\ c \in Nat /\ o \in Marks /\ o.tok \in Nat /\ o.pos \in Nat
      /\ o.tok <= n /\ o.pos <= c
  BY <1>1, StageIs
<1>3. /\ m = Len(rd2) - 1 /\ m \in Nat /\ m = Len(rd) /\ Context(a, rd2, cd)
      /\ \A k \in 1 .. m : rd2[k] = rd[k]
      /\ Under(L, rd2, cd, rest, o)
  BY <1>1, AfterRead
<1>4. PICK p \in Nat, q \in Nat :
        Callee(L, rd2, cd, o, p, q) /\ Arguments(L, rd2, cd, p, n, q, c, count)
  BY <1>1, ArgumentParsed
<1>. HIDE DEF L
<1>5. m \in 1 .. m /\ o.tok <= m  BY <1>1, <1>2
<1>6. rd2[m] = ")"  BY <1>3, <1>5
<1>7. PICK x \in Marks : /\ x.kind = "here" /\ x.tok = Len(rd2) - 1 /\ x.pos = Len(cd)
                         /\ \A K, y : Holds(K, rd2, cd, y, x)
  BY <1>3, HereExists, Zenon
<1>8. x.kind = "here" /\ x.tok = m /\ x.pos = c  BY <1>1, <1>3, <1>7
<1>9. Link(L, rd2, cd, f, x, o)
  <2>1. count \in Nat /\ count # 0  OBVIOUS
  <2>2. CallLink(L, rd2, cd, f.bytes, x, o)
    BY <1>0, <1>1, <1>2, <1>4, <1>6, <1>8, <2>1 DEF CallLink
  <2>3. EmitLink(L, rd2, cd, f.bytes, x, o)  BY <2>2 DEF EmitLink
  <2>4. Linked(L, rd2, cd, f, x, o)  BY <1>0, <2>3, LinkIs
  <2>. QED  BY <1>2, <1>5, <1>8, <2>4 DEF Link
<1>. QED  BY <1>3, <1>7, <1>9, PushOne DEF L, f

(* An argument with another one behind it.                                 *)
LEMMA MarkNextArgument ==
  ASSUME NEW a, NEW rd, NEW cd, NEW pv, NEW e, NEW i, NEW o, NEW rest,
         Stage(a, rd, cd, pv, e, i, o, rest), e.do = "argument",
         e.count \in Nat, e.count < MAX_ARGUMENTS,
         NEW f, f.do = "argument", f.count = e.count + 1,
         NEW rd2, ReadOn(a, rd, cd, rd2), NEW t, t = rd[Len(rd)], t = "COMMA"
  PROVE  Marked(Language[a], rd2, cd, t, <<Expr, f>> \o rest)
<1>. DEFINE n == Len(rd) - 1
            c == Len(cd)
            m == n + 1
            L == Language[a]
<1>1. n = Len(rd) - 1 /\ c = Len(cd) /\ m = n + 1  OBVIOUS
<1>. HIDE DEF n, c, m
<1>2. /\ n \in Nat /\ c \in Nat /\ o \in Marks /\ o.tok \in Nat /\ o.pos \in Nat
      /\ o.tok <= n /\ o.pos <= c
  BY <1>1, StageIs
<1>3. /\ m = Len(rd2) - 1 /\ m \in Nat /\ m = Len(rd) /\ Context(a, rd2, cd)
      /\ \A k \in 1 .. m : rd2[k] = rd[k]
      /\ Under(L, rd2, cd, rest, o)
  BY <1>1, AfterRead
<1>4. PICK p \in Nat, q \in Nat :
        Callee(L, rd2, cd, o, p, q) /\ Arguments(L, rd2, cd, p, n, q, c, f.count)
  BY <1>1, ArgumentParsed
<1>. HIDE DEF L
<1>5. m \in 1 .. m /\ o.tok <= m  BY <1>1, <1>2
<1>6. rd2[m] = "COMMA"  BY <1>3, <1>5
<1>. DEFINE x == Mark("value", m, c, 1)
<1>7. x \in Marks /\ x.kind = "value" /\ x.tok = m /\ x.pos = c /\ x.level = 1
  BY <1>2, <1>3 DEF Mark, Marks, Kinds
<1>. HIDE DEF x
<1>8. Link(L, rd2, cd, f, x, o)
  <2>1. f.count # 0 /\ m # 0 /\ m - 1 = n  BY <1>1, <1>2
  <2>2. Passed(L, rd2, cd, p, x.tok, q, x.pos, f.count)
    BY <1>4, <1>6, <1>7, <2>1 DEF Passed
  <2>3. ArgumentLink(L, rd2, cd, f, x, o)  BY <1>4, <1>7, <2>2 DEF ArgumentLink
  <2>4. Linked(L, rd2, cd, f, x, o)  BY <2>3, LinkIs
  <2>. QED  BY <1>2, <1>5, <1>7, <2>4 DEF Link
<1>9. 1 \in 1 .. 9 /\ x.tok = Len(rd2) - 1 /\ x.pos = Len(cd)  BY <1>1, <1>3, <1>7
<1>10. Marked(L, rd2, cd, t, <<Prec(1), f>> \o rest)
  BY <1>3, <1>7, <1>8, <1>9, PushPrec
<1>. QED  BY <1>10, Levels DEF L

-----------------------------------------------------------------------------
(* The bytes that complete a phrase. *)

Emitted(a, rd, cd, cd2, bytes) ==
  /\ Context(a, rd, cd) /\ Context(a, rd, cd2)
  /\ Later(rd, cd, rd, cd2, 0, Len(cd)) /\ Len(cd) <= Len(cd2)
  /\ Seg(cd2, Len(cd), Len(cd2)) = bytes

(* All that is known of the code when some is emitted.                     *)
LEMMA EmittedIs ==
  ASSUME NEW a, NEW rd, NEW cd, NEW cd2, NEW bytes, Emitted(a, rd, cd, cd2, bytes),
         NEW n, n = Len(rd) - 1, NEW c, c = Len(cd), NEW r, r = Len(cd2)
  PROVE  /\ Context(a, rd, cd) /\ Context(a, rd, cd2)
         /\ Later(rd, cd, rd, cd2, 0, c) /\ c <= r /\ r <= Len(cd2) /\ c <= c
         /\ Seg(cd2, c, r) = bytes
         /\ n \in Nat /\ c \in Nat /\ r \in Nat /\ n < Len(rd) /\ n + 1 = Len(rd)
<1>1. Context(a, rd, cd) /\ Context(a, rd, cd2) /\ Later(rd, cd, rd, cd2, 0, c)
  BY DEF Emitted
<1>2. rd \in Seq(Tokens(a) \cup {"EOF"}) /\ rd # <<>> /\ cd \in Seq(Bytes) /\ cd2 \in Seq(Bytes)
  BY <1>1 DEF Context, Reads, Tokens
<1>3. Len(rd) \in Nat /\ Len(rd) # 0 /\ c \in Nat /\ r \in Nat  BY <1>2
<1>4. c <= r /\ Seg(cd2, c, r) = bytes  BY DEF Emitted
<1>. QED  BY <1>1, <1>3, <1>4

(* The code of a name or literal makes an operand.                         *)
LEMMA EmitLoad ==
  ASSUME NEW a, NEW rd, NEW cd, NEW cd2, NEW bytes, Emitted(a, rd, cd, cd2, bytes),
         NEW n, n = Len(rd) - 1, NEW c, c = Len(cd), NEW r, r = Len(cd2),
         NEW i \in Marks, NEW o \in Marks, i.tok = n, i.pos = c, LoadLink(rd, bytes, i, o)
  PROVE  o.kind = "operand" /\ Operand(Language[a], rd, cd2, o.tok, n, o.pos, r, o.level)
<1>1. /\ Context(a, rd, cd2) /\ c <= r /\ r <= Len(cd2) /\ Seg(cd2, c, r) = bytes
      /\ n \in Nat /\ c \in Nat /\ r \in Nat /\ n < Len(rd)
  BY EmittedIs
<1>2. o.tok \in Nat /\ o.pos \in Nat /\ o.tok + 1 = n /\ o.pos = c /\ AsOperand(o)
  BY DEF LoadLink, Marks
<1>3. \/ rd[n] \in Names /\ bytes = OperandCode("LOADGLOBAL", Index[rd[n]])
      \/ rd[n] \in Literals /\ bytes = ConstantCode(Index[rd[n]])
  BY DEF LoadLink
<1>4. Span(rd, cd2, o.tok, n, o.pos, r)
  <2>1. o.tok <= n /\ o.pos <= r  BY <1>1, <1>2
  <2>. QED  BY <1>1, <1>2, <2>1 DEF Span
<1>5. o.kind = "operand" /\ o.level \in 1 .. 9  BY <1>2 DEF AsOperand
<1>6. /\ n = o.tok + 1
      /\ \/ rd[o.tok + 1] \in Names /\ Seg(cd2, o.pos, r) = OperandCode("LOADGLOBAL", Index[rd[o.tok + 1]])
         \/ rd[o.tok + 1] \in Literals /\ Seg(cd2, o.pos, r) = ConstantCode(Index[rd[o.tok + 1]])
  BY <1>1, <1>2, <1>3
<1>. QED  BY <1>1, <1>4, <1>5, <1>6, AtomOperand

(* That of an assignment makes an operand.                                 *)
LEMMA EmitStore ==
  ASSUME NEW a, NEW rd, NEW cd, NEW cd2, NEW bytes, Emitted(a, rd, cd, cd2, bytes),
         NEW n, n = Len(rd) - 1, NEW c, c = Len(cd), NEW r, r = Len(cd2),
         NEW i \in Marks, NEW o \in Marks, StoreLink(rd, bytes, i, o),
         Value(Language[a], rd, cd, i.tok, n, i.pos, c, i.level)
  PROVE  o.kind = "operand" /\ Operand(Language[a], rd, cd2, o.tok, n, o.pos, r, o.level)
<1>1. /\ Context(a, rd, cd2) /\ c <= r /\ r <= Len(cd2) /\ Seg(cd2, c, r) = bytes
      /\ c \in Nat /\ r \in Nat /\ Later(rd, cd, rd, cd2, 0, c) /\ c <= c
  BY EmittedIs
<1>2. /\ o.tok \in Nat /\ i.pos \in Nat /\ i.level = 1 /\ o.kind = "operand" /\ o.level = 1
      /\ i.tok = o.tok + 2 /\ i.pos = o.pos /\ rd[o.tok + 1] \in Names /\ rd[i.tok] = "="
      /\ bytes = OperandCode("SETGLOBAL", Index[rd[o.tok + 1]])
  BY DEF StoreLink, Marks
<1>3. Value(Language[a], rd, cd, i.tok, n, i.pos, c, 1)  BY <1>2
<1>4. Value(Language[a], rd, cd2, i.tok, n, i.pos, c, 1)
  <2>1. 0 <= i.pos  BY <1>2
  <2>. QED  BY <1>1, <1>3, <2>1, KeepsValue
<1>5. Operand(Language[a], rd, cd2, o.tok, n, o.pos, r, 1)
  <2>1. Value(Language[a], rd, cd2, i.tok, n, o.pos, c, 1)  BY <1>2, <1>4
  <2>2. Seg(cd2, c, r) = OperandCode("SETGLOBAL", Index[rd[o.tok + 1]])  BY <1>1, <1>2
  <2>. QED  BY <1>1, <1>2, <2>1, <2>2, AssignOperand
<1>. QED  BY <1>2, <1>5

(* That of a prefix operator makes an operand.                             *)
LEMMA EmitUnary ==
  ASSUME NEW a, NEW rd, NEW cd, NEW cd2, NEW bytes, Emitted(a, rd, cd, cd2, bytes),
         NEW n, n = Len(rd) - 1, NEW c, c = Len(cd), NEW r, r = Len(cd2),
         NEW i \in Marks, NEW o \in Marks, UnaryLink(rd, bytes, i, o),
         Value(Language[a], rd, cd, i.tok, n, i.pos, c, i.level)
  PROVE  o.kind = "operand" /\ Operand(Language[a], rd, cd2, o.tok, n, o.pos, r, o.level)
<1>1. /\ Context(a, rd, cd2) /\ c <= r /\ r <= Len(cd2) /\ Seg(cd2, c, r) = bytes
      /\ c \in Nat /\ r \in Nat /\ Later(rd, cd, rd, cd2, 0, c) /\ c <= c
  BY EmittedIs
<1>2. /\ o.tok \in Nat /\ i.pos \in Nat /\ AsOperand(o) /\ i.tok = o.tok + 1 /\ i.pos = o.pos
      /\ rd[i.tok] \in UnaryTokens /\ i.level = Precedence(rd[i.tok]) + 1
      /\ bytes = UnaryBytes(rd[i.tok])
  BY DEF UnaryLink, Marks
<1>3. Value(Language[a], rd, cd2, i.tok, n, i.pos, c, i.level)
  <2>1. 0 <= i.pos  BY <1>2
  <2>. QED  BY <1>1, <2>1, KeepsValue
<1>4. /\ Value(Language[a], rd, cd2, o.tok + 1, n, o.pos, c, Precedence(rd[o.tok + 1]) + 1)
      /\ rd[o.tok + 1] \in UnaryTokens /\ Seg(cd2, c, r) = UnaryBytes(rd[o.tok + 1])
  BY <1>1, <1>2, <1>3
<1>5. o.kind = "operand" /\ o.level \in 1 .. 9  BY <1>2 DEF AsOperand
<1>. QED  BY <1>1, <1>2, <1>4, <1>5, UnaryOperand

(* That of a binary operator makes an operand.                             *)
LEMMA EmitBinary ==
  ASSUME NEW a, NEW rd, NEW cd, NEW cd2, NEW bytes, Emitted(a, rd, cd, cd2, bytes),
         NEW n, n = Len(rd) - 1, NEW c, c = Len(cd), NEW r, r = Len(cd2),
         NEW i \in Marks, NEW o \in Marks, BinaryLink(Language[a], rd, cd, bytes, i, o),
         Value(Language[a], rd, cd, i.tok, n, i.pos, c, i.level)
  PROVE  o.kind = "operand" /\ Operand(Language[a], rd, cd2, o.tok, n, o.pos, r, o.level)
<1>1. /\ Context(a, rd, cd2) /\ c <= r /\ r <= Len(cd2) /\ Seg(cd2, c, r) = bytes
      /\ c \in Nat /\ r \in Nat /\ Later(rd, cd, rd, cd2, 0, c) /\ c <= c
  BY EmittedIs
<1>2. /\ o.tok \in Nat /\ i.pos \in Nat /\ o.pos \in Nat /\ AsOperand(o)
      /\ rd[i.tok] \in BinaryTokens /\ i.level = Precedence(rd[i.tok]) + 1
      /\ o.level <= Precedence(rd[i.tok]) /\ bytes = BinaryBytes(rd[i.tok])
  BY DEF BinaryLink, Marks
<1>3. PICK k \in Nat :
        i.tok = k + 1 /\ Operand(Language[a], rd, cd, o.tok, k, o.pos, i.pos, o.level)
  BY DEF BinaryLink
<1>4. Value(Language[a], rd, cd2, i.tok, n, i.pos, c, i.level)
  <2>1. 0 <= i.pos  BY <1>2
  <2>. QED  BY <1>1, <2>1, KeepsValue
<1>5. Operand(Language[a], rd, cd2, o.tok, k, o.pos, i.pos, o.level)
  <2>1. Span(rd, cd, i.tok, n, i.pos, c)  BY DEF Value, Operand
  <2>2. 0 <= o.pos /\ i.pos <= c  BY <1>2, <2>1 DEF Span
  <2>. QED  BY <1>1, <1>3, <2>2, KeepsOperand
<1>6. /\ Value(Language[a], rd, cd2, k + 1, n, i.pos, c, Precedence(rd[k + 1]) + 1)
      /\ rd[k + 1] \in BinaryTokens /\ Seg(cd2, c, r) = BinaryBytes(rd[k + 1])
      /\ o.level <= Precedence(rd[k + 1])
  BY <1>1, <1>2, <1>3, <1>4
<1>7. o.kind = "operand" /\ o.level \in 1 .. 9  BY <1>2 DEF AsOperand
<1>. QED  BY <1>1, <1>5, <1>6, <1>7, BinaryOperand

(* That of a step makes an operand.                                        *)
LEMMA EmitPostfix ==
  ASSUME NEW a, NEW rd, NEW cd, NEW cd2, NEW bytes, Emitted(a, rd, cd, cd2, bytes),
         NEW n, n = Len(rd) - 1, NEW c, c = Len(cd), NEW r, r = Len(cd2),
         NEW i \in Marks, NEW o \in Marks, PostfixLink(Language[a], rd, cd, bytes, i, o),
         i.tok = n, i.pos = c
  PROVE  o.kind = "operand" /\ Operand(Language[a], rd, cd2, o.tok, n, o.pos, r, o.level)
<1>1. /\ Context(a, rd, cd2) /\ c <= r /\ r <= Len(cd2) /\ Seg(cd2, c, r) = bytes
      /\ c \in Nat /\ r \in Nat /\ Later(rd, cd, rd, cd2, 0, c) /\ c <= c /\ n < Len(rd)
  BY EmittedIs
<1>2. /\ o.tok \in Nat /\ o.pos \in Nat /\ o.kind = "operand" /\ o.level \in 1 .. 8
      /\ rd[n] \in {"INC", "DEC"} /\ bytes = StepBytes(rd[n])
  BY DEF PostfixLink, Marks
<1>3. PICK k \in Nat : n = k + 1 /\ Operand(Language[a], rd, cd, o.tok, k, o.pos, c, o.level)
  BY DEF PostfixLink
<1>5. Operand(Language[a], rd, cd2, o.tok, k, o.pos, c, o.level)
  <2>1. 0 <= o.pos  BY <1>2
  <2>. QED  BY <1>1, <1>3, <2>1, KeepsOperand
<1>6. rd[k + 1] \in {"INC", "DEC"} /\ Seg(cd2, c, r) = StepBytes(rd[k + 1])
  BY <1>1, <1>2, <1>3
<1>. QED  BY <1>1, <1>2, <1>3, <1>5, <1>6, PostfixOperand

(* That of a call makes an operand.                                        *)
LEMMA EmitCall ==
  ASSUME NEW a, NEW rd, NEW cd, NEW cd2, NEW bytes, Emitted(a, rd, cd, cd2, bytes),
         NEW n, n = Len(rd) - 1, NEW c, c = Len(cd), NEW r, r = Len(cd2),
         NEW i \in Marks, NEW o \in Marks, CallLink(Language[a], rd, cd, bytes, i, o),
         i.tok = n, i.pos = c
  PROVE  o.kind = "operand" /\ Operand(Language[a], rd, cd2, o.tok, n, o.pos, r, o.level)
<1>1. /\ Context(a, rd, cd2) /\ c <= r /\ r <= Len(cd2) /\ Seg(cd2, c, r) = bytes
      /\ c \in Nat /\ r \in Nat /\ Later(rd, cd, rd, cd2, 0, c) /\ c <= c /\ n < Len(rd)
  BY EmittedIs
<1>2. PICK p \in Nat, q \in Nat, k \in Nat, count \in Nat :
        /\ n = k + 1 /\ Callee(Language[a], rd, cd, o, p, q)
        /\ bytes = <<Opcode("CALL"), count>>
        /\ \/ count = 0 /\ k = p /\ c = q
           \/ count # 0 /\ Arguments(Language[a], rd, cd, p, k, q, c, count)
  BY DEF CallLink
<1>3. rd[n] = ")" /\ o.pos \in Nat  BY DEF CallLink, Marks
<1>4. /\ AsOperand(o) /\ rd[p] = "("
      /\ \E j \in Nat : p = j + 1 /\ Operand(Language[a], rd, cd, o.tok, j, o.pos, q, o.level)
  BY <1>2 DEF Callee
<1>5. PICK j \in Nat : p = j + 1 /\ Operand(Language[a], rd, cd, o.tok, j, o.pos, q, o.level)
  BY <1>4
<1>6. q <= c
  <2>1. Arguments(Language[a], rd, cd, p, k, q, c, count) => q <= c  BY DEF Arguments, Span
  <2>. QED  BY <1>1, <1>2, <2>1
<1>7. Operand(Language[a], rd, cd2, o.tok, j, o.pos, q, o.level)
  <2>1. 0 <= o.pos  BY <1>3
  <2>. QED  BY <1>1, <1>5, <1>6, <2>1, KeepsOperand
<1>8. \/ count = 0 /\ k = p /\ c = q
      \/ count # 0 /\ Arguments(Language[a], rd, cd2, p, k, q, c, count)
  <2>1. 0 <= q  OBVIOUS
  <2>2. Arguments(Language[a], rd, cd, p, k, q, c, count)
          => Arguments(Language[a], rd, cd2, p, k, q, c, count)
    BY <1>1, <2>1, KeepsArguments
  <2>. QED  BY <1>2, <2>2
<1>9. Seg(cd2, c, r) = <<Opcode("CALL"), count>>  BY <1>1, <1>2
<1>10. o.kind = "operand" /\ o.level \in 1 .. 9  BY <1>4 DEF AsOperand
<1>. QED  BY <1>1, <1>2, <1>3, <1>4, <1>5, <1>7, <1>8, <1>9, <1>10, CallOperand

(* That of an expression statement makes a statement, or the third part of *)
(* a for.                                                                  *)
LEMMA EmitStat ==
  ASSUME NEW a, NEW rd, NEW cd, NEW cd2, NEW bytes, Emitted(a, rd, cd, cd2, bytes),
         NEW n, n = Len(rd) - 1, NEW c, c = Len(cd), NEW r, r = Len(cd2), NEW pv,
         NEW i \in Marks, NEW o \in Marks, StatLink(Language[a], rd, cd, bytes, i, o),
         Value(Language[a], rd, cd, i.tok, n, i.pos, c, i.level)
  PROVE  Holds(Language[a], rd, cd2, pv, o)
<1>1. /\ Context(a, rd, cd2) /\ c <= r /\ r <= Len(cd2) /\ Seg(cd2, c, r) = bytes
      /\ c \in Nat /\ r \in Nat /\ Later(rd, cd, rd, cd2, 0, c) /\ c <= c
  BY EmittedIs
<1>2. /\ i.tok \in Nat /\ i.pos \in Nat /\ i.level = 1 /\ bytes = StatCode
      /\ \/ Wanted(Language[a], rd, cd, o, i.tok, i.pos)
         \/ o.kind = "increment" /\ SameStart(i, o)
  BY DEF StatLink, Marks
<1>3. Span(rd, cd, i.tok, n, i.pos, c) /\ i.pos <= c  BY DEF Value, Operand, Span
<1>4. Value(Language[a], rd, cd2, i.tok, n, i.pos, c, 1)
  <2>1. 0 <= i.pos /\ Value(Language[a], rd, cd, i.tok, n, i.pos, c, 1)  BY <1>2
  <2>. QED  BY <1>1, <2>1, KeepsValue
<1>5. Seg(cd2, c, r) = StatCode  BY <1>1, <1>2
<1>6. CASE Wanted(Language[a], rd, cd, o, i.tok, i.pos)
  <2>1. Wanted(Language[a], rd, cd2, o, i.tok, i.pos)
    <3>1. 0 = 0  OBVIOUS
    <3>. QED  BY <1>1, <1>3, <1>6, <3>1, KeepsWanted
  <2>2. Statement(Language[a], rd, cd2, i.tok, n, i.pos, r)
    BY <1>1, <1>4, <1>5, ExpressionStatement
  <2>. QED  BY <1>1, <2>1, <2>2, WantedFound
<1>7. CASE o.kind = "increment" /\ SameStart(i, o)
  <2>1. Span(rd, cd2, i.tok, n, i.pos, r)
    BY <1>1, <1>3 DEF Span
  <2>2. c \in i.pos .. r  BY <1>1, <1>2, <1>3
  <2>3. Increment(Language[a], rd, cd2, i.tok, n, i.pos, r)
    BY <1>4, <1>5, <2>1, <2>2 DEF Increment
  <2>4. Increment(Language[a], rd, cd2, o.tok, n, o.pos, r)
    BY <1>7, <2>3 DEF SameStart
  <2>5. o.kind = "increment"  BY <1>7
  <2>6. Parsed(Language[a], rd, cd2, pv, o, n, r)  BY <2>4, <2>5 DEF Parsed
  <2>. QED  BY <2>6 DEF Holds
<1>. QED  BY <1>2, <1>6, <1>7

(* That of print and return makes a statement.                             *)
LEMMA EmitKeyword ==
  ASSUME NEW a, NEW rd, NEW cd, NEW cd2, NEW bytes, Emitted(a, rd, cd, cd2, bytes),
         NEW n, n = Len(rd) - 1, NEW c, c = Len(cd), NEW r, r = Len(cd2), NEW pv,
         NEW i \in Marks, NEW o \in Marks, KeywordLink(Language[a], rd, cd, bytes, i, o),
         Value(Language[a], rd, cd, i.tok, n, i.pos, c, i.level)
  PROVE  Holds(Language[a], rd, cd2, pv, o)
<1>1. /\ Context(a, rd, cd2) /\ c <= r /\ r <= Len(cd2) /\ Seg(cd2, c, r) = bytes
      /\ c \in Nat /\ r \in Nat /\ Later(rd, cd, rd, cd2, 0, c) /\ c <= c
  BY EmittedIs
<1>2. /\ i.tok \in Nat /\ i.pos \in Nat /\ i.level = 1 /\ rd[i.tok] \in {"PRINT", "RETURN"}
      /\ bytes = <<Opcode(rd[i.tok])>>
  BY DEF KeywordLink, Marks
<1>3. PICK p \in Nat : i.tok = p + 1 /\ Wanted(Language[a], rd, cd, o, p, i.pos)
  BY DEF KeywordLink, Begun
<1>4. i.pos <= c  BY DEF Value, Operand, Span
<1>5. Value(Language[a], rd, cd2, i.tok, n, i.pos, c, 1)
  <2>1. 0 <= i.pos /\ Value(Language[a], rd, cd, i.tok, n, i.pos, c, 1)  BY <1>2
  <2>. QED  BY <1>1, <2>1, KeepsValue
<1>6. Wanted(Language[a], rd, cd2, o, p, i.pos)
  <2>1. 0 = 0  OBVIOUS
  <2>. QED  BY <1>1, <1>3, <1>4, <2>1, KeepsWanted
<1>7. Seg(cd2, c, r) = <<Opcode(rd[i.tok])>>  BY <1>1, <1>2
<1>8. Statement(Language[a], rd, cd2, p, n, i.pos, r)
  <2>. DEFINE k == i.tok
  <2>1. /\ k = p + 1 /\ rd[k] \in {"PRINT", "RETURN"}
        /\ Value(Language[a], rd, cd2, k, n, i.pos, c, 1)
        /\ Seg(cd2, c, r) = <<Opcode(rd[k])>>
    BY <1>2, <1>3, <1>5, <1>7
  <2>2. Context(a, rd, cd2) /\ r \in Nat /\ c <= r /\ r <= Len(cd2)  BY <1>1
  <2>. HIDE DEF k
  <2>. QED  BY ONLY <2>1, <2>2, p \in Nat, KeywordStatement
<1>. QED  BY <1>1, <1>6, <1>8, WantedFound

(* return loads void.                                                      *)
LEMMA EmitVoid ==
  ASSUME NEW a, NEW rd, NEW cd, NEW cd2, NEW bytes, Emitted(a, rd, cd, cd2, bytes),
         NEW n, n = Len(rd) - 1, NEW c, c = Len(cd), NEW r, r = Len(cd2), NEW pv,
         NEW i \in Marks, NEW o \in Marks, VoidLink(rd, bytes, i, o), i.tok = n, i.pos = c
  PROVE  Holds(Language[a], rd, cd2, pv, o)
<1>1. /\ Context(a, rd, cd2) /\ c <= r /\ r <= Len(cd2) /\ Seg(cd2, c, r) = bytes
      /\ c \in Nat /\ r \in Nat /\ n \in Nat /\ n < Len(rd)
  BY EmittedIs
<1>2. /\ o.tok \in Nat /\ o.pos = c /\ n = o.tok + 2 /\ o.kind = "void"
      /\ rd[o.tok + 1] = "RETURN" /\ rd[n] = "SEMICOLON" /\ bytes = ConstantCode(Index["void"])
  BY DEF VoidLink, Marks
<1>3. Span(rd, cd2, o.tok, n, o.pos, r)
  <2>1. o.tok <= n /\ o.pos <= r  BY <1>1, <1>2
  <2>. QED  BY <1>1, <1>2, <2>1 DEF Span
<1>4. Seg(cd2, o.pos, r) = ConstantCode(Index["void"])  BY <1>1, <1>2
<1>5. o.tok + 2 = n  BY <1>2
<1>6. Voided(rd, cd2, o, n, r)  BY <1>2, <1>3, <1>4, <1>5 DEF Voided
<1>7. o.kind = "void"  BY <1>2
<1>8. Parsed(Language[a], rd, cd2, pv, o, n, r)  BY <1>6, <1>7 DEF Parsed
<1>. QED  BY <1>8 DEF Holds

(* Then it returns: a statement.                                           *)
LEMMA EmitReturnVoid ==
  ASSUME NEW a, NEW rd, NEW cd, NEW cd2, NEW bytes, Emitted(a, rd, cd, cd2, bytes),
         NEW n, n = Len(rd) - 1, NEW c, c = Len(cd), NEW r, r = Len(cd2), NEW pv,
         NEW i \in Marks, NEW o \in Marks, ReturnVoidLink(Language[a], rd, cd, bytes, i, o),
         Voided(rd, cd, i, n, c)
  PROVE  Holds(Language[a], rd, cd2, pv, o)
<1>1. /\ Context(a, rd, cd2) /\ c <= r /\ r <= Len(cd2) /\ Seg(cd2, c, r) = bytes
      /\ c \in Nat /\ r \in Nat /\ Later(rd, cd, rd, cd2, 0, c) /\ c <= c
  BY EmittedIs
<1>2. /\ i.tok \in Nat /\ i.pos \in Nat /\ bytes = <<Opcode("RETURN")>>
      /\ Wanted(Language[a], rd, cd, o, i.tok, i.pos)
  BY DEF ReturnVoidLink, Marks
<1>3. /\ n = i.tok + 2 /\ Span(rd, cd, i.tok, n, i.pos, c)
      /\ rd[i.tok + 1] = "RETURN" /\ rd[n] = "SEMICOLON"
      /\ Seg(cd, i.pos, c) = ConstantCode(Index["void"])
  BY DEF Voided
<1>4. i.pos <= c  BY <1>3 DEF Span
<1>5. Span(rd, cd2, i.tok, n, i.pos, r)  BY <1>1, <1>3 DEF Span
<1>6. Seg(cd2, i.pos, c) = ConstantCode(Index["void"])
  <2>1. 0 <= i.pos  BY <1>2
  <2>2. Seg(cd2, i.pos, c) = Seg(cd, i.pos, c)  BY <1>1, <1>3, <2>1, LaterSpan
  <2>. QED  BY <1>3, <2>2
<1>7. Wanted(Language[a], rd, cd2, o, i.tok, i.pos)
  <2>1. 0 = 0  OBVIOUS
  <2>. QED  BY <1>1, <1>2, <1>4, <2>1, KeepsWanted
<1>8. Seg(cd2, c, r) = <<Opcode("RETURN")>>  BY <1>1, <1>2
<1>9. Statement(Language[a], rd, cd2, i.tok, n, i.pos, r)
  BY <1>1, <1>3, <1>4, <1>5, <1>6, <1>8, ReturnsVoid
<1>. QED  BY <1>1, <1>7, <1>9, WantedFound

(* What holds of a mark for an operand, a value, or for what is to come.   *)
LEMMA OperandHolds ==
  ASSUME NEW L, NEW rd, NEW cd, NEW pv, NEW o, o.kind = "operand",
         NEW n, n = Len(rd) - 1, NEW c, c = Len(cd),
         Operand(L, rd, cd, o.tok, n, o.pos, c, o.level)
  PROVE  Holds(L, rd, cd, pv, o)
<1>1. Parsed(L, rd, cd, pv, o, n, c)  BY DEF Parsed
<1>. QED  BY <1>1 DEF Holds

(* At a mark for this place nothing has been parsed.                       *)
LEMMA HereHeld ==
  ASSUME NEW L, NEW rd, NEW cd, NEW pv, NEW i, Holds(L, rd, cd, pv, i), i.kind = "here",
         NEW n, n = Len(rd) - 1, NEW c, c = Len(cd)
  PROVE  i.tok = n /\ i.pos = c
<1>1. Parsed(L, rd, cd, pv, i, n, c)  BY DEF Holds
<1>. QED  BY <1>1 DEF Parsed, InfixKinds

(* At a mark for a void return, void is loaded.                            *)
LEMMA VoidHeld ==
  ASSUME NEW L, NEW rd, NEW cd, NEW pv, NEW i, Holds(L, rd, cd, pv, i), i.kind = "void",
         NEW n, n = Len(rd) - 1, NEW c, c = Len(cd)
  PROVE  Voided(rd, cd, i, n, c)
<1>1. Parsed(L, rd, cd, pv, i, n, c)  BY DEF Holds
<1>. QED  BY <1>1 DEF Parsed, InfixKinds

(* Whatever is emitted, the mark below holds.                              *)
LEMMA MarkEmitted ==
  ASSUME NEW a, NEW rd, NEW cd, NEW cd2, NEW bytes, Emitted(a, rd, cd, cd2, bytes), NEW pv,
         NEW i \in Marks, NEW o \in Marks, EmitLink(Language[a], rd, cd, bytes, i, o),
         Holds(Language[a], rd, cd, pv, i)
  PROVE  Holds(Language[a], rd, cd2, pv, o)
<1>. DEFINE n == Len(rd) - 1
            c == Len(cd)
            r == Len(cd2)
<1>1. n = Len(rd) - 1 /\ c = Len(cd) /\ r = Len(cd2)  OBVIOUS
<1>. HIDE DEF n, c, r
<1>2. i.kind = "here" => i.tok = n /\ i.pos = c  BY <1>1, HereHeld
<1>3. i.kind = "value" => Value(Language[a], rd, cd, i.tok, n, i.pos, c, i.level)
  BY <1>1, ValueHeld
<1>4. CASE LoadLink(rd, bytes, i, o)
  <2>1. i.tok = n /\ i.pos = c  BY <1>2, <1>4 DEF LoadLink
  <2>. QED  BY <1>1, <1>4, <2>1, EmitLoad, OperandHolds
<1>5. CASE StoreLink(rd, bytes, i, o)
  <2>1. Value(Language[a], rd, cd, i.tok, n, i.pos, c, i.level)  BY <1>3, <1>5 DEF StoreLink
  <2>. QED  BY <1>1, <1>5, <2>1, EmitStore, OperandHolds
<1>6. CASE UnaryLink(rd, bytes, i, o)
  <2>1. Value(Language[a], rd, cd, i.tok, n, i.pos, c, i.level)  BY <1>3, <1>6 DEF UnaryLink
  <2>. QED  BY <1>1, <1>6, <2>1, EmitUnary, OperandHolds
<1>7. CASE BinaryLink(Language[a], rd, cd, bytes, i, o)
  <2>1. Value(Language[a], rd, cd, i.tok, n, i.pos, c, i.level)  BY <1>3, <1>7 DEF BinaryLink
  <2>. QED  BY <1>1, <1>7, <2>1, EmitBinary, OperandHolds
<1>8. CASE PostfixLink(Language[a], rd, cd, bytes, i, o)
  <2>1. i.tok = n /\ i.pos = c  BY <1>2, <1>8 DEF PostfixLink
  <2>. QED  BY <1>1, <1>8, <2>1, EmitPostfix, OperandHolds
<1>9. CASE CallLink(Language[a], rd, cd, bytes, i, o)
  <2>1. i.tok = n /\ i.pos = c  BY <1>2, <1>9 DEF CallLink
  <2>. QED  BY <1>1, <1>9, <2>1, EmitCall, OperandHolds
<1>10. CASE StatLink(Language[a], rd, cd, bytes, i, o)
  <2>1. Value(Language[a], rd, cd, i.tok, n, i.pos, c, i.level)  BY <1>3, <1>10 DEF StatLink
  <2>. QED  BY <1>1, <1>10, <2>1, EmitStat
<1>11. CASE KeywordLink(Language[a], rd, cd, bytes, i, o)
  <2>1. Value(Language[a], rd, cd, i.tok, n, i.pos, c, i.level)  BY <1>3, <1>11 DEF KeywordLink
  <2>. QED  BY <1>1, <1>11, <2>1, EmitKeyword
<1>12. CASE VoidLink(rd, bytes, i, o)
  <2>1. i.tok = n /\ i.pos = c  BY <1>2, <1>12 DEF VoidLink
  <2>. QED  BY <1>1, <1>12, <2>1, EmitVoid
<1>13. CASE ReturnVoidLink(Language[a], rd, cd, bytes, i, o)
  <2>0. i.kind = "void"  BY <1>13 DEF ReturnVoidLink
  <2>1. Voided(rd, cd, i, n, c)  BY <1>1, <2>0, VoidHeld
  <2>. QED  BY <1>1, <1>13, <2>1, EmitReturnVoid
<1>. QED
  BY <1>4, <1>5, <1>6, <1>7, <1>8, <1>9, <1>10, <1>11, <1>12, <1>13 DEF EmitLink

(* Code to be emitted.                                                     *)
LEMMA MarkEmit ==
  ASSUME NEW a, NEW rd, NEW cd, NEW pv, NEW e, NEW i, NEW o, NEW rest,
         Stage(a, rd, cd, pv, e, i, o, rest), e.do = "emit", e.bytes \in Seq(Bytes),
         NEW cd2, cd2 = cd \o e.bytes
  PROVE  Marked(Language[a], rd, cd2, pv, <<>> \o rest)
<1>. DEFINE n == Len(rd) - 1
            c == Len(cd)
            r == Len(cd2)
            bytes == e.bytes
<1>1. n = Len(rd) - 1 /\ c = Len(cd) /\ r = Len(cd2) /\ bytes = e.bytes  OBVIOUS
<1>. HIDE DEF n, c, r, bytes
<1>2. /\ Context(a, rd, cd) /\ Holds(Language[a], rd, cd, pv, i)
      /\ Linked(Language[a], rd, cd, e, i, o) /\ i \in Marks /\ o \in Marks
  BY <1>1, StageIs
<1>3. cd \in Seq(Bytes) /\ bytes \in Seq(Bytes) /\ cd2 = cd \o bytes
  BY <1>1, <1>2 DEF Context
<1>4. Longer(cd, cd2) /\ c <= r /\ Seg(cd2, c, r) = bytes
  <2>1. /\ Longer(cd, cd \o bytes) /\ Len(cd) <= Len(cd \o bytes)
        /\ Seg(cd \o bytes, Len(cd), Len(cd \o bytes)) = bytes
    BY <1>3, AfterBytes
  <2>2. c = Len(cd) /\ r = Len(cd2) /\ cd2 = cd \o bytes  BY <1>1
  <2>. QED  BY <2>1, <2>2, Zenon
<1>5. /\ Context(a, rd, cd2) /\ Later(rd, cd, rd, cd2, 0, c)
      /\ Under(Language[a], rd, cd2, rest, o)
  BY <1>1, <1>4, AfterEmit
<1>6. Emitted(a, rd, cd, cd2, bytes)  BY <1>1, <1>2, <1>4, <1>5 DEF Emitted
<1>7. EmitLink(Language[a], rd, cd, bytes, i, o)  BY <1>1, <1>2, LinkIs
<1>8. Holds(Language[a], rd, cd2, pv, o)  BY <1>2, <1>6, <1>7, MarkEmitted
<1>. QED  BY <1>2, <1>5, <1>8, PushNothing

(* One more token is read: what was parsed still is.                       *)
Read(a, rd, cd, rd2, n, m, c) ==
  /\ Context(a, rd2, cd) /\ Later(rd, cd, rd2, cd, 0, c)
  /\ n \in Nat /\ c \in Nat /\ m = n + 1 /\ m \in Nat
  /\ n = Len(rd) - 1 /\ c = Len(cd) /\ m = Len(rd2) - 1 /\ m < Len(rd2)
  /\ rd2[m] = rd[m]

(* All that is known when a token is read.                                 *)
LEMMA ReadIs ==
  ASSUME NEW a, NEW rd, NEW cd, NEW pv, NEW e, NEW i, NEW o, NEW rest,
         NEW rd2, NEW n, NEW m, NEW c,
         Stage(a, rd, cd, pv, e, i, o, rest), ReadOn(a, rd, cd, rd2),
         n = Len(rd) - 1, c = Len(cd), m = n + 1
  PROVE  /\ Read(a, rd, cd, rd2, n, m, c) /\ m = Len(rd)
         /\ Context(a, rd2, cd) /\ Under(Language[a], rd2, cd, rest, o)
         /\ n \in Nat /\ m \in Nat /\ c \in Nat
<1>1. /\ m = Len(rd2) - 1 /\ m \in Nat /\ m < Len(rd2) /\ m = Len(rd)
      /\ \A k \in 1 .. m : rd2[k] = rd[k]
      /\ Context(a, rd2, cd) /\ Later(rd, cd, rd2, cd, 0, c)
      /\ Under(Language[a], rd2, cd, rest, o)
  BY AfterRead
<1>2. n \in Nat /\ c \in Nat  BY StageIs
<1>3. m \in 1 .. m  BY <1>1, <1>2
<1>4. rd2[m] = rd[m]  BY <1>1, <1>3
<1>. QED  BY <1>1, <1>2, <1>4 DEF Read

(* A statement stays wanted when a token is read.                          *)
LEMMA ReadWanted ==
  ASSUME NEW a, NEW rd, NEW cd, NEW rd2, NEW n, NEW m, NEW c, NEW o, NEW p, NEW q,
         Read(a, rd, cd, rd2, n, m, c), Wanted(Language[a], rd, cd, o, p, q), q <= c
  PROVE  Wanted(Language[a], rd2, cd, o, p, q)
<1>1. Later(rd, cd, rd2, cd, 0, c) /\ 0 = 0  BY DEF Read
<1>. QED  BY <1>1, KeepsWanted

(* The tokens stay when another one is read.                               *)
LEMMA ReadToken ==
  ASSUME NEW a, NEW rd, NEW cd, NEW rd2, NEW n, NEW m, NEW c, NEW k,
         Read(a, rd, cd, rd2, n, m, c), k \in Nat, k # 0, k <= m
  PROVE  rd2[k] = rd[k]
<1>1. Later(rd, cd, rd2, cd, 0, c) /\ k <= Len(rd)  BY DEF Read
<1>. QED  BY <1>1, LaterToken

(* What was parsed up to the token that is read now.                       *)
LEMMA ReadValue ==
  ASSUME NEW a, NEW rd, NEW cd, NEW rd2, NEW n, NEW m, NEW c, NEW p, NEW q, NEW level,
         Read(a, rd, cd, rd2, n, m, c), Value(Language[a], rd, cd, p, n, q, c, level)
  PROVE  /\ Value(Language[a], rd2, cd, p, n, q, c, level)
         /\ Span(rd2, cd, p, m, q, c) /\ p < m /\ p <= n /\ p \in Nat /\ q \in Nat /\ q <= c
<1>1. Span(rd, cd, p, n, q, c)  BY DEF Value, Operand
<1>2. /\ p \in Nat /\ q \in Nat /\ p <= n /\ q <= c /\ c <= Len(cd)  BY <1>1 DEF Span
<1>3. /\ Later(rd, cd, rd2, cd, 0, c) /\ 0 <= q /\ c <= c /\ n \in Nat /\ c \in Nat
      /\ m = n + 1 /\ m < Len(rd2)
  BY <1>2 DEF Read
<1>4. Value(Language[a], rd2, cd, p, n, q, c, level)  BY <1>3, KeepsValue
<1>5. p < m /\ p <= m /\ m \in Nat  BY <1>2, <1>3
<1>6. Span(rd2, cd, p, m, q, c)  BY <1>2, <1>3, <1>5 DEF Span
<1>. QED  BY <1>2, <1>4, <1>5, <1>6

(* The statement parsed stays one.                                         *)
LEMMA ReadStatement ==
  ASSUME NEW a, NEW rd, NEW cd, NEW rd2, NEW n, NEW m, NEW c, NEW p, NEW q,
         Read(a, rd, cd, rd2, n, m, c), Statement(Language[a], rd, cd, p, n, q, c)
  PROVE  /\ Statement(Language[a], rd2, cd, p, n, q, c)
         /\ Span(rd2, cd, p, m, q, c) /\ p < m /\ p < n /\ p \in Nat /\ q \in Nat /\ q <= c
<1>1. Span(rd, cd, p, n, q, c) /\ p < n  BY DEF Statement
<1>2. /\ p \in Nat /\ q \in Nat /\ p <= n /\ q <= c /\ c <= Len(cd)  BY <1>1 DEF Span
<1>3. /\ Later(rd, cd, rd2, cd, 0, c) /\ 0 <= q /\ c <= c /\ n \in Nat /\ c \in Nat
      /\ m = n + 1 /\ m < Len(rd2)
  BY <1>2 DEF Read
<1>4. Statement(Language[a], rd2, cd, p, n, q, c)  BY <1>3, KeepsStatement
<1>5. p < m /\ p <= m /\ m \in Nat  BY <1>2, <1>3
<1>6. Span(rd2, cd, p, m, q, c)  BY <1>2, <1>3, <1>5 DEF Span
<1>. QED  BY <1>1, <1>2, <1>4, <1>5, <1>6

(* The statements parsed stay a list.                                      *)
LEMMA ReadList ==
  ASSUME NEW a, NEW rd, NEW cd, NEW rd2, NEW n, NEW m, NEW c, NEW p, NEW q,
         Read(a, rd, cd, rd2, n, m, c), List(Language[a], rd, cd, p, n, q, c)
  PROVE  /\ List(Language[a], rd2, cd, p, n, q, c)
         /\ Span(rd2, cd, p, m, q, c) /\ p < m /\ p \in Nat /\ q \in Nat /\ q <= c
<1>1. Span(rd, cd, p, n, q, c)  BY DEF List
<1>2. /\ p \in Nat /\ q \in Nat /\ p <= n /\ q <= c /\ c <= Len(cd)  BY <1>1 DEF Span
<1>3. /\ Later(rd, cd, rd2, cd, 0, c) /\ 0 <= q /\ c <= c /\ n \in Nat /\ c \in Nat
      /\ m = n + 1 /\ m < Len(rd2)
  BY <1>2 DEF Read
<1>4. List(Language[a], rd2, cd, p, n, q, c)  BY <1>3, KeepsList
<1>5. p < m /\ p <= m /\ m \in Nat  BY <1>2, <1>3
<1>6. Span(rd2, cd, p, m, q, c)  BY <1>2, <1>3, <1>5 DEF Span
<1>. QED  BY <1>2, <1>4, <1>5, <1>6

(* What holds of the other marks. *)
LEMMA StmtHeld ==
  ASSUME NEW L, NEW rd, NEW cd, NEW pv, NEW i, NEW n, NEW c,
         Holds(L, rd, cd, pv, i), n = Len(rd) - 1, c = Len(cd)
  PROVE  /\ i.kind = "stmt" => Statement(L, rd, cd, i.tok, n, i.pos, c)
         /\ i.kind = "list" => List(L, rd, cd, i.tok, n, i.pos, c)
<1>1. Parsed(L, rd, cd, pv, i, n, c)  BY DEF Holds
<1>. QED  BY <1>1 DEF Parsed, InfixKinds

(* What has been parsed at the marks for the parts of a for.               *)
LEMMA PartHeld ==
  ASSUME NEW L, NEW rd, NEW cd, NEW pv, NEW i, NEW n, NEW c,
         Holds(L, rd, cd, pv, i), n = Len(rd) - 1, c = Len(cd)
  PROVE  /\ i.kind = "init" => Initial(L, rd, cd, i.tok, n, i.pos, c)
         /\ i.kind = "cond" => Condition(L, rd, cd, i.tok, n, i.pos, c)
         /\ i.kind = "increment" => Increment(L, rd, cd, i.tok, n, i.pos, c)
         /\ i.kind = "body" => Body(L, rd, cd, i.tok, n, i.pos, c)
<1>1. Parsed(L, rd, cd, pv, i, n, c)  BY DEF Holds
<1>. QED  BY <1>1 DEF Parsed, InfixKinds

(* What must have been parsed for a mark to hold.                          *)
LEMMA PartHolds ==
  ASSUME NEW L, NEW rd, NEW cd, NEW pv, NEW o, NEW n, NEW c, n = Len(rd) - 1, c = Len(cd),
         \/ o.kind = "init" /\ Initial(L, rd, cd, o.tok, n, o.pos, c)
         \/ o.kind = "cond" /\ Condition(L, rd, cd, o.tok, n, o.pos, c)
         \/ o.kind = "increment" /\ Increment(L, rd, cd, o.tok, n, o.pos, c)
         \/ o.kind = "body" /\ Body(L, rd, cd, o.tok, n, o.pos, c)
         \/ o.kind = "list" /\ List(L, rd, cd, o.tok, n, o.pos, c)
  PROVE  Holds(L, rd, cd, pv, o)
<1>1. Parsed(L, rd, cd, pv, o, n, c)  BY DEF Parsed
<1>. QED  BY <1>1 DEF Holds

(* The token behind a phrase in parentheses, a part of for, or a block.    *)
LEMMA ConsumeGroup ==
  ASSUME NEW a, NEW rd, NEW cd, NEW pv, NEW rd2, NEW n, NEW m, NEW c, NEW i, NEW o,
         Read(a, rd, cd, rd2, n, m, c), i \in Marks, o \in Marks,
         Holds(Language[a], rd, cd, pv, i), GroupLink(rd, i, o), rd2[m] = ")"
  PROVE  o.kind = "operand" /\ Operand(Language[a], rd2, cd, o.tok, m, o.pos, c, o.level)
<1>1. /\ i.kind = "value" /\ i.level = 1 /\ o.kind = "operand" /\ o.level \in 1 .. 9
      /\ i.tok = o.tok + 1 /\ i.pos = o.pos /\ rd[i.tok] = "("
  BY DEF GroupLink, AsOperand
<1>2. n = Len(rd) - 1 /\ c = Len(cd) /\ Context(a, rd2, cd) /\ m = n + 1 /\ m < Len(rd2)
  BY DEF Read
<1>3. Value(Language[a], rd, cd, i.tok, n, i.pos, c, i.level)  BY <1>1, <1>2, ValueHeld
<1>4. Value(Language[a], rd, cd, i.tok, n, i.pos, c, 1)  BY <1>1, <1>3
<1>5. /\ Value(Language[a], rd2, cd, i.tok, n, i.pos, c, 1)
      /\ i.tok \in Nat /\ i.tok < m
  BY <1>4, ReadValue
<1>6. o.tok \in Nat  BY DEF Marks
<1>7. rd2[i.tok] = "("
  <2>1. i.tok # 0 /\ i.tok <= m  BY <1>1, <1>2, <1>5, <1>6 DEF Read
  <2>2. rd2[i.tok] = rd[i.tok]  BY <1>5, <2>1, ReadToken
  <2>. QED  BY <1>1, <2>2
<1>8. rd2[n + 1] = ")"  BY <1>2
<1>9. Operand(Language[a], rd2, cd, o.tok, m, i.pos, c, o.level)
  BY <1>1, <1>2, <1>5, <1>6, <1>7, <1>8, GroupOperand
<1>. QED  BY <1>1, <1>9

(* The semicolon behind the first part of a for.                           *)
LEMMA ConsumeInit ==
  ASSUME NEW a, NEW rd, NEW cd, NEW pv, NEW rd2, NEW n, NEW m, NEW c, NEW i, NEW o,
         Read(a, rd, cd, rd2, n, m, c), i \in Marks, o \in Marks,
         Holds(Language[a], rd, cd, pv, i), InitLink(rd, i, o), rd2[m] = "SEMICOLON"
  PROVE  o.kind = "init" /\ Initial(Language[a], rd2, cd, o.tok, m, o.pos, c)
<1>1. /\ i.kind = "stmt" /\ o.kind = "init" /\ i.tok = o.tok /\ i.pos = o.pos
      /\ rd[i.tok + 1] # "SEMICOLON"
  BY DEF InitLink, SameStart
<1>2. n = Len(rd) - 1 /\ c = Len(cd) /\ m = n + 1 /\ n \in Nat  BY DEF Read
<1>3. Statement(Language[a], rd, cd, i.tok, n, i.pos, c)  BY <1>1, <1>2, StmtHeld
<1>4. /\ Statement(Language[a], rd2, cd, i.tok, n, i.pos, c)
      /\ Span(rd2, cd, i.tok, m, i.pos, c) /\ i.tok < m /\ i.tok < n /\ i.tok \in Nat
  BY <1>3, ReadStatement
<1>5. rd2[i.tok + 1] # "SEMICOLON"
  <2>1. PICK k \in Nat : k = i.tok + 1  BY <1>4
  <2>2. k # 0 /\ k <= m  BY <1>2, <1>4, <2>1
  <2>3. rd2[k] = rd[k]  BY <2>2, ReadToken
  <2>4. rd[k] # "SEMICOLON"  BY <1>1, <2>1
  <2>. QED  BY <2>1, <2>3, <2>4
<1>6. m - 1 = n  BY <1>2
<1>7. Initial(Language[a], rd2, cd, i.tok, m, i.pos, c)
  BY <1>4, <1>5, <1>6 DEF Initial
<1>. QED  BY <1>1, <1>7

(* The semicolon behind the second part.                                   *)
LEMMA ConsumeCondition ==
  ASSUME NEW a, NEW rd, NEW cd, NEW pv, NEW rd2, NEW n, NEW m, NEW c, NEW i, NEW o,
         Read(a, rd, cd, rd2, n, m, c), i \in Marks, o \in Marks,
         Holds(Language[a], rd, cd, pv, i), CondLink(i, o), rd2[m] = "SEMICOLON"
  PROVE  o.kind = "cond" /\ Condition(Language[a], rd2, cd, o.tok, m, o.pos, c)
<1>1. /\ i.kind = "value" /\ i.level = 1 /\ o.kind = "cond" /\ i.tok = o.tok /\ i.pos = o.pos
  BY DEF CondLink, SameStart
<1>2. n = Len(rd) - 1 /\ c = Len(cd) /\ m = n + 1 /\ n \in Nat  BY DEF Read
<1>3. Value(Language[a], rd, cd, i.tok, n, i.pos, c, i.level)  BY <1>1, <1>2, ValueHeld
<1>4. Value(Language[a], rd, cd, i.tok, n, i.pos, c, 1)  BY <1>1, <1>3
<1>5. /\ Value(Language[a], rd2, cd, i.tok, n, i.pos, c, 1)
      /\ Span(rd2, cd, i.tok, m, i.pos, c) /\ i.tok < m
  BY <1>4, ReadValue
<1>6. m - 1 = n  BY <1>2
<1>7. Condition(Language[a], rd2, cd, i.tok, m, i.pos, c)
  BY <1>5, <1>6 DEF Condition
<1>. QED  BY <1>1, <1>7

(* The brace that closes a block, or the body of a for.                    *)
LEMMA ConsumeBlock ==
  ASSUME NEW a, NEW rd, NEW cd, NEW pv, NEW rd2, NEW n, NEW m, NEW c, NEW i, NEW o, NEW t,
         Read(a, rd, cd, rd2, n, m, c), i \in Marks, o \in Marks,
         Holds(Language[a], rd, cd, pv, i), BlockLink(Language[a], rd, cd, i, o),
         rd2[m] = "RBRACE"
  PROVE  Holds(Language[a], rd2, cd, t, o)
<1>1. i.kind = "list"  BY DEF BlockLink
<1>2. /\ n = Len(rd) - 1 /\ c = Len(cd) /\ m = n + 1 /\ n \in Nat /\ Context(a, rd2, cd)
      /\ m = Len(rd2) - 1 /\ m < Len(rd2)
  BY DEF Read
<1>3. List(Language[a], rd, cd, i.tok, n, i.pos, c)  BY <1>1, <1>2, StmtHeld
<1>4. /\ List(Language[a], rd2, cd, i.tok, n, i.pos, c)
      /\ Span(rd2, cd, i.tok, m, i.pos, c) /\ i.tok < m /\ i.tok \in Nat /\ i.pos \in Nat
      /\ i.pos <= c
  BY <1>3, ReadList
<1>5. m - 1 = n /\ m \in Nat  BY <1>2
<1>6. CASE o.kind = "body" /\ i.tok = o.tok + 1 /\ i.pos = o.pos
  <2>1. o.tok \in Nat /\ o.tok + 1 < m /\ o.tok <= m  BY <1>4, <1>5, <1>6 DEF Marks
  <2>2. Span(rd2, cd, o.tok, m, o.pos, c)  BY <1>4, <1>6, <2>1 DEF Span
  <2>3. List(Language[a], rd2, cd, o.tok + 1, m - 1, o.pos, c)  BY <1>4, <1>5, <1>6
  <2>4. Body(Language[a], rd2, cd, o.tok, m, o.pos, c)  BY <2>1, <2>2, <2>3 DEF Body
  <2>. QED  BY <1>2, <1>6, <2>4, PartHolds
<1>7. CASE Begun(Language[a], rd, cd, o, "LBRACE", i.tok, i.pos)
  <2>1. PICK p \in Nat : i.tok = p + 1 /\ rd[i.tok] = "LBRACE"
                         /\ Wanted(Language[a], rd, cd, o, p, i.pos)
    BY <1>7 DEF Begun
  <2>2. Wanted(Language[a], rd2, cd, o, p, i.pos)  BY <1>4, <2>1, ReadWanted
  <2>3. rd2[i.tok] = "LBRACE"
    <3>1. i.tok # 0 /\ i.tok <= m  BY <1>4, <1>5, <2>1
    <3>2. rd2[i.tok] = rd[i.tok]  BY <1>4, <3>1, ReadToken
    <3>. QED  BY <2>1, <3>2
  <2>4. Statement(Language[a], rd2, cd, p, m, i.pos, c)
    BY <1>2, <1>4, <2>1, <2>3, BlockStatement
  <2>. QED  BY <1>2, <2>2, <2>4, WantedFound
<1>. QED  BY <1>6, <1>7 DEF BlockLink

(* A token to be consumed.                                                 *)
LEMMA MarkConsume ==
  ASSUME NEW a, NEW rd, NEW cd, NEW pv, NEW e, NEW i, NEW o, NEW rest, NEW rd2, NEW t,
         Stage(a, rd, cd, pv, e, i, o, rest), e.do = "consume",
         ReadOn(a, rd, cd, rd2), t = rd[Len(rd)], t = e.token
  PROVE  Marked(Language[a], rd2, cd, t, <<>> \o rest)
<1>. DEFINE n == Len(rd) - 1
            c == Len(cd)
            m == n + 1
<1>1. n = Len(rd) - 1 /\ c = Len(cd) /\ m = n + 1  OBVIOUS
<1>. HIDE DEF n, c, m
<1>2. /\ i \in Marks /\ o \in Marks /\ Holds(Language[a], rd, cd, pv, i)
      /\ Linked(Language[a], rd, cd, e, i, o)
  BY <1>1, StageIs
<1>3. /\ Read(a, rd, cd, rd2, n, m, c) /\ m = Len(rd) /\ Under(Language[a], rd2, cd, rest, o)
  BY <1>1, ReadIs
<1>4. rd2[m] = t /\ m = Len(rd2) - 1  BY <1>3 DEF Read
<1>5. ConsumeLink(Language[a], rd, cd, t, i, o)  BY <1>2, LinkIs
<1>6. Holds(Language[a], rd2, cd, t, o)
  <2>1. CASE t = ")" /\ GroupLink(rd, i, o)
    <3>1. rd2[m] = ")"  BY <1>4, <2>1
    <3>2. o.kind = "operand" /\ Operand(Language[a], rd2, cd, o.tok, m, o.pos, c, o.level)
      BY <1>2, <1>3, <2>1, <3>1, ConsumeGroup
    <3>. QED  BY <1>1, <1>4, <3>2, OperandHolds
  <2>2. CASE t = "SEMICOLON" /\ InitLink(rd, i, o)
    <3>1. rd2[m] = "SEMICOLON"  BY <1>4, <2>2
    <3>2. o.kind = "init" /\ Initial(Language[a], rd2, cd, o.tok, m, o.pos, c)
      BY <1>2, <1>3, <2>2, <3>1, ConsumeInit
    <3>. QED  BY <1>1, <1>4, <3>2, PartHolds
  <2>3. CASE t = "SEMICOLON" /\ CondLink(i, o)
    <3>1. rd2[m] = "SEMICOLON"  BY <1>4, <2>3
    <3>2. o.kind = "cond" /\ Condition(Language[a], rd2, cd, o.tok, m, o.pos, c)
      BY <1>2, <1>3, <2>3, <3>1, ConsumeCondition
    <3>. QED  BY <1>1, <1>4, <3>2, PartHolds
  <2>4. CASE t = "RBRACE" /\ BlockLink(Language[a], rd, cd, i, o)
    <3>1. rd2[m] = "RBRACE"  BY <1>4, <2>4
    <3>. QED  BY <1>2, <1>3, <2>4, <3>1, ConsumeBlock
  <2>. QED  BY <1>5, <2>1, <2>2, <2>3, <2>4 DEF ConsumeLink
<1>. QED  BY <1>2, <1>3, <1>6, PushNothing

(* The stage with the number of tokens behind and of bytes, and with those *)
(* when a token is read.                                                   *)
StageAt(a, rd, cd, pv, e, i, o, rest, n, c) ==
  Stage(a, rd, cd, pv, e, i, o, rest) /\ n = Len(rd) - 1 /\ c = Len(cd)
StageRead(a, rd, cd, pv, e, i, o, rest, rd2, n, m, c) ==
  /\ Stage(a, rd, cd, pv, e, i, o, rest) /\ ReadOn(a, rd, cd, rd2)
  /\ n = Len(rd) - 1 /\ c = Len(cd) /\ m = n + 1

(* A statement is wanted here; its keyword is read, or not. *)
LEMMA StmtHere ==
  ASSUME NEW a, NEW rd, NEW cd, NEW pv, NEW e, NEW i, NEW o, NEW rest, NEW n, NEW c,
         StageAt(a, rd, cd, pv, e, i, o, rest, n, c), e.do = "stmt"
  PROVE  /\ Wanted(Language[a], rd, cd, o, n, c) /\ o \in Marks /\ n \in Nat /\ c \in Nat
         /\ n + 1 = Len(rd) /\ o.tok <= n /\ o.pos <= c /\ o.tok \in Nat /\ o.pos \in Nat
         /\ Context(a, rd, cd) /\ Under(Language[a], rd, cd, rest, o)
<1>1. /\ Context(a, rd, cd) /\ o \in Marks /\ Holds(Language[a], rd, cd, pv, i)
      /\ Linked(Language[a], rd, cd, e, i, o) /\ Under(Language[a], rd, cd, rest, o)
      /\ n \in Nat /\ c \in Nat /\ n + 1 = Len(rd)
      /\ o.tok \in Nat /\ o.pos \in Nat /\ o.tok <= n /\ o.pos <= c
      /\ n = Len(rd) - 1 /\ c = Len(cd)
  BY StageIs DEF StageAt
<1>2. i.kind = "here" /\ Wanted(Language[a], rd, cd, o, i.tok, i.pos)
  BY <1>1, LinkIs DEF StmtLink
<1>3. i.tok = n /\ i.pos = c  BY <1>1, <1>2, HereHeld
<1>. QED  BY <1>1, <1>2, <1>3

(* A statement begins with a keyword.                                      *)
LEMMA StmtBegins ==
  ASSUME NEW a, NEW rd, NEW cd, NEW pv, NEW e, NEW i, NEW o, NEW rest, NEW n, NEW c,
         NEW rd2, NEW m,
         StageRead(a, rd, cd, pv, e, i, o, rest, rd2, n, m, c), e.do = "stmt"
  PROVE  /\ Begun(Language[a], rd2, cd, o, rd[m], m, c) /\ Wanted(Language[a], rd2, cd, o, n, c)
         /\ n \in Nat /\ m \in Nat /\ c \in Nat
         /\ m = Len(rd2) - 1 /\ m < Len(rd2) /\ rd2[m] = rd[m] /\ m = Len(rd) /\ o \in Marks
         /\ o.tok <= n /\ o.tok <= m /\ o.pos <= c /\ o.tok \in Nat /\ o.pos \in Nat
         /\ Context(a, rd2, cd) /\ Under(Language[a], rd2, cd, rest, o)
<1>1. /\ Wanted(Language[a], rd, cd, o, n, c) /\ o \in Marks /\ n \in Nat /\ c \in Nat
      /\ o.tok <= n /\ o.pos <= c /\ o.tok \in Nat /\ o.pos \in Nat
  <2>. StageAt(a, rd, cd, pv, e, i, o, rest, n, c)  BY DEF StageRead, StageAt
  <2>. QED  BY StmtHere
<1>2. /\ Read(a, rd, cd, rd2, n, m, c) /\ m = Len(rd) /\ m \in Nat
      /\ Context(a, rd2, cd) /\ Under(Language[a], rd2, cd, rest, o)
  BY ReadIs DEF StageRead
<1>3. rd2[m] = rd[m] /\ m = Len(rd2) - 1 /\ m < Len(rd2)  BY <1>2 DEF Read
<1>4. Wanted(Language[a], rd2, cd, o, n, c)
  <2>1. c <= c  BY <1>1
  <2>. QED  BY <1>1, <1>2, <2>1, ReadWanted
<1>7. m = n + 1  BY DEF StageRead
<1>5. Begun(Language[a], rd2, cd, o, rd[m], m, c)
  <2>1. m - 1 = n  BY <1>1, <1>7
  <2>. QED  BY <1>1, <1>2, <1>3, <1>4, <1>7, <2>1 DEF Begun
<1>6. o.tok <= m  BY <1>1, <1>7
<1>. QED  BY <1>1, <1>2, <1>3, <1>4, <1>5, <1>6

(* A lone semicolon or `bind`.                                             *)
LEMMA MarkSkip ==
  ASSUME NEW a, NEW rd, NEW cd, NEW pv, NEW e, NEW i, NEW o, NEW rest, NEW rd2, NEW t,
         Stage(a, rd, cd, pv, e, i, o, rest), e.do = "stmt",
         ReadOn(a, rd, cd, rd2), t = rd[Len(rd)], t \in {"SEMICOLON", "BIND"}
  PROVE  Marked(Language[a], rd2, cd, t, <<>> \o rest)
<1>. DEFINE n == Len(rd) - 1
            c == Len(cd)
            m == n + 1
<1>1. n = Len(rd) - 1 /\ c = Len(cd) /\ m = n + 1  OBVIOUS
<1>9. StageRead(a, rd, cd, pv, e, i, o, rest, rd2, n, m, c)  BY DEF StageRead
<1>. HIDE DEF n, c, m
<1>2. /\ Wanted(Language[a], rd2, cd, o, n, c) /\ n \in Nat /\ m \in Nat /\ c \in Nat
      /\ m = Len(rd2) - 1 /\ m < Len(rd2) /\ rd2[m] = rd[m] /\ m = Len(rd) /\ o \in Marks
      /\ Context(a, rd2, cd) /\ Under(Language[a], rd2, cd, rest, o)
  BY <1>9, StmtBegins
<1>3. Span(rd2, cd, n, m, c, c)
  <2>1. n <= m /\ c <= c /\ c <= Len(cd)  BY <1>1, <1>2
  <2>. QED  BY <1>2, <2>1 DEF Span
<1>4. rd2[m] \in {"SEMICOLON", "BIND"}  BY <1>2
<1>5. Statement(Language[a], rd2, cd, n, m, c, c)
  BY <1>1, <1>2, <1>3, <1>4, SkippedStatement
<1>6. Holds(Language[a], rd2, cd, t, o)  BY <1>1, <1>2, <1>5, WantedFound
<1>. QED  BY <1>2, <1>6, PushNothing

(* return.                                                                 *)
LEMMA MarkReturn ==
  ASSUME NEW a, NEW rd, NEW cd, NEW pv, NEW e, NEW i, NEW o, NEW rest, NEW rd2, NEW t, NEW f,
         Stage(a, rd, cd, pv, e, i, o, rest), e.do = "stmt",
         ReadOn(a, rd, cd, rd2), t = rd[Len(rd)], t = "RETURN", f.do = "return"
  PROVE  Marked(Language[a], rd2, cd, t, <<f>> \o rest)
<1>. DEFINE n == Len(rd) - 1
            c == Len(cd)
            m == n + 1
            L == Language[a]
<1>1. n = Len(rd) - 1 /\ c = Len(cd) /\ m = n + 1  OBVIOUS
<1>9. StageRead(a, rd, cd, pv, e, i, o, rest, rd2, n, m, c)  BY DEF StageRead
<1>. HIDE DEF n, c, m
<1>2. /\ Wanted(L, rd2, cd, o, n, c) /\ n \in Nat /\ m \in Nat /\ c \in Nat
      /\ m = Len(rd2) - 1 /\ rd2[m] = rd[m] /\ m = Len(rd) /\ o.tok <= n /\ o.pos <= c
      /\ Under(L, rd2, cd, rest, o)
  BY <1>9, StmtBegins
<1>. HIDE DEF L
<1>. DEFINE x == Mark("token", n, c, 0)
<1>3. x \in Marks /\ x.kind = "token" /\ x.tok = n /\ x.pos = c
  BY <1>2 DEF Mark, Marks, Kinds
<1>. HIDE DEF x
<1>4. Holds(L, rd2, cd, t, x)
  <2>1. x.tok + 1 = m /\ x.pos = c /\ t = rd2[m]  BY <1>1, <1>2, <1>3
  <2>2. Parsed(L, rd2, cd, t, x, m, c)  BY <1>3, <2>1 DEF Parsed
  <2>. QED  BY <1>1, <1>2, <2>2 DEF Holds
<1>5. Link(L, rd2, cd, f, x, o)
  <2>1. rd2[x.tok + 1] = "RETURN"  BY <1>1, <1>2, <1>3
  <2>2. ReturnLink(L, rd2, cd, x, o)  BY <1>2, <1>3, <2>1 DEF ReturnLink
  <2>3. Linked(L, rd2, cd, f, x, o)  BY <2>2, LinkIs
  <2>. QED  BY <1>2, <1>3, <2>3 DEF Link
<1>. QED  BY <1>2, <1>3, <1>4, <1>5, PushOne DEF L

(* print, with its expression.                                             *)
LEMMA MarkPrint ==
  ASSUME NEW a, NEW rd, NEW cd, NEW pv, NEW e, NEW i, NEW o, NEW rest, NEW rd2, NEW t,
         Stage(a, rd, cd, pv, e, i, o, rest), e.do = "stmt",
         ReadOn(a, rd, cd, rd2), t = rd[Len(rd)], t = "PRINT"
  PROVE  Marked(Language[a], rd2, cd, t, <<Expr, Emit(<<Opcode("PRINT")>>)>> \o rest)
<1>. DEFINE n == Len(rd) - 1
            c == Len(cd)
            m == n + 1
            L == Language[a]
            f == Emit(<<Opcode("PRINT")>>)
<1>1. n = Len(rd) - 1 /\ c = Len(cd) /\ m = n + 1  OBVIOUS
<1>0. f.do = "emit" /\ f.bytes = <<Opcode("PRINT")>>  BY DEF Emit
<1>9. StageRead(a, rd, cd, pv, e, i, o, rest, rd2, n, m, c)  BY DEF StageRead
<1>. HIDE DEF n, c, m, f
<1>2. /\ Begun(L, rd2, cd, o, rd[m], m, c) /\ m = Len(rd) /\ m \in Nat /\ c \in Nat
      /\ m = Len(rd2) - 1 /\ rd2[m] = rd[m] /\ o.tok <= m /\ o.pos <= c
      /\ Context(a, rd2, cd) /\ Under(L, rd2, cd, rest, o)
  BY <1>9, StmtBegins
<1>. HIDE DEF L
<1>. DEFINE x == Mark("value", m, c, 1)
<1>3. x \in Marks /\ x.kind = "value" /\ x.tok = m /\ x.pos = c /\ x.level = 1
  BY <1>2 DEF Mark, Marks, Kinds
<1>. HIDE DEF x
<1>4. Link(L, rd2, cd, f, x, o)
  <2>1. rd2[x.tok] = "PRINT" /\ Begun(L, rd2, cd, o, rd2[x.tok], x.tok, x.pos)
    BY <1>2, <1>3
  <2>2. KeywordLink(L, rd2, cd, f.bytes, x, o)  BY <1>0, <1>3, <2>1 DEF KeywordLink
  <2>3. EmitLink(L, rd2, cd, f.bytes, x, o)  BY <2>2 DEF EmitLink
  <2>4. Linked(L, rd2, cd, f, x, o)  BY <1>0, <2>3, LinkIs
  <2>. QED  BY <1>2, <1>3, <2>4 DEF Link
<1>5. 1 \in 1 .. 9 /\ x.tok = Len(rd2) - 1 /\ x.pos = Len(cd)  BY <1>1, <1>2, <1>3
<1>6. Marked(L, rd2, cd, t, <<Prec(1), f>> \o rest)
  BY <1>2, <1>3, <1>4, <1>5, PushPrec
<1>. QED  BY <1>6, Levels DEF L, f

(* while and if: their condition comes next. *)
LEMMA MarkCondition ==
  ASSUME NEW a, NEW rd, NEW cd, NEW pv, NEW e, NEW i, NEW o, NEW rest, NEW rd2, NEW t, NEW f,
         Stage(a, rd, cd, pv, e, i, o, rest), e.do = "stmt",
         ReadOn(a, rd, cd, rd2), t = rd[Len(rd)],
         \/ t = "WHILE" /\ f.do = "while" /\ f.start = Len(cd)
         \/ t = "IF" /\ f.do = "if"
  PROVE  Marked(Language[a], rd2, cd, t, <<Expr, f>> \o rest)
<1>. DEFINE n == Len(rd) - 1
            c == Len(cd)
            m == n + 1
            L == Language[a]
<1>1. n = Len(rd) - 1 /\ c = Len(cd) /\ m = n + 1  OBVIOUS
<1>9. StageRead(a, rd, cd, pv, e, i, o, rest, rd2, n, m, c)  BY DEF StageRead
<1>. HIDE DEF n, c, m
<1>2. /\ Begun(L, rd2, cd, o, rd[m], m, c) /\ m = Len(rd) /\ m \in Nat /\ c \in Nat
      /\ m = Len(rd2) - 1 /\ o.tok <= m /\ o.pos <= c
      /\ Context(a, rd2, cd) /\ Under(L, rd2, cd, rest, o)
  BY <1>9, StmtBegins
<1>. HIDE DEF L
<1>. DEFINE x == Mark("value", m, c, 1)
<1>3. x \in Marks /\ x.kind = "value" /\ x.tok = m /\ x.pos = c /\ x.level = 1
  BY <1>2 DEF Mark, Marks, Kinds
<1>. HIDE DEF x
<1>4. ConditionLink(L, rd2, cd, t, x, o)  BY <1>2, <1>3 DEF ConditionLink
<1>5. Link(L, rd2, cd, f, x, o)
  <2>1. Linked(L, rd2, cd, f, x, o)
    <3>1. CASE t = "WHILE" /\ f.do = "while" /\ f.start = Len(cd)
      <4>1. f.start = x.pos /\ ConditionLink(L, rd2, cd, "WHILE", x, o)
        BY <1>1, <1>3, <1>4, <3>1
      <4>. QED  BY <3>1, <4>1, StatementLinkIs
    <3>2. CASE t = "IF" /\ f.do = "if"
      <4>1. ConditionLink(L, rd2, cd, "IF", x, o)  BY <1>4, <3>2
      <4>. QED  BY <3>2, <4>1, StatementLinkIs
    <3>. QED  BY <3>1, <3>2
  <2>. QED  BY <1>2, <1>3, <2>1 DEF Link
<1>6. 1 \in 1 .. 9 /\ x.tok = Len(rd2) - 1 /\ x.pos = Len(cd)  BY <1>1, <1>2, <1>3
<1>7. Marked(L, rd2, cd, t, <<Prec(1), f>> \o rest)
  BY <1>2, <1>3, <1>5, <1>6, PushPrec
<1>. QED  BY <1>7, Levels DEF L

(* for.                                                                    *)
LEMMA MarkFor ==
  ASSUME NEW a, NEW rd, NEW cd, NEW pv, NEW e, NEW i, NEW o, NEW rest, NEW rd2, NEW t, NEW f,
         Stage(a, rd, cd, pv, e, i, o, rest), e.do = "stmt",
         ReadOn(a, rd, cd, rd2), t = rd[Len(rd)], t = "FOR", f.do = "for"
  PROVE  Marked(Language[a], rd2, cd, t, <<f>> \o rest)
<1>. DEFINE n == Len(rd) - 1
            c == Len(cd)
            m == n + 1
            L == Language[a]
<1>1. n = Len(rd) - 1 /\ c = Len(cd) /\ m = n + 1  OBVIOUS
<1>9. StageRead(a, rd, cd, pv, e, i, o, rest, rd2, n, m, c)  BY DEF StageRead
<1>. HIDE DEF n, c, m
<1>2. /\ Begun(L, rd2, cd, o, rd[m], m, c) /\ m = Len(rd) /\ m \in Nat /\ c \in Nat
      /\ m = Len(rd2) - 1 /\ o.tok <= m /\ o.pos <= c
      /\ Context(a, rd2, cd) /\ Under(L, rd2, cd, rest, o)
  BY <1>9, StmtBegins
<1>. HIDE DEF L
<1>3. PICK x \in Marks : /\ x.kind = "here" /\ x.tok = Len(rd2) - 1 /\ x.pos = Len(cd)
                         /\ \A K, y : Holds(K, rd2, cd, y, x)
  BY <1>2, HereExists, Zenon
<1>4. x.kind = "here" /\ x.tok = m /\ x.pos = c  BY <1>1, <1>2, <1>3
<1>5. Link(L, rd2, cd, f, x, o)
  <2>1. Begun(L, rd2, cd, o, "FOR", x.tok, x.pos)  BY <1>2, <1>4
  <2>2. ForInitLink(L, rd2, cd, x, o)  BY <1>4, <2>1 DEF ForInitLink
  <2>3. Linked(L, rd2, cd, f, x, o)  BY <2>2, StatementLinkIs
  <2>. QED  BY <1>2, <1>4, <2>3 DEF Link
<1>6. Holds(L, rd2, cd, t, x)  BY <1>3
<1>. QED  BY <1>2, <1>3, <1>5, <1>6, PushOne DEF L

(* A block: its brace is not read yet.                                     *)
LEMMA MarkScoped ==
  ASSUME NEW a, NEW rd, NEW cd, NEW pv, NEW e, NEW i, NEW o, NEW rest, NEW f,
         Stage(a, rd, cd, pv, e, i, o, rest), e.do = "stmt",
         rd[Len(rd)] = "LBRACE", f.do = "scope"
  PROVE  Marked(Language[a], rd, cd, pv, <<f>> \o rest)
<1>. DEFINE n == Len(rd) - 1
            c == Len(cd)
            L == Language[a]
<1>1. n = Len(rd) - 1 /\ c = Len(cd)  OBVIOUS
<1>9. StageAt(a, rd, cd, pv, e, i, o, rest, n, c)  BY DEF StageAt
<1>. HIDE DEF n, c
<1>2. /\ Wanted(L, rd, cd, o, n, c) /\ n \in Nat /\ c \in Nat /\ n + 1 = Len(rd)
      /\ o.tok <= n /\ o.pos <= c /\ Context(a, rd, cd) /\ Under(L, rd, cd, rest, o)
  BY <1>9, StmtHere
<1>. HIDE DEF L
<1>3. PICK x \in Marks : /\ x.kind = "here" /\ x.tok = Len(rd) - 1 /\ x.pos = Len(cd)
                         /\ \A K, y : Holds(K, rd, cd, y, x)
  BY <1>2, HereExists, Zenon
<1>4. x.kind = "here" /\ x.tok = n /\ x.pos = c  BY <1>1, <1>3
<1>5. Link(L, rd, cd, f, x, o)
  <2>1. rd[x.tok + 1] = "LBRACE"  BY <1>2, <1>4
  <2>2. ScopeLink(L, rd, cd, x, o)  BY <1>2, <1>4, <2>1 DEF ScopeLink
  <2>3. Linked(L, rd, cd, f, x, o)  BY <2>2, LinkIs
  <2>. QED  BY <1>2, <1>4, <2>3 DEF Link
<1>6. Holds(L, rd, cd, pv, x)  BY <1>3
<1>. QED  BY <1>2, <1>3, <1>5, <1>6, PushOne DEF L

(* An expression statement.                                                *)
LEMMA MarkExprStat ==
  ASSUME NEW a, NEW rd, NEW cd, NEW pv, NEW e, NEW i, NEW o, NEW rest,
         Stage(a, rd, cd, pv, e, i, o, rest), e.do = "stmt"
  PROVE  Marked(Language[a], rd, cd, pv, <<Expr, Emit(StatCode)>> \o rest)
<1>. DEFINE n == Len(rd) - 1
            c == Len(cd)
            L == Language[a]
            f == Emit(StatCode)
<1>1. n = Len(rd) - 1 /\ c = Len(cd)  OBVIOUS
<1>0. f.do = "emit" /\ f.bytes = StatCode  BY DEF Emit
<1>9. StageAt(a, rd, cd, pv, e, i, o, rest, n, c)  BY DEF StageAt
<1>. HIDE DEF n, c, f
<1>2. /\ Wanted(L, rd, cd, o, n, c) /\ n \in Nat /\ c \in Nat
      /\ o.tok <= n /\ o.pos <= c /\ Context(a, rd, cd) /\ Under(L, rd, cd, rest, o)
  BY <1>9, StmtHere
<1>. HIDE DEF L
<1>. DEFINE x == Mark("value", n, c, 1)
<1>3. x \in Marks /\ x.kind = "value" /\ x.tok = n /\ x.pos = c /\ x.level = 1
  BY <1>2 DEF Mark, Marks, Kinds
<1>. HIDE DEF x
<1>4. Link(L, rd, cd, f, x, o)
  <2>1. StatLink(L, rd, cd, f.bytes, x, o)  BY <1>0, <1>2, <1>3 DEF StatLink
  <2>2. EmitLink(L, rd, cd, f.bytes, x, o)  BY <2>1 DEF EmitLink
  <2>3. Linked(L, rd, cd, f, x, o)  BY <1>0, <2>2, LinkIs
  <2>. QED  BY <1>2, <1>3, <2>3 DEF Link
<1>5. 1 \in 1 .. 9 /\ x.tok = Len(rd) - 1 /\ x.pos = Len(cd)  BY <1>1, <1>2, <1>3
<1>6. Marked(L, rd, cd, pv, <<Prec(1), f>> \o rest)
  BY <1>2, <1>3, <1>4, <1>5, PushPrec
<1>. QED  BY <1>6, Levels DEF L, f

(* return with nothing behind it, and with a value. *)
LEMMA MarkReturnVoid ==
  ASSUME NEW a, NEW rd, NEW cd, NEW pv, NEW e, NEW i, NEW o, NEW rest, NEW rd2, NEW t,
         Stage(a, rd, cd, pv, e, i, o, rest), e.do = "return",
         ReadOn(a, rd, cd, rd2), t = rd[Len(rd)], t = "SEMICOLON"
  PROVE  Marked(Language[a], rd2, cd, t,
                <<Emit(ConstantCode(Index["void"])), Emit(<<Opcode("RETURN")>>)>> \o rest)
<1>. DEFINE n == Len(rd) - 1
            c == Len(cd)
            m == n + 1
            L == Language[a]
            d == Emit(ConstantCode(Index["void"]))
            f == Emit(<<Opcode("RETURN")>>)
<1>1. n = Len(rd) - 1 /\ c = Len(cd) /\ m = n + 1  OBVIOUS
<1>0. /\ d.do = "emit" /\ d.bytes = ConstantCode(Index["void"])
      /\ f.do = "emit" /\ f.bytes = <<Opcode("RETURN")>>
  BY DEF Emit
<1>. HIDE DEF n, c, m, d, f
<1>2. /\ Read(a, rd, cd, rd2, n, m, c) /\ m = Len(rd) /\ Context(a, rd2, cd)
      /\ Under(L, rd2, cd, rest, o) /\ n \in Nat /\ m \in Nat /\ c \in Nat
      /\ rd2[m] = rd[m] /\ m = Len(rd2) - 1
  <2>1. /\ Read(a, rd, cd, rd2, n, m, c) /\ m = Len(rd) /\ Context(a, rd2, cd)
        /\ Under(L, rd2, cd, rest, o) /\ n \in Nat /\ m \in Nat /\ c \in Nat
    BY <1>1, ReadIs
  <2>. QED  BY <2>1 DEF Read
<1>3. /\ i \in Marks /\ o \in Marks /\ Holds(L, rd, cd, pv, i) /\ Linked(L, rd, cd, e, i, o)
      /\ o.tok <= i.tok /\ o.pos <= i.pos /\ i.tok \in Nat /\ i.pos \in Nat
      /\ o.tok \in Nat /\ o.pos \in Nat
  BY <1>1, StageIs
<1>. HIDE DEF L
<1>4. i.kind = "token" /\ rd[i.tok + 1] = "RETURN" /\ Wanted(L, rd, cd, o, i.tok, i.pos)
  BY <1>3, LinkIs DEF ReturnLink
<1>5. i.tok + 1 = n /\ i.pos = c  BY <1>1, <1>3, <1>4, TokenHeld
<1>6. Wanted(L, rd2, cd, o, i.tok, i.pos)
  <2>1. i.pos <= c  BY <1>2, <1>5
  <2>. QED  BY <1>2, <1>4, <2>1, ReadWanted DEF L
<1>7. rd2[n] = "RETURN" /\ rd2[m] = "SEMICOLON"
  <2>1. n # 0 /\ n <= m
    <3>1. i.tok \in Nat /\ i.tok + 1 = n  BY <1>3, <1>5
    <3>2. n \in Nat /\ m = n + 1  BY <1>1, <1>2
    <3>. QED  BY ONLY <3>1, <3>2
  <2>2. rd2[n] = rd[n]  BY <1>2, <2>1, ReadToken
  <2>. QED  BY <1>2, <1>4, <1>5, <2>2
<1>. DEFINE V == Mark("void", i.tok, c, 0)
<1>8. V \in Marks /\ V.kind = "void" /\ V.tok = i.tok /\ V.pos = c
  BY <1>2, <1>3 DEF Mark, Marks, Kinds
<1>. HIDE DEF V
<1>9. PICK x \in Marks : /\ x.kind = "here" /\ x.tok = Len(rd2) - 1 /\ x.pos = Len(cd)
                         /\ \A K, y : Holds(K, rd2, cd, y, x)
  BY <1>2, HereExists, Zenon
<1>10. x.tok = m /\ x.pos = c /\ x.tok = V.tok + 2 /\ V.tok + 1 = n
  BY <1>1, <1>2, <1>3, <1>5, <1>8, <1>9
<1>11. Link(L, rd2, cd, f, V, o)
  <2>1. Wanted(L, rd2, cd, o, V.tok, V.pos)  BY <1>5, <1>6, <1>8
  <2>2. ReturnVoidLink(L, rd2, cd, f.bytes, V, o)
    BY <1>0, <1>8, <2>1 DEF ReturnVoidLink
  <2>3. EmitLink(L, rd2, cd, f.bytes, V, o)  BY <2>2 DEF EmitLink
  <2>4. Linked(L, rd2, cd, f, V, o)  BY <1>0, <2>3, LinkIs
  <2>. QED  BY <1>3, <1>5, <1>8, <2>4 DEF Link
<1>12. Link(L, rd2, cd, d, x, V)
  <2>1. VoidLink(rd2, d.bytes, x, V)
    BY <1>0, <1>7, <1>8, <1>9, <1>10 DEF VoidLink
  <2>2. EmitLink(L, rd2, cd, d.bytes, x, V)  BY <2>1 DEF EmitLink
  <2>3. Linked(L, rd2, cd, d, x, V)  BY <1>0, <2>2, LinkIs
  <2>4. V.tok <= x.tok /\ V.pos <= x.pos  BY <1>2, <1>3, <1>8, <1>10
  <2>. QED  BY <2>3, <2>4 DEF Link
<1>13. Holds(L, rd2, cd, t, x)  BY <1>9
<1>. QED  BY <1>2, <1>8, <1>9, <1>11, <1>12, <1>13, PushTwo DEF L, d, f

(* return with a value.                                                    *)
LEMMA MarkReturnValue ==
  ASSUME NEW a, NEW rd, NEW cd, NEW pv, NEW e, NEW i, NEW o, NEW rest,
         Stage(a, rd, cd, pv, e, i, o, rest), e.do = "return"
  PROVE  Marked(Language[a], rd, cd, pv, <<Expr, Emit(<<Opcode("RETURN")>>)>> \o rest)
<1>. DEFINE n == Len(rd) - 1
            c == Len(cd)
            L == Language[a]
            f == Emit(<<Opcode("RETURN")>>)
<1>1. n = Len(rd) - 1 /\ c = Len(cd)  OBVIOUS
<1>0. f.do = "emit" /\ f.bytes = <<Opcode("RETURN")>>  BY DEF Emit
<1>. HIDE DEF n, c, f
<1>2. /\ Context(a, rd, cd) /\ i \in Marks /\ o \in Marks /\ Holds(L, rd, cd, pv, i)
      /\ Linked(L, rd, cd, e, i, o) /\ Under(L, rd, cd, rest, o) /\ n \in Nat /\ c \in Nat
      /\ o.tok <= i.tok /\ o.pos <= i.pos /\ i.tok \in Nat /\ i.pos \in Nat
      /\ o.tok \in Nat /\ o.pos \in Nat
  BY <1>1, StageIs
<1>. HIDE DEF L
<1>3. i.kind = "token" /\ rd[i.tok + 1] = "RETURN" /\ Wanted(L, rd, cd, o, i.tok, i.pos)
  BY <1>2, LinkIs DEF ReturnLink
<1>4. i.tok + 1 = n /\ i.pos = c  BY <1>1, <1>2, <1>3, TokenHeld
<1>. DEFINE x == Mark("value", n, c, 1)
<1>5. x \in Marks /\ x.kind = "value" /\ x.tok = n /\ x.pos = c /\ x.level = 1
  BY <1>2 DEF Mark, Marks, Kinds
<1>. HIDE DEF x
<1>6. Link(L, rd, cd, f, x, o)
  <2>1. rd[x.tok] = "RETURN" /\ Begun(L, rd, cd, o, rd[x.tok], x.tok, x.pos)
    BY <1>2, <1>3, <1>4, <1>5 DEF Begun
  <2>2. KeywordLink(L, rd, cd, f.bytes, x, o)  BY <1>0, <1>5, <2>1 DEF KeywordLink
  <2>3. EmitLink(L, rd, cd, f.bytes, x, o)  BY <2>2 DEF EmitLink
  <2>4. Linked(L, rd, cd, f, x, o)  BY <1>0, <2>3, LinkIs
  <2>5. o.tok <= x.tok /\ o.pos <= x.pos  BY <1>2, <1>4, <1>5
  <2>. QED  BY <2>4, <2>5 DEF Link
<1>7. 1 \in 1 .. 9 /\ x.tok = Len(rd) - 1 /\ x.pos = Len(cd)  BY <1>1, <1>5
<1>8. Marked(L, rd, cd, pv, <<Prec(1), f>> \o rest)
  BY <1>2, <1>5, <1>6, <1>7, PushPrec
<1>. QED  BY <1>8, Levels DEF L, f

(* The brace of a block is read: its list is empty as yet. *)
LEMMA MarkScope ==
  ASSUME NEW a, NEW rd, NEW cd, NEW pv, NEW e, NEW i, NEW o, NEW rest, NEW rd2, NEW t, NEW f,
         Stage(a, rd, cd, pv, e, i, o, rest), e.do = "scope",
         ReadOn(a, rd, cd, rd2), f.do = "block"
  PROVE  Marked(Language[a], rd2, cd, t, <<f>> \o rest)
<1>. DEFINE n == Len(rd) - 1
            c == Len(cd)
            m == n + 1
            L == Language[a]
<1>1. n = Len(rd) - 1 /\ c = Len(cd) /\ m = n + 1  OBVIOUS
<1>. HIDE DEF n, c, m
<1>2. /\ Read(a, rd, cd, rd2, n, m, c) /\ m = Len(rd) /\ Context(a, rd2, cd)
      /\ Under(L, rd2, cd, rest, o) /\ n \in Nat /\ m \in Nat /\ c \in Nat
      /\ rd2[m] = rd[m] /\ m = Len(rd2) - 1 /\ m < Len(rd2)
  <2>1. /\ Read(a, rd, cd, rd2, n, m, c) /\ m = Len(rd) /\ Context(a, rd2, cd)
        /\ Under(L, rd2, cd, rest, o) /\ n \in Nat /\ m \in Nat /\ c \in Nat
    BY <1>1, ReadIs
  <2>. QED  BY <2>1 DEF Read
<1>3. /\ i \in Marks /\ o \in Marks /\ Holds(L, rd, cd, pv, i) /\ Linked(L, rd, cd, e, i, o)
      /\ o.tok <= i.tok /\ o.pos <= i.pos /\ o.tok \in Nat /\ o.pos \in Nat
  BY <1>1, StageIs
<1>4. /\ i.kind = "here"
      /\ \/ o.kind = "body" /\ i.tok = o.tok /\ i.pos = o.pos
         \/ rd[i.tok + 1] = "LBRACE" /\ Wanted(L, rd, cd, o, i.tok, i.pos)
  BY <1>3, LinkIs DEF ScopeLink, SameStart
<1>5. i.tok = n /\ i.pos = c  BY <1>1, <1>3, <1>4, HereHeld
<1>. DEFINE V == Mark("list", m, c, 0)
<1>6. V \in Marks /\ V.kind = "list" /\ V.tok = m /\ V.pos = c
  BY <1>2 DEF Mark, Marks, Kinds
<1>. HIDE DEF V
<1>7. Holds(L, rd2, cd, t, V)
  <2>1. c <= Len(cd)  BY <1>1, <1>2
  <2>2. List(L, rd2, cd, m, m, c, c)  BY <1>2, <2>1, EmptyList
  <2>3. List(L, rd2, cd, V.tok, m, V.pos, c)  BY <1>6, <2>2
  <2>. HIDE DEF L
  <2>. QED  BY <1>1, <1>2, <1>6, <2>3, PartHolds
<1>8. Link(L, rd2, cd, f, V, o)
  <2>1. BlockLink(L, rd2, cd, V, o)
    <3>1. CASE o.kind = "body" /\ i.tok = o.tok /\ i.pos = o.pos
      <4>1. V.tok = o.tok + 1 /\ V.pos = o.pos  BY <1>1, <1>5, <1>6, <3>1
      <4>. QED  BY <1>6, <3>1, <4>1 DEF BlockLink
    <3>2. CASE rd[i.tok + 1] = "LBRACE" /\ Wanted(L, rd, cd, o, i.tok, i.pos)
      <4>1. i.pos <= c  BY <1>2, <1>5
      <4>2. Wanted(L, rd2, cd, o, n, c)  BY <1>2, <1>5, <3>2, <4>1, ReadWanted
      <4>3. rd2[m] = "LBRACE"  BY <1>1, <1>2, <1>5, <3>2
      <4>4. Begun(L, rd2, cd, o, "LBRACE", m, c)  BY <1>1, <1>2, <4>2, <4>3 DEF Begun
      <4>. QED  BY <1>6, <4>4 DEF BlockLink
    <3>. QED  BY <1>4, <3>1, <3>2
  <2>. HIDE DEF L
  <2>2. Linked(L, rd2, cd, f, V, o)  BY <2>1, LinkIs
  <2>3. o.tok <= V.tok /\ o.pos <= V.pos
    <3>1. o.tok \in Nat /\ o.pos \in Nat /\ o.tok <= n /\ o.pos <= c  BY <1>3, <1>5
    <3>2. n \in Nat /\ c \in Nat /\ m = n + 1  BY <1>1, <1>2
    <3>3. V.tok = m /\ V.pos = c  BY <1>6
    <3>. QED  BY ONLY <3>1, <3>2, <3>3
  <2>. QED  BY <2>2, <2>3 DEF Link
<1>. HIDE DEF L
<1>. QED  BY <1>2, <1>6, <1>7, <1>8, PushOne DEF L

(* Another statement of a block, or of the source. *)
LEMMA MarkNextStatement ==
  ASSUME NEW a, NEW rd, NEW cd, NEW pv, NEW e, NEW i, NEW o, NEW rest, NEW f,
         Stage(a, rd, cd, pv, e, i, o, rest), e.do \in {"block", "script"}, f.do = e.do
  PROVE  Marked(Language[a], rd, cd, pv, <<Do("stmt"), f>> \o rest)
<1>. DEFINE n == Len(rd) - 1
            c == Len(cd)
            L == Language[a]
            d == Do("stmt")
<1>1. n = Len(rd) - 1 /\ c = Len(cd)  OBVIOUS
<1>0. d.do = "stmt"  BY DEF Do
<1>. HIDE DEF n, c, d
<1>2. /\ Context(a, rd, cd) /\ i \in Marks /\ o \in Marks /\ Holds(L, rd, cd, pv, i)
      /\ Linked(L, rd, cd, e, i, o) /\ Under(L, rd, cd, rest, o) /\ n \in Nat /\ c \in Nat
      /\ i.tok <= n /\ i.pos <= c /\ o.tok <= i.tok /\ o.pos <= i.pos
  BY <1>1, StageIs
<1>. HIDE DEF L
<1>3. i.kind = "list" /\ Linked(L, rd, cd, f, i, o)
  <2>1. CASE e.do = "block"
    <3>1. BlockLink(L, rd, cd, i, o)  BY <1>2, <2>1, LinkIs
    <3>2. Linked(L, rd, cd, f, i, o)  BY <2>1, <3>1, LinkIs
    <3>. QED  BY <3>1, <3>2 DEF BlockLink
  <2>2. CASE e.do = "script"
    <3>1. ScriptLink(i, o)  BY <1>2, <2>2, StatementLinkIs
    <3>2. Linked(L, rd, cd, f, i, o)  BY <2>2, <3>1, StatementLinkIs
    <3>. QED  BY <3>1, <3>2 DEF ScriptLink
  <2>. QED  BY <2>1, <2>2
<1>4. Link(L, rd, cd, f, i, o)  BY <1>2, <1>3 DEF Link
<1>5. List(L, rd, cd, i.tok, n, i.pos, c)  BY <1>1, <1>2, <1>3, StmtHeld
<1>6. PICK x \in Marks : /\ x.kind = "here" /\ x.tok = Len(rd) - 1 /\ x.pos = Len(cd)
                         /\ \A K, y : Holds(K, rd, cd, y, x)
  BY <1>2, HereExists, Zenon
<1>7. x.kind = "here" /\ x.tok = n /\ x.pos = c  BY <1>1, <1>6
<1>8. Link(L, rd, cd, d, x, i)
  <2>1. Wanted(L, rd, cd, i, x.tok, x.pos)  BY <1>3, <1>5, <1>7 DEF Wanted
  <2>2. StmtLink(L, rd, cd, x, i)  BY <1>7, <2>1 DEF StmtLink
  <2>3. Linked(L, rd, cd, d, x, i)  BY <1>0, <2>2, LinkIs
  <2>. QED  BY <1>2, <1>7, <2>3 DEF Link
<1>9. Holds(L, rd, cd, pv, x)  BY <1>6
<1>. QED  BY <1>2, <1>4, <1>6, <1>8, <1>9, PushTwo DEF L, d

(* A block whose last statement is parsed.                                 *)
LEMMA MarkBlockEnd ==
  ASSUME NEW a, NEW rd, NEW cd, NEW pv, NEW e, NEW i, NEW o, NEW rest,
         Stage(a, rd, cd, pv, e, i, o, rest), e.do = "block"
  PROVE  Marked(Language[a], rd, cd, pv, <<Consume("RBRACE")>> \o rest)
<1>. DEFINE L == Language[a]
            d == Consume("RBRACE")
<1>0. d.do = "consume" /\ d.token = "RBRACE"  BY DEF Consume
<1>. HIDE DEF d
<1>2. /\ i \in Marks /\ Holds(L, rd, cd, pv, i) /\ Link(L, rd, cd, e, i, o)
      /\ Under(L, rd, cd, rest, o)
  BY DEF Stage
<1>. HIDE DEF L
<1>3. BlockLink(L, rd, cd, i, o)  BY <1>2, LinkIs DEF Link
<1>4. Link(L, rd, cd, d, i, o)
  <2>1. ConsumeLink(L, rd, cd, d.token, i, o)  BY <1>0, <1>3 DEF ConsumeLink
  <2>2. Linked(L, rd, cd, d, i, o)  BY <1>0, <2>1, LinkIs
  <2>. QED  BY <1>2, <2>2 DEF Link
<1>. QED  BY <1>2, <1>4, PushOne DEF L, d

(* The source ends: it is one of the language. *)
LEMMA SourceEnds ==
  ASSUME NEW a, NEW rd, NEW cd, NEW pv, NEW e, NEW i, NEW o, NEW rest,
         Stage(a, rd, cd, pv, e, i, o, rest), e.do = "script", rd[Len(rd)] = "EOF"
  PROVE  <<rd, Append(cd, Opcode("HALT"))>> \in Sources[a]
<1>. DEFINE n == Len(rd) - 1
            c == Len(cd)
            L == Language[a]
<1>1. n = Len(rd) - 1 /\ c = Len(cd)  OBVIOUS
<1>. HIDE DEF n, c
<1>2. /\ Context(a, rd, cd) /\ Holds(L, rd, cd, pv, i) /\ Linked(L, rd, cd, e, i, o)
      /\ n + 1 = Len(rd)
  BY <1>1, StageIs
<1>3. i.kind = "list" /\ i.tok = 0 /\ i.pos = 0
  <2>. HIDE DEF L
  <2>1. ScriptLink(i, o)  BY <1>2, StatementLinkIs
  <2>. QED  BY <2>1 DEF ScriptLink
<1>4. List(L, rd, cd, i.tok, n, i.pos, c)  BY <1>1, <1>2, <1>3, StmtHeld
<1>5. List(L, rd, cd, 0, n, 0, Len(cd)) /\ rd[n + 1] = "EOF"  BY <1>1, <1>2, <1>3, <1>4
<1>. QED  BY <1>1, <1>2, <1>5, SourceMade

-----------------------------------------------------------------------------
(* Jumps: what is added is behind the code there was, what is patched is   *)
(* the distance of one jump.                                               *)

Added(cd, cd2, bytes) ==
  /\ cd \in Seq(Bytes) /\ cd2 \in Seq(Bytes) /\ Len(cd2) = Len(cd) + 3
  /\ \A k \in 1 .. Len(cd) : cd2[k] = cd[k]
  /\ Jumps(cd2, Len(cd), bytes)

(* A jump put behind the code.                                             *)
LEMMA AddedIs ==
  ASSUME NEW cd, NEW cd2, NEW bytes, Added(cd, cd2, bytes)
  PROVE  Longer(cd, cd2) /\ Len(cd) \in Nat /\ Len(cd2) = Len(cd) + 3
<1>1. /\ cd \in Seq(Bytes) /\ cd2 \in Seq(Bytes) /\ Len(cd2) = Len(cd) + 3
      /\ \A k \in 1 .. Len(cd) : cd2[k] = cd[k]
  BY DEF Added
<1>2. Len(cd) \in Nat /\ Len(cd) <= Len(cd2)  BY <1>1
<1>. QED  BY <1>1, <1>2 DEF Longer

AddsPatching(cd, cd1, cd2, bytes, op, h, v, c, r) ==
  /\ Added(cd, cd1, bytes) /\ Jumps(cd, h, JumpCode(op)) /\ op \in {"JMP", "JMPF"}
  /\ h \in Nat /\ v = h + 3 /\ c = Len(cd) /\ v <= c /\ r = c + 3
  /\ cd2 = Patched(cd1, h + 1)

(* A jump is put behind the code and another one patched to lead behind    *)
(* it.                                                                     *)
LEMMA AddPatch ==
  ASSUME NEW cd, NEW cd1, NEW cd2, NEW bytes, NEW op, NEW h, NEW v, NEW c, NEW r,
         AddsPatching(cd, cd1, cd2, bytes, op, h, v, c, r)
  PROVE  /\ cd2 \in Seq(Bytes) /\ Len(cd2) = r /\ c \in Nat /\ r \in Nat
         /\ \A k \in 1 .. c : k <= h \/ v < k => cd2[k] = cd[k]
         /\ Jumps(cd2, c, bytes) /\ Jumps(cd2, h, G!JumpOver(op, Seg(cd2, v, r)))
<1>0. /\ Added(cd, cd1, bytes) /\ Jumps(cd, h, JumpCode(op)) /\ op \in {"JMP", "JMPF"}
      /\ h \in Nat /\ v = h + 3 /\ c = Len(cd) /\ v <= c /\ r = c + 3
      /\ cd2 = Patched(cd1, h + 1)
  BY DEF AddsPatching
<1>1. /\ cd \in Seq(Bytes) /\ cd1 \in Seq(Bytes) /\ Len(cd1) = Len(cd) + 3
      /\ \A k \in 1 .. Len(cd) : cd1[k] = cd[k]
      /\ c + 3 <= Len(cd1) /\ Seg(cd1, c, c + 3) = bytes
  BY <1>0 DEF Added, Jumps
<1>2. c \in Nat /\ r \in Nat /\ r = Len(cd1) /\ v \in Nat /\ v <= Len(cd1) /\ v <= Len(cd)
  BY <1>0, <1>1
<1>3. Seg(cd, h, v) = JumpCode(op)  BY <1>0 DEF Jumps
<1>4. Seg(cd1, h, v) = JumpCode(op)
  <2>1. Agree(cd1, cd, c)  BY <1>0, <1>1 DEF Agree
  <2>2. h <= v /\ v <= c /\ c <= Len(cd1) /\ c <= Len(cd)  BY <1>0, <1>1, <1>2
  <2>3. Seg(cd1, h, v) = Seg(cd, h, v)  BY <1>0, <1>1, <1>2, <2>1, <2>2, SegSame
  <2>. QED  BY <1>3, <2>3
<1>. DEFINE hole == h + 1
<1>5. hole = h + 1 /\ cd2 = Patched(cd1, hole)  BY <1>0
<1>. HIDE DEF hole
<1>6. /\ Patched(cd1, hole) \in Seq(Bytes) /\ Len(Patched(cd1, hole)) = Len(cd1)
      /\ Seg(Patched(cd1, hole), h, v) = G!JumpOver(op, Seg(Patched(cd1, hole), v, r))
      /\ \A k \in 1 .. Len(cd1) : k <= h \/ v < k => Patched(cd1, hole)[k] = cd1[k]
  <2>1. op \in {"JMP", "JMPF"} /\ h \in Nat /\ v = h + 3  BY <1>0
  <2>2. cd1 \in Seq(Bytes) /\ v <= Len(cd1) /\ r = Len(cd1)  BY <1>1, <1>2
  <2>3. hole = h + 1  BY <1>5
  <2>4. Unpatched(cd1, h, v, op, hole, r)  BY <2>1, <2>2, <2>3, <1>4 DEF Unpatched
  <2>. QED  BY <2>4, PatchedSegs
<1>7. /\ cd2 \in Seq(Bytes) /\ Len(cd2) = Len(cd1)
      /\ Seg(cd2, h, v) = G!JumpOver(op, Seg(cd2, v, r))
      /\ \A k \in 1 .. Len(cd1) : k <= h \/ v < k => cd2[k] = cd1[k]
  BY <1>5, <1>6, Zenon
<1>8. Seg(cd2, c, c + 3) = bytes
  <2>1. \A k \in c + 1 .. r : cd2[k] = cd1[k]
    <3>1. \A k \in c + 1 .. r : k \in 1 .. Len(cd1) /\ v < k  BY <1>0, <1>1, <1>2
    <3>. QED  BY <1>7, <3>1
  <2>2. Alike(cd2, cd1, c, r)  BY <2>1 DEF Alike
  <2>3. c <= r /\ r <= Len(cd1) /\ r <= Len(cd2)  BY <1>0, <1>1, <1>2, <1>7
  <2>4. Seg(cd2, c, r) = Seg(cd1, c, r)  BY <1>0, <1>1, <1>2, <1>7, <2>2, <2>3, SegAlike
  <2>. QED  BY <1>0, <1>1, <2>4
<1>9. \A k \in 1 .. c : k <= h \/ v < k => cd2[k] = cd[k]
  <2>1. \A k \in 1 .. c : k \in 1 .. Len(cd1) /\ k \in 1 .. Len(cd)  BY <1>0, <1>1, <1>2
  <2>. QED  BY <1>0, <1>1, <1>7, <2>1
<1>10. c + 3 <= Len(cd2) /\ h + 3 <= Len(cd2)  BY <1>0, <1>2, <1>7
<1>. QED  BY <1>0, <1>2, <1>7, <1>8, <1>9, <1>10 DEF Jumps

(* What a patch leaves as it was. *)
PatchLeaves(a, rd, cd, rd2, cd2, n, c, h, v, r) ==
  /\ Context(a, rd2, cd2) /\ Later(rd, cd, rd2, cd2, 0, h) /\ Later(rd, cd, rd2, cd2, v, c)
  /\ n \in Nat /\ c \in Nat /\ h \in Nat /\ v \in Nat /\ r \in Nat
  /\ n = Len(rd) - 1 /\ v = h + 3 /\ v <= c /\ c <= r /\ c = Len(cd) /\ r = Len(cd2)

(* What such a step leaves of all that is marked.                          *)
LEMMA PatchAdded ==
  ASSUME NEW a, NEW rd, NEW cd, NEW pv, NEW e, NEW i, NEW o, NEW rest, NEW rd2, NEW cd1,
         NEW cd2, NEW bytes, NEW op, NEW n, NEW c, NEW h, NEW v, NEW r,
         Stage(a, rd, cd, pv, e, i, o, rest), ReadSome(a, rd, cd, rd2),
         Added(cd, cd1, bytes), Jumps(cd, h, JumpCode(op)), op \in {"JMP", "JMPF"},
         h \in Nat, v = h + 3, n = Len(rd) - 1, c = Len(cd), v <= c, r = c + 3,
         cd2 = Patched(cd1, h + 1), o.pos <= h
  PROVE  /\ PatchLeaves(a, rd, cd, rd2, cd2, n, c, h, v, r)
         /\ Under(Language[a], rd2, cd2, rest, o)
         /\ Jumps(cd2, c, bytes) /\ Jumps(cd2, h, G!JumpOver(op, Seg(cd2, v, r)))
<1>1. /\ cd2 \in Seq(Bytes) /\ Len(cd2) = r /\ c \in Nat /\ r \in Nat
      /\ \A k \in 1 .. c : k <= h \/ v < k => cd2[k] = cd[k]
      /\ Jumps(cd2, c, bytes) /\ Jumps(cd2, h, G!JumpOver(op, Seg(cd2, v, r)))
  <2>1. AddsPatching(cd, cd1, cd2, bytes, op, h, v, c, r)  BY DEF AddsPatching
  <2>. QED  BY <2>1, AddPatch
<1>2. n \in Nat  BY StageIs
<1>3. Len(cd) <= Len(cd2) /\ v <= Len(cd) /\ v \in Nat /\ c <= r  BY <1>1
<1>4. /\ Context(a, rd2, cd2) /\ Later(rd, cd, rd2, cd2, 0, h)
      /\ Later(rd, cd, rd2, cd2, v, c) /\ Under(Language[a], rd2, cd2, rest, o)
  <2>1. \A k \in 1 .. Len(cd) : k <= h \/ v < k => cd2[k] = cd[k]  BY <1>1
  <2>. QED  BY <1>1, <1>3, <2>1, AfterPatch
<1>. QED  BY <1>1, <1>2, <1>3, <1>4 DEF PatchLeaves

(* A statement stays wanted.                                               *)
LEMMA LeavesWanted ==
  ASSUME NEW a, NEW rd, NEW cd, NEW rd2, NEW cd2, NEW n, NEW c, NEW h, NEW v, NEW r,
         NEW o, NEW p, NEW q,
         PatchLeaves(a, rd, cd, rd2, cd2, n, c, h, v, r),
         Wanted(Language[a], rd, cd, o, p, q), q <= h
  PROVE  Wanted(Language[a], rd2, cd2, o, p, q)
<1>1. Later(rd, cd, rd2, cd2, 0, h)  BY DEF PatchLeaves
<1>. QED  BY <1>1, KeepsWanted

(* A value before the patched jump stays one.                              *)
LEMMA LeavesValue ==
  ASSUME NEW a, NEW rd, NEW cd, NEW rd2, NEW cd2, NEW n, NEW c, NEW h, NEW v, NEW r,
         NEW p, NEW t, NEW q,
         PatchLeaves(a, rd, cd, rd2, cd2, n, c, h, v, r),
         Value(Language[a], rd, cd, p, t, q, h, 1)
  PROVE  Value(Language[a], rd2, cd2, p, t, q, h, 1)
<1>1. Later(rd, cd, rd2, cd2, 0, h) /\ h \in Nat  BY DEF PatchLeaves
<1>2. 0 <= q /\ h <= h  BY <1>1 DEF Value, Operand, Span
<1>. QED  BY <1>1, <1>2, KeepsValue

(* A statement behind it stays one.                                        *)
LEMMA LeavesStatement ==
  ASSUME NEW a, NEW rd, NEW cd, NEW rd2, NEW cd2, NEW n, NEW c, NEW h, NEW v, NEW r,
         NEW p, NEW j, NEW u,
         PatchLeaves(a, rd, cd, rd2, cd2, n, c, h, v, r),
         Statement(Language[a], rd, cd, p, j, v, u), u <= c
  PROVE  Statement(Language[a], rd2, cd2, p, j, v, u)
<1>1. Later(rd, cd, rd2, cd2, v, c) /\ v \in Nat  BY DEF PatchLeaves
<1>2. v <= v  BY <1>1
<1>. QED  BY <1>1, <1>2, KeepsStatement

(* The tokens stay.                                                        *)
LEMMA LeavesToken ==
  ASSUME NEW a, NEW rd, NEW cd, NEW rd2, NEW cd2, NEW n, NEW c, NEW h, NEW v, NEW r,
         NEW k, PatchLeaves(a, rd, cd, rd2, cd2, n, c, h, v, r), k \in Nat, k # 0, k <= Len(rd)
  PROVE  rd2[k] = rd[k]
<1>1. Later(rd, cd, rd2, cd2, 0, h)  BY DEF PatchLeaves
<1>. QED  BY <1>1, LaterToken

(* Where a statement is wanted lies behind the mark below.                 *)
LEMMA WantedBounds ==
  ASSUME NEW L, NEW rd, NEW cd, NEW o, NEW p, NEW q, Wanted(L, rd, cd, o, p, q),
         o \in Marks
  PROVE  p \in Nat /\ q \in Nat /\ o.tok <= p /\ o.pos <= q
<1>1. CASE o.kind = "stmt" /\ o.tok = p /\ o.pos = q
  BY <1>1 DEF Marks
<1>2. CASE o.kind = "list" /\ List(L, rd, cd, o.tok, p, o.pos, q)
  BY <1>2 DEF List, Span
<1>. QED  BY <1>1, <1>2 DEF Wanted

(* A keyword and its condition.                                            *)
LEMMA GuardedIs ==
  ASSUME NEW L, NEW rd, NEW cd, NEW o, NEW keyword, NEW p, NEW t, NEW q, NEW h, NEW k,
         Guarded(L, rd, cd, o, keyword, p, t, q, h), p \in Nat, o \in Marks, k = p + 1
  PROVE  /\ rd[k] = keyword /\ Value(L, rd, cd, k, t, q, h, 1) /\ Wanted(L, rd, cd, o, p, q)
         /\ k \in Nat /\ t \in Nat /\ q \in Nat /\ h \in Nat
         /\ k < t /\ t < Len(rd) /\ o.tok <= p /\ o.pos <= q /\ q <= h /\ h <= Len(cd)
<1>1. /\ rd[k] = keyword /\ Value(L, rd, cd, k, t, q, h, 1)
      /\ Wanted(L, rd, cd, o, p, q)
  BY DEF Guarded
<1>2. o.tok <= p /\ o.pos <= q  BY <1>1, WantedBounds
<1>3. Span(rd, cd, k, t, q, h) /\ k < t  BY <1>1 DEF Value, Operand
<1>. QED  BY <1>1, <1>2, <1>3 DEF Span

(* A jump back over as many bytes is the same one.                         *)
LEMMA SameDistance ==
  ASSUME NEW a, NEW rd, NEW cd, NEW b, NEW rd2, NEW cd2, NEW i, NEW j,
         Context(a, rd, cd), Context(b, rd2, cd2), i \in Nat, j \in Nat, i <= j,
         j <= Len(cd), j <= Len(cd2)
  PROVE  G!BackwardJump(Seg(cd, i, j)) = G!BackwardJump(Seg(cd2, i, j))
<1>1. cd \in Seq(Bytes) /\ cd2 \in Seq(Bytes)  BY DEF Context
<1>2. Len(Seg(cd, i, j)) = j - i  BY <1>1, SegIs
<1>3. Len(Seg(cd2, i, j)) = j - i  BY <1>1, SegIs
<1>. QED  BY <1>2, <1>3, SameJumps

-----------------------------------------------------------------------------
(* while and if. *)

(* The condition is complete, the jump behind it still to be patched. *)
LEMMA MarkGuarded ==
  ASSUME NEW a, NEW rd, NEW cd, NEW pv, NEW e, NEW i, NEW o, NEW rest, NEW cd1, NEW f,
         Stage(a, rd, cd, pv, e, i, o, rest), Added(cd, cd1, JumpCode("JMPF")),
         f.hole = Len(cd) + 1,
         \/ e.do = "while" /\ f.do = "loop" /\ f.start = e.start
         \/ e.do = "if" /\ f.do = "else"
  PROVE  Marked(Language[a], rd, cd1, pv, <<Do("stmt"), f>> \o rest)
<1>. DEFINE n == Len(rd) - 1
            c == Len(cd)
            r == c + 3
            L == Language[a]
<1>1. n = Len(rd) - 1 /\ c = Len(cd) /\ r = c + 3  OBVIOUS
<1>. HIDE DEF n, c, r
<1>2. /\ i \in Marks /\ o \in Marks /\ Holds(L, rd, cd, pv, i)
      /\ Linked(L, rd, cd, e, i, o) /\ n \in Nat /\ c \in Nat /\ r \in Nat
      /\ o.tok <= i.tok /\ o.pos <= i.pos /\ i.tok <= n /\ i.pos <= c
      /\ i.tok \in Nat /\ i.pos \in Nat /\ o.tok \in Nat /\ o.pos \in Nat
  <2>1. /\ i \in Marks /\ o \in Marks /\ Holds(L, rd, cd, pv, i)
        /\ Linked(L, rd, cd, e, i, o) /\ n \in Nat /\ c \in Nat
        /\ o.tok <= i.tok /\ o.pos <= i.pos /\ i.tok <= n /\ i.pos <= c
        /\ i.tok \in Nat /\ i.pos \in Nat /\ o.tok \in Nat /\ o.pos \in Nat
    BY <1>1, StageIs
  <2>2. r \in Nat  BY <1>1, <2>1
  <2>. QED  BY <2>1, <2>2
<1>3. /\ Context(a, rd, cd1) /\ Later(rd, cd, rd, cd1, 0, c) /\ Under(L, rd, cd1, rest, o)
      /\ Len(cd1) = r
  <2>1. Longer(cd, cd1) /\ Len(cd1) = Len(cd) + 3  BY AddedIs
  <2>2. /\ Context(a, rd, cd1) /\ Later(rd, cd, rd, cd1, 0, c) /\ Under(L, rd, cd1, rest, o)
    BY <1>1, <2>1, AfterEmit
  <2>. QED  BY <1>1, <2>1, <2>2
<1>. HIDE DEF L
<1>. DEFINE keyword == IF e.do = "while" THEN "WHILE" ELSE "IF"
<1>4. /\ e.do = "while" => keyword = "WHILE" /\ e.start = i.pos
      /\ e.do = "if" => keyword = "IF"
      /\ ConditionLink(L, rd, cd, keyword, i, o)
  <2>1. CASE e.do = "while"
    <3>1. e.start = i.pos /\ ConditionLink(L, rd, cd, "WHILE", i, o)
      BY <1>2, <2>1, StatementLinkIs
    <3>2. keyword = "WHILE" /\ e.do # "if"  BY <2>1
    <3>. QED  BY <3>1, <3>2
  <2>2. CASE e.do = "if"
    <3>1. ConditionLink(L, rd, cd, "IF", i, o)  BY <1>2, <2>2, StatementLinkIs
    <3>2. keyword = "IF" /\ e.do # "while"  BY <2>2
    <3>. QED  BY <3>1, <3>2
  <2>. QED  BY <2>1, <2>2
<1>. HIDE DEF keyword
<1>5. i.kind = "value" /\ i.level = 1 /\ Begun(L, rd, cd, o, keyword, i.tok, i.pos)
  BY <1>4 DEF ConditionLink
<1>6. PICK p \in Nat : i.tok = p + 1 /\ rd[i.tok] = keyword /\ Wanted(L, rd, cd, o, p, i.pos)
  BY <1>5 DEF Begun
<1>7. Guarded(L, rd, cd, o, keyword, p, n, i.pos, c)
  <2>1. Value(L, rd, cd, i.tok, n, i.pos, c, 1)  BY <1>1, <1>2, <1>5, ValueHeld
  <2>. QED  BY <1>2, <1>6, <2>1 DEF Guarded
<1>8. Guarded(L, rd, cd1, o, keyword, p, n, i.pos, c)
  <2>1. c <= c  BY <1>2
  <2>. QED  BY <1>3, <1>7, <2>1, KeepsGuarded
<1>9. Hanging(cd1, c, "JMPF", f, r)
  <2>1. Jumps(cd1, c, JumpCode("JMPF"))  BY <1>1 DEF Added
  <2>. QED  BY <1>1, <2>1 DEF Hanging
<1>. DEFINE V == Mark("stmt", n, r, 0)
<1>10. V \in Marks /\ V.kind = "stmt" /\ V.tok = n /\ V.pos = r
  BY <1>2 DEF Mark, Marks, Kinds
<1>. HIDE DEF V
<1>11. Linked(L, rd, cd1, f, V, o)
  <2>1. CASE e.do = "while" /\ f.do = "loop" /\ f.start = e.start
    <3>1. f.start = i.pos /\ keyword = "WHILE"  BY <1>4, <2>1
    <3>2. /\ Guarded(L, rd, cd1, o, "WHILE", p, V.tok, f.start, c)
          /\ Hanging(cd1, c, "JMPF", f, V.pos)
      BY <1>8, <1>9, <1>10, <3>1
    <3>3. LoopLink(L, rd, cd1, f, V, o)  BY <1>2, <1>10, <3>2 DEF LoopLink
    <3>. QED  BY <2>1, <3>3, StatementLinkIs
  <2>2. CASE e.do = "if" /\ f.do = "else"
    <3>2. /\ Guarded(L, rd, cd1, o, "IF", p, V.tok, i.pos, c)
          /\ Hanging(cd1, c, "JMPF", f, V.pos)
      BY <1>4, <1>8, <1>9, <1>10, <2>2
    <3>3. ElseLink(L, rd, cd1, f, V, o)  BY <1>2, <1>10, <3>2 DEF ElseLink
    <3>. QED  BY <2>2, <3>3, StatementLinkIs
  <2>. QED  BY <2>1, <2>2
<1>12. Link(L, rd, cd1, f, V, o)
  <2>1. o.tok <= V.tok /\ o.pos <= V.pos
    <3>1. o.tok <= n /\ o.pos <= r  BY <1>1, <1>2
    <3>. QED  BY <1>10, <3>1
  <2>. QED  BY <1>11, <2>1 DEF Link
<1>13. V.tok = Len(rd) - 1 /\ V.pos = Len(cd1)  BY <1>1, <1>3, <1>10
<1>. QED  BY <1>3, <1>10, <1>12, <1>13, PushStmt DEF L

(* The end of a while: a jump back, and the one out of it patched.         *)
LEMMA MarkLoop ==
  ASSUME NEW a, NEW rd, NEW cd, NEW pv, NEW e, NEW i, NEW o, NEW rest, NEW cd1, NEW cd2,
         Stage(a, rd, cd, pv, e, i, o, rest), e.do = "loop",
         e.start \in Nat /\ e.start <= Len(cd)
           => Added(cd, cd1, G!BackwardJump(Seg(cd, e.start, Len(cd)))),
         cd2 = Patched(cd1, e.hole)
  PROVE  Marked(Language[a], rd, cd2, pv, <<>> \o rest)
<1>. DEFINE n == Len(rd) - 1
            c == Len(cd)
            r == c + 3
            L == Language[a]
            back == G!BackwardJump(Seg(cd, e.start, c))
<1>1. n = Len(rd) - 1 /\ c = Len(cd) /\ r = c + 3  OBVIOUS
<1>. HIDE DEF n, c, r
<1>2. /\ Context(a, rd, cd) /\ i \in Marks /\ o \in Marks /\ Holds(L, rd, cd, pv, i)
      /\ Linked(L, rd, cd, e, i, o) /\ n \in Nat /\ c \in Nat
      /\ o.tok \in Nat /\ o.pos \in Nat
  BY <1>1, StageIs
<1>. HIDE DEF L
<1>3. i.kind = "stmt" /\ LoopLink(L, rd, cd, e, i, o)
  <2>1. LoopLink(L, rd, cd, e, i, o)  BY <1>2, StatementLinkIs
  <2>. QED  BY <2>1 DEF LoopLink
<1>4. Statement(L, rd, cd, i.tok, n, i.pos, c) /\ i.pos <= c
  <2>1. Statement(L, rd, cd, i.tok, n, i.pos, c)  BY <1>1, <1>2, <1>3, StmtHeld
  <2>. QED  BY <2>1 DEF Statement, Span
<1>5. PICK p \in Nat, h \in Nat : /\ Guarded(L, rd, cd, o, "WHILE", p, i.tok, e.start, h)
                                  /\ Hanging(cd, h, "JMPF", e, i.pos)
  BY <1>3 DEF LoopLink
<1>. DEFINE k == p + 1
<1>6. k = p + 1  OBVIOUS
<1>. HIDE DEF k
<1>7. /\ rd[k] = "WHILE" /\ Value(L, rd, cd, k, i.tok, e.start, h, 1)
      /\ Wanted(L, rd, cd, o, p, e.start)
      /\ k \in Nat /\ e.start \in Nat /\ k < i.tok /\ i.tok < Len(rd) /\ o.tok <= p
      /\ o.pos <= e.start /\ e.start <= h /\ h <= Len(cd)
  BY <1>2, <1>5, <1>6, GuardedIs
<1>8. e.hole = h + 1 /\ i.pos = h + 3 /\ Jumps(cd, h, JumpCode("JMPF"))
  BY <1>5 DEF Hanging
<1>9. o.pos <= h /\ Added(cd, cd1, back)  BY <1>1, <1>2, <1>5, <1>7
<1>10. ReadSome(a, rd, cd, rd)
  BY <1>2 DEF ReadSome, Agree, Context, Reads
<1>11. /\ PatchLeaves(a, rd, cd, rd, cd2, n, c, h, i.pos, r) /\ Under(L, rd, cd2, rest, o)
       /\ Jumps(cd2, c, back) /\ Jumps(cd2, h, G!JumpOver("JMPF", Seg(cd2, i.pos, r)))
  <2>. HIDE DEF back
  <2>1. cd2 = Patched(cd1, h + 1)  BY <1>8
  <2>2. "JMPF" \in {"JMP", "JMPF"}  OBVIOUS
  <2>. QED  BY <1>1, <1>4, <1>8, <1>9, <1>10, <2>1, <2>2, PatchAdded DEF L
<1>12. Context(a, rd, cd2) /\ r \in Nat /\ r = Len(cd2) /\ c <= r
  BY <1>11 DEF PatchLeaves
<1>13. Value(L, rd, cd2, k, i.tok, e.start, h, 1)  BY <1>7, <1>11, LeavesValue DEF L
<1>14. Statement(L, rd, cd2, i.tok, n, i.pos, c)
  <2>1. c <= c  BY <1>2
  <2>. QED  BY <1>4, <1>11, <2>1, LeavesStatement DEF L
<1>15. Wanted(L, rd, cd2, o, p, e.start)  BY <1>7, <1>11, LeavesWanted DEF L
<1>16. Seg(cd2, c, r) = G!BackwardJump(Seg(cd2, e.start, c))
  <2>1. e.start <= c /\ c <= Len(cd) /\ c <= Len(cd2)  BY <1>1, <1>2, <1>7, <1>12
  <2>2. back = G!BackwardJump(Seg(cd2, e.start, c))
    BY <1>2, <1>7, <1>12, <2>1, SameDistance
  <2>3. Seg(cd2, c, r) = back  BY <1>1, <1>11 DEF Jumps
  <2>. QED  BY <2>2, <2>3
<1>17. Seg(cd2, h, i.pos) = G!JumpOver("JMPF", Seg(cd2, i.pos, r))
  BY <1>8, <1>11 DEF Jumps
<1>18. Statement(L, rd, cd2, p, n, e.start, r)
  <2>1. r <= Len(cd2)  BY <1>12
  <2>. QED  BY <1>6, <1>7, <1>8, <1>12, <1>13, <1>14, <1>16, <1>17, <2>1, WhileStatement DEF L
<1>19. Holds(L, rd, cd2, pv, o)  BY <1>1, <1>12, <1>15, <1>18, WantedFound DEF L
<1>. QED  BY <1>2, <1>11, <1>19, PushNothing DEF L

(* A jump over as many bytes is the same one.                              *)
LEMMA SameOver ==
  ASSUME NEW a, NEW rd, NEW cd, NEW b, NEW rd2, NEW cd2, NEW i, NEW j, NEW op,
         Context(a, rd, cd), Context(b, rd2, cd2), i \in Nat, j \in Nat, i <= j,
         j <= Len(cd), j <= Len(cd2), op \in {"JMP", "JMPF"}
  PROVE  G!JumpOver(op, Seg(cd, i, j)) = G!JumpOver(op, Seg(cd2, i, j))
<1>1. cd \in Seq(Bytes) /\ cd2 \in Seq(Bytes)  BY DEF Context
<1>2. Seg(cd, i, j) \in Seq(Bytes) /\ Len(Seg(cd, i, j)) = j - i  BY <1>1, SegIs
<1>3. Seg(cd2, i, j) \in Seq(Bytes) /\ Len(Seg(cd2, i, j)) = j - i  BY <1>1, SegIs
<1>4. G!JumpOver(op, Seg(cd, i, j)) = Distance(op, j - i)  BY <1>2, JumpOverIs
<1>5. G!JumpOver(op, Seg(cd2, i, j)) = Distance(op, j - i)  BY <1>3, JumpOverIs
<1>. QED  BY <1>4, <1>5

(* A patch that no jump goes with.                                         *)
LEMMA PatchAlone ==
  ASSUME NEW a, NEW rd, NEW cd, NEW pv, NEW e, NEW i, NEW o, NEW rest,
         NEW cd2, NEW op, NEW n, NEW c, NEW h, NEW v,
         Stage(a, rd, cd, pv, e, i, o, rest), Jumps(cd, h, JumpCode(op)),
         op \in {"JMP", "JMPF"}, h \in Nat, v = h + 3, n = Len(rd) - 1, c = Len(cd),
         v <= c, cd2 = Patched(cd, h + 1), o.pos <= h
  PROVE  /\ PatchLeaves(a, rd, cd, rd, cd2, n, c, h, v, c)
         /\ Under(Language[a], rd, cd2, rest, o)
         /\ Jumps(cd2, h, G!JumpOver(op, Seg(cd2, v, c)))
<1>1. Context(a, rd, cd) /\ n \in Nat /\ c \in Nat  BY StageIs
<1>2. cd \in Seq(Bytes) /\ rd \in Seq(Tokens(a) \cup {"EOF"})
  BY <1>1 DEF Context, Reads, Tokens
<1>. DEFINE hole == h + 1
<1>3. hole = h + 1 /\ cd2 = Patched(cd, hole)  OBVIOUS
<1>. HIDE DEF hole
<1>4. Unpatched(cd, h, v, op, hole, c)
  <2>1. Seg(cd, h, v) = JumpCode(op)  BY DEF Jumps
  <2>. QED  BY <1>2, <1>3, <2>1 DEF Unpatched
<1>5. /\ Patched(cd, hole) \in Seq(Bytes) /\ Len(Patched(cd, hole)) = Len(cd)
      /\ Seg(Patched(cd, hole), h, v) = G!JumpOver(op, Seg(Patched(cd, hole), v, c))
      /\ \A k \in 1 .. Len(cd) : k <= h \/ v < k => Patched(cd, hole)[k] = cd[k]
  BY <1>4, PatchedSegs
<1>6. /\ cd2 \in Seq(Bytes) /\ Len(cd2) = Len(cd)
      /\ Seg(cd2, h, v) = G!JumpOver(op, Seg(cd2, v, c))
      /\ \A k \in 1 .. Len(cd) : k <= h \/ v < k => cd2[k] = cd[k]
  BY <1>3, <1>5, Zenon
<1>7. Len(cd) <= Len(cd2) /\ v <= Len(cd) /\ v \in Nat /\ c <= c /\ h + 3 <= Len(cd2)
  BY <1>1, <1>6
<1>8. ReadSome(a, rd, cd, rd)
  <2>1. Len(rd) <= Len(rd) /\ Agree(rd, rd, Len(rd))  BY <1>2 DEF Agree
  <2>. QED  BY <1>1, <2>1 DEF ReadSome
<1>9. /\ Context(a, rd, cd2) /\ Later(rd, cd, rd, cd2, 0, h)
      /\ Later(rd, cd, rd, cd2, v, c) /\ Under(Language[a], rd, cd2, rest, o)
  BY <1>6, <1>7, <1>8, AfterPatch
<1>. QED  BY <1>1, <1>6, <1>7, <1>9 DEF PatchLeaves, Jumps

(* Behind the first branch of an if. *)
BranchEnds(a, rd, cd, o, rest, f, n, c, r) ==
  /\ Context(a, rd, cd) /\ Under(Language[a], rd, cd, rest, o)
  /\ \E p \in Nat, q \in Nat : Branch(Language[a], rd, cd, o, p, n, q, c)
  /\ Hanging(cd, c, "JMP", f, r)
  /\ n \in Nat /\ c \in Nat /\ r \in Nat /\ r = c + 3 /\ r = Len(cd)
  /\ o \in Marks /\ o.tok <= n /\ o.pos <= c

BranchStage(a, rd, cd, pv, e, i, o, rest, cd1, cd2, f, rd2, n, c, r) ==
  /\ Stage(a, rd, cd, pv, e, i, o, rest) /\ e.do = "else"
  /\ Added(cd, cd1, JumpCode("JMP")) /\ cd2 = Patched(cd1, e.hole)
  /\ ReadSome(a, rd, cd, rd2) /\ f.hole = Len(cd) + 1
  /\ n = Len(rd) - 1 /\ c = Len(cd) /\ r = c + 3

(* The jump over an else, with the condition's jump patched.               *)
LEMMA BranchMade ==
  ASSUME NEW a, NEW rd, NEW cd, NEW pv, NEW e, NEW i, NEW o, NEW rest, NEW cd1, NEW cd2,
         NEW f, NEW rd2, NEW n, NEW c, NEW r,
         BranchStage(a, rd, cd, pv, e, i, o, rest, cd1, cd2, f, rd2, n, c, r)
  PROVE  BranchEnds(a, rd2, cd2, o, rest, f, n, c, r)
<1>. DEFINE L == Language[a]
            over == JumpCode("JMP")
<1>0. e.do = "else" /\ cd2 = Patched(cd1, e.hole) /\ Added(cd, cd1, over)
  BY DEF BranchStage
<1>. HIDE DEF over
<1>1. /\ Stage(a, rd, cd, pv, e, i, o, rest) /\ ReadSome(a, rd, cd, rd2)
      /\ f.hole = Len(cd) + 1 /\ n = Len(rd) - 1 /\ c = Len(cd) /\ r = c + 3
  BY DEF BranchStage
<1>2. /\ Context(a, rd, cd) /\ i \in Marks /\ o \in Marks /\ Holds(L, rd, cd, pv, i)
      /\ Linked(L, rd, cd, e, i, o) /\ n \in Nat /\ c \in Nat
      /\ o.tok <= n /\ o.pos <= c
  BY <1>1, StageIs
<1>. HIDE DEF L
<1>3. i.kind = "stmt" /\ ElseLink(L, rd, cd, e, i, o)
  <2>1. ElseLink(L, rd, cd, e, i, o)  BY <1>0, <1>2, StatementLinkIs
  <2>. QED  BY <2>1 DEF ElseLink
<1>4. Statement(L, rd, cd, i.tok, n, i.pos, c) /\ i.pos <= c /\ i.tok \in Nat /\ i.pos \in Nat
  <2>1. Statement(L, rd, cd, i.tok, n, i.pos, c)  BY <1>1, <1>2, <1>3, StmtHeld
  <2>. QED  BY <2>1 DEF Statement, Span
<1>5. PICK p \in Nat, q \in Nat, h \in Nat :
        /\ Guarded(L, rd, cd, o, "IF", p, i.tok, q, h)
        /\ Hanging(cd, h, "JMPF", e, i.pos)
  BY <1>3 DEF ElseLink
<1>6. o.pos <= h
  <2>. DEFINE k == p + 1
  <2>1. k = p + 1  OBVIOUS
  <2>. HIDE DEF k
  <2>2. o.pos <= q /\ q <= h  BY <1>2, <1>5, <2>1, GuardedIs
  <2>3. o.pos \in Nat  BY <1>2 DEF Marks
  <2>. QED  BY <1>5, <2>2, <2>3
<1>7. e.hole = h + 1 /\ i.pos = h + 3 /\ Jumps(cd, h, JumpCode("JMPF"))
  BY <1>5 DEF Hanging
<1>8. /\ PatchLeaves(a, rd, cd, rd2, cd2, n, c, h, i.pos, r) /\ Under(L, rd2, cd2, rest, o)
      /\ Jumps(cd2, c, over) /\ Jumps(cd2, h, G!JumpOver("JMPF", Seg(cd2, i.pos, r)))
  <2>1. cd2 = Patched(cd1, h + 1)  BY <1>0, <1>7
  <2>3. Added(cd, cd1, over)  BY <1>0
  <2>2. "JMPF" \in {"JMP", "JMPF"}  OBVIOUS
  <2>. QED  BY <1>1, <1>4, <1>5, <1>6, <1>7, <2>1, <2>2, <2>3, PatchAdded DEF L
<1>9. /\ Context(a, rd2, cd2) /\ r \in Nat /\ r = Len(cd2) /\ c <= r
      /\ Later(rd, cd, rd2, cd2, 0, h)
  BY <1>8 DEF PatchLeaves
<1>10. Guarded(L, rd2, cd2, o, "IF", p, i.tok, q, h)
  <2>1. h <= h  BY <1>5
  <2>. QED  BY <1>5, <1>9, <2>1, KeepsGuarded
<1>11. Statement(L, rd2, cd2, i.tok, n, i.pos, c)
  <2>1. c <= c  BY <1>2
  <2>. QED  BY <1>4, <1>8, <2>1, LeavesStatement DEF L
<1>12. Branch(L, rd2, cd2, o, p, n, q, c)
  <2>1. Jumps(cd2, h, G!JumpOver("JMPF", Seg(cd2, i.pos, c + 3)))  BY <1>1, <1>8
  <2>. QED  BY <1>4, <1>5, <1>7, <1>10, <1>11, <2>1 DEF Branch
<1>13. Hanging(cd2, c, "JMP", f, r)  BY <1>1, <1>8 DEF Hanging, over
<1>. QED  BY <1>1, <1>2, <1>5, <1>8, <1>9, <1>12, <1>13 DEF BranchEnds, L

(* An if with an else.                                                     *)
LEMMA MarkElse ==
  ASSUME NEW a, NEW rd, NEW cd, NEW pv, NEW e, NEW i, NEW o, NEW rest, NEW cd1, NEW cd2,
         NEW f, NEW rd2, NEW t,
         Stage(a, rd, cd, pv, e, i, o, rest), e.do = "else",
         Added(cd, cd1, JumpCode("JMP")), cd2 = Patched(cd1, e.hole),
         ReadOn(a, rd, cd, rd2), rd[Len(rd)] = "ELSE", f.do = "patch", f.hole = Len(cd) + 1
  PROVE  Marked(Language[a], rd2, cd2, t, <<Do("stmt"), f>> \o rest)
<1>. DEFINE n == Len(rd) - 1
            c == Len(cd)
            m == n + 1
            r == c + 3
            L == Language[a]
<1>1. n = Len(rd) - 1 /\ c = Len(cd) /\ m = n + 1 /\ r = c + 3  OBVIOUS
<1>. HIDE DEF n, c, m, r
<1>2. /\ rd2[m] = "ELSE" /\ m = Len(rd2) - 1 /\ ReadSome(a, rd, cd, rd2)
  <2>1. Read(a, rd, cd, rd2, n, m, c) /\ m = Len(rd) /\ m \in Nat  BY <1>1, ReadIs
  <2>2. rd2[m] = rd[m] /\ m = Len(rd2) - 1 /\ m < Len(rd2)  BY <2>1 DEF Read
  <2>3. Context(a, rd2, cd) /\ Agree(rd2, rd, Len(rd))
    BY <2>1 DEF Read, Later
  <2>4. Len(rd) <= Len(rd2)  BY <2>1, <2>2
  <2>. QED  BY <2>1, <2>2, <2>3, <2>4 DEF ReadSome
<1>3. BranchEnds(a, rd2, cd2, o, rest, f, n, c, r)
  <2>1. BranchStage(a, rd, cd, pv, e, i, o, rest, cd1, cd2, f, rd2, n, c, r)
    BY <1>1, <1>2 DEF BranchStage
  <2>. QED  BY <2>1, BranchMade
<1>4. /\ Context(a, rd2, cd2) /\ Under(L, rd2, cd2, rest, o)
      /\ Hanging(cd2, c, "JMP", f, r)
      /\ n \in Nat /\ c \in Nat /\ r \in Nat /\ r = Len(cd2)
      /\ o \in Marks /\ o.tok <= n /\ o.pos <= c
  BY <1>3 DEF BranchEnds
<1>5. PICK p \in Nat, q \in Nat : Branch(L, rd2, cd2, o, p, n, q, c)
  BY <1>3 DEF BranchEnds
<1>. HIDE DEF L
<1>6. m \in Nat /\ rd2[n + 1] = "ELSE"  BY <1>1, <1>2, <1>4
<1>. DEFINE V == Mark("stmt", m, r, 0)
<1>7. V \in Marks /\ V.kind = "stmt" /\ V.tok = m /\ V.pos = r
  BY <1>4, <1>6 DEF Mark, Marks, Kinds
<1>. HIDE DEF V
<1>8. Link(L, rd2, cd2, f, V, o)
  <2>1. PatchLink(L, rd2, cd2, f, V, o)
    BY <1>1, <1>4, <1>5, <1>6, <1>7 DEF PatchLink
  <2>2. Linked(L, rd2, cd2, f, V, o)  BY <2>1, StatementLinkIs
  <2>3. o.tok <= V.tok /\ o.pos <= V.pos
    <3>1. o.tok \in Nat /\ o.pos \in Nat  BY <1>4 DEF Marks
    <3>. QED  BY <1>1, <1>4, <1>7, <3>1
  <2>. QED  BY <2>2, <2>3 DEF Link
<1>9. V.tok = Len(rd2) - 1 /\ V.pos = Len(cd2)  BY <1>2, <1>4, <1>7
<1>. QED  BY <1>4, <1>7, <1>8, <1>9, PushStmt DEF L

(* An if without one: its second jump leads to the next byte.              *)
LEMMA MarkNoElse ==
  ASSUME NEW a, NEW rd, NEW cd, NEW pv, NEW e, NEW i, NEW o, NEW rest, NEW cd1, NEW cd2,
         NEW f,
         Stage(a, rd, cd, pv, e, i, o, rest), e.do = "else",
         Added(cd, cd1, JumpCode("JMP")), cd2 = Patched(cd1, e.hole),
         rd[Len(rd)] # "ELSE", f.do = "patch", f.hole = Len(cd) + 1
  PROVE  Marked(Language[a], rd, cd2, pv, <<f>> \o rest)
<1>. DEFINE n == Len(rd) - 1
            c == Len(cd)
            r == c + 3
            L == Language[a]
<1>1. n = Len(rd) - 1 /\ c = Len(cd) /\ r = c + 3  OBVIOUS
<1>. HIDE DEF n, c, r
<1>2. n + 1 = Len(rd) /\ Context(a, rd, cd)  BY <1>1, StageIs
<1>3. BranchEnds(a, rd, cd2, o, rest, f, n, c, r)
  <2>1. ReadSome(a, rd, cd, rd)  BY <1>2 DEF ReadSome, Agree, Context, Reads
  <2>2. BranchStage(a, rd, cd, pv, e, i, o, rest, cd1, cd2, f, rd, n, c, r)
    BY <1>1, <2>1 DEF BranchStage
  <2>. QED  BY <2>2, BranchMade
<1>4. /\ Context(a, rd, cd2) /\ Under(L, rd, cd2, rest, o)
      /\ Hanging(cd2, c, "JMP", f, r)
      /\ n \in Nat /\ c \in Nat /\ r \in Nat /\ r = Len(cd2)
      /\ o \in Marks /\ o.tok <= n /\ o.pos <= c
  BY <1>3 DEF BranchEnds
<1>5. PICK p \in Nat, q \in Nat : Branch(L, rd, cd2, o, p, n, q, c)
  BY <1>3 DEF BranchEnds
<1>. HIDE DEF L
<1>6. PICK x \in Marks : /\ x.kind = "here" /\ x.tok = Len(rd) - 1 /\ x.pos = Len(cd2)
                         /\ \A K, y : Holds(K, rd, cd2, y, x)
  BY <1>4, HereExists, Zenon
<1>7. x.kind = "here" /\ x.tok = n /\ x.pos = r  BY <1>1, <1>4, <1>6
<1>8. Link(L, rd, cd2, f, x, o)
  <2>0. rd[n + 1] # "ELSE"  BY <1>2
  <2>1. PatchLink(L, rd, cd2, f, x, o)
    BY <1>1, <1>4, <1>5, <1>7, <2>0 DEF PatchLink
  <2>2. Linked(L, rd, cd2, f, x, o)  BY <2>1, StatementLinkIs
  <2>3. o.tok <= x.tok /\ o.pos <= x.pos
    <3>1. o.tok \in Nat /\ o.pos \in Nat  BY <1>4 DEF Marks
    <3>. QED  BY <1>1, <1>4, <1>7, <3>1
  <2>. QED  BY <2>2, <2>3 DEF Link
<1>9. Holds(L, rd, cd2, pv, x)  BY <1>6
<1>. QED  BY <1>4, <1>6, <1>8, <1>9, PushOne DEF L

(* The end of an if, and of its second branch if there is one. *)
PatchStage(a, rd, cd, pv, e, i, o, rest, cd2, n, c) ==
  /\ Stage(a, rd, cd, pv, e, i, o, rest) /\ e.do = "patch" /\ cd2 = Patched(cd, e.hole)
  /\ n = Len(rd) - 1 /\ c = Len(cd)

(* What the patch leaves of the condition and the first branch. *)
PatchEnds(a, rd, cd, cd2, o, rest, i, n, c, p, t, j, q, h, v, k, w) ==
  /\ Context(a, rd, cd) /\ Context(a, rd, cd2) /\ Under(Language[a], rd, cd2, rest, o)
  /\ Guarded(Language[a], rd, cd2, o, "IF", p, t, q, h)
  /\ PatchLeaves(a, rd, cd, rd, cd2, n, c, k, w, c)
  /\ v = h + 3 /\ w = k + 3 /\ i.pos = w /\ w <= c /\ c = Len(cd2)
  /\ h \in Nat /\ k \in Nat /\ v \in Nat /\ c \in Nat /\ w \in Nat
  /\ Statement(Language[a], rd, cd2, t, j, v, k)
  /\ Jumps(cd2, h, G!JumpOver("JMPF", Seg(cd2, v, w)))
  /\ Jumps(cd2, k, G!JumpOver("JMP", Seg(cd2, w, c)))

(* What is left of an if when its second jump is patched.                  *)
LEMMA PatchedBranch ==
  ASSUME NEW a, NEW rd, NEW cd, NEW pv, NEW e, NEW i, NEW o, NEW rest, NEW cd2, NEW n, NEW c,
         NEW p, NEW t, NEW j, NEW q, NEW h, NEW v, NEW k, NEW w,
         PatchStage(a, rd, cd, pv, e, i, o, rest, cd2, n, c),
         p \in Nat, q \in Nat, h \in Nat, v \in Nat, k \in Nat,
         Guarded(Language[a], rd, cd, o, "IF", p, t, q, h),
         v = h + 3, Statement(Language[a], rd, cd, t, j, v, k),
         Jumps(cd, h, G!JumpOver("JMPF", Seg(cd, v, k + 3))),
         Hanging(cd, k, "JMP", e, i.pos), w = i.pos
  PROVE  PatchEnds(a, rd, cd, cd2, o, rest, i, n, c, p, t, j, q, h, v, k, w)
<1>. DEFINE L == Language[a]
<1>0. /\ Stage(a, rd, cd, pv, e, i, o, rest) /\ cd2 = Patched(cd, e.hole)
      /\ n = Len(rd) - 1 /\ c = Len(cd)
  BY DEF PatchStage
<1>2. /\ Context(a, rd, cd) /\ o \in Marks /\ n \in Nat /\ c \in Nat /\ i.pos <= c
  BY <1>0, StageIs
<1>3. e.hole = k + 1 /\ w = k + 3 /\ Jumps(cd, k, JumpCode("JMP")) /\ w \in Nat
  BY DEF Hanging
<1>. DEFINE s == p + 1
<1>4. s = p + 1  OBVIOUS
<1>. HIDE DEF s, L
<1>5. Guarded(L, rd, cd, o, "IF", p, t, q, h) /\ Statement(L, rd, cd, t, j, v, k)
  BY DEF L
<1>6. o.pos <= q /\ q <= h /\ h <= Len(cd)
  BY <1>2, <1>4, <1>5, GuardedIs
<1>7. v <= k /\ k <= c /\ w <= c
  <2>1. v <= k /\ k <= Len(cd)  BY <1>5 DEF Statement, Span
  <2>. QED  BY <1>0, <1>2, <2>1
<1>8. o.pos \in Nat /\ o.pos <= k /\ h <= k
  <2>1. o.pos \in Nat  BY <1>2 DEF Marks
  <2>2. h <= v  OBVIOUS
  <2>. QED  BY <1>6, <1>7, <2>1, <2>2
<1>9. /\ PatchLeaves(a, rd, cd, rd, cd2, n, c, k, w, c) /\ Under(L, rd, cd2, rest, o)
      /\ Jumps(cd2, k, G!JumpOver("JMP", Seg(cd2, w, c)))
  <2>1. cd2 = Patched(cd, k + 1)  BY <1>0, <1>3
  <2>2. "JMP" \in {"JMP", "JMPF"}  OBVIOUS
  <2>. QED  BY <1>0, <1>3, <1>7, <1>8, <2>1, <2>2, PatchAlone DEF L
<1>10. Context(a, rd, cd2) /\ Later(rd, cd, rd, cd2, 0, k) /\ c = Len(cd2)
  BY <1>9 DEF PatchLeaves
<1>11. Guarded(L, rd, cd2, o, "IF", p, t, q, h)
  BY <1>5, <1>8, <1>10, KeepsGuarded
<1>12. Statement(L, rd, cd2, t, j, v, k)
  <2>1. 0 <= v /\ k <= k  OBVIOUS
  <2>. QED  BY <1>5, <1>10, <2>1, KeepsStatement
<1>13. Jumps(cd2, h, G!JumpOver("JMPF", Seg(cd2, v, w)))
  <2>. DEFINE over == G!JumpOver("JMPF", Seg(cd, v, w))
  <2>1. Jumps(cd, h, over)  BY <1>3
  <2>2. over = G!JumpOver("JMPF", Seg(cd2, v, w))
    <3>1. v <= w /\ w <= Len(cd) /\ w <= Len(cd2)  BY <1>0, <1>3, <1>7, <1>10
    <3>2. "JMPF" \in {"JMP", "JMPF"}  OBVIOUS
    <3>. QED  BY <1>2, <1>3, <1>10, <3>1, <3>2, SameOver
  <2>. HIDE DEF over
  <2>3. Jumps(cd2, h, over)
    <3>1. 0 <= h  OBVIOUS
    <3>. QED  BY <1>7, <1>10, <2>1, <3>1, KeepsJumps
  <2>. QED  BY <2>2, <2>3
<1>. QED
  BY <1>2, <1>3, <1>7, <1>9, <1>10, <1>11, <1>12, <1>13 DEF PatchEnds, L

(* The end of an if.                                                       *)
LEMMA MarkPatch ==
  ASSUME NEW a, NEW rd, NEW cd, NEW pv, NEW e, NEW i, NEW o, NEW rest, NEW cd2,
         Stage(a, rd, cd, pv, e, i, o, rest), e.do = "patch", cd2 = Patched(cd, e.hole)
  PROVE  Marked(Language[a], rd, cd2, pv, <<>> \o rest)
<1>. DEFINE n == Len(rd) - 1
            c == Len(cd)
            L == Language[a]
<1>1. n = Len(rd) - 1 /\ c = Len(cd)  OBVIOUS
<1>0. PatchStage(a, rd, cd, pv, e, i, o, rest, cd2, n, c)  BY DEF PatchStage
<1>. HIDE DEF n, c
<1>2. /\ i \in Marks /\ o \in Marks /\ Holds(L, rd, cd, pv, i)
      /\ Linked(L, rd, cd, e, i, o) /\ n \in Nat /\ c \in Nat /\ n + 1 = Len(rd)
      /\ i.tok \in Nat /\ i.pos \in Nat /\ i.pos <= c
  BY <1>1, StageIs
<1>. HIDE DEF L
<1>3. PatchLink(L, rd, cd, e, i, o)  BY <1>2, StatementLinkIs
<1>4. PICK p \in Nat, j \in Nat, q \in Nat, k \in Nat :
        /\ Branch(L, rd, cd, o, p, j, q, k)
        /\ Hanging(cd, k, "JMP", e, i.pos)
        /\ \/ i.kind = "here" /\ i.tok = j /\ rd[j + 1] # "ELSE"
           \/ i.kind = "stmt" /\ i.tok = j + 1 /\ rd[j + 1] = "ELSE"
  BY <1>3 DEF PatchLink
<1>5. PICK t \in Nat, h \in Nat, v \in Nat :
        /\ Guarded(L, rd, cd, o, "IF", p, t, q, h)
        /\ v = h + 3 /\ Statement(L, rd, cd, t, j, v, k)
        /\ Jumps(cd, h, G!JumpOver("JMPF", Seg(cd, v, k + 3)))
  BY <1>4 DEF Branch
<1>. DEFINE w == i.pos
<1>6. w = i.pos  OBVIOUS
<1>. HIDE DEF w
<1>7. PatchEnds(a, rd, cd, cd2, o, rest, i, n, c, p, t, j, q, h, v, k, w)
  BY <1>0, <1>4, <1>5, <1>6, PatchedBranch DEF L
<1>8. /\ Context(a, rd, cd2) /\ Under(L, rd, cd2, rest, o)
      /\ Guarded(L, rd, cd2, o, "IF", p, t, q, h)
      /\ PatchLeaves(a, rd, cd, rd, cd2, n, c, k, w, c)
      /\ v = h + 3 /\ w = k + 3 /\ w <= c /\ c = Len(cd2)
      /\ Statement(L, rd, cd2, t, j, v, k)
      /\ Jumps(cd2, h, G!JumpOver("JMPF", Seg(cd2, v, w)))
      /\ Jumps(cd2, k, G!JumpOver("JMP", Seg(cd2, w, c)))
  BY <1>7 DEF PatchEnds, L
<1>. DEFINE s == p + 1
<1>9. s = p + 1  OBVIOUS
<1>. HIDE DEF s
<1>10. rd[s] = "IF" /\ Value(L, rd, cd2, s, t, q, h, 1) /\ Wanted(L, rd, cd2, o, p, q)
  BY <1>2, <1>8, <1>9, GuardedIs
<1>11. /\ Seg(cd2, h, v) = G!JumpOver("JMPF", Seg(cd2, v, w))
       /\ Seg(cd2, k, w) = G!JumpOver("JMP", Seg(cd2, w, c))
  BY <1>8 DEF Jumps
<1>14. /\ Context(a, rd, cd2) /\ s = p + 1 /\ v = h + 3 /\ w = k + 3 /\ rd[s] = "IF"
       /\ Value(Language[a], rd, cd2, s, t, q, h, 1)
       /\ Statement(Language[a], rd, cd2, t, j, v, k)
  BY <1>8, <1>9, <1>10 DEF L
<1>12. Statement(L, rd, cd2, p, n, q, c)
  <2>1. CASE i.kind = "here" /\ i.tok = j /\ rd[j + 1] # "ELSE"
    <3>1. i.tok = n /\ i.pos = c  BY <1>1, <1>2, <2>1, HereHeld
    <3>2. j = n /\ w = c  BY <1>6, <2>1, <3>1
    <3>3. Seg(cd2, w, c) = <<>>  BY <1>2, <3>2, SegNone
    <3>4. Seg(cd2, k, w) = G!JumpOver("JMP", <<>>)  BY <1>11, <3>3, Zenon
    <3>5. w <= Len(cd2)  BY <1>8, <1>2, <3>2
    <3>6. Statement(Language[a], rd, cd2, p, j, q, w)
      <4>1. rd[j + 1] # "ELSE"  BY <2>1
      <4>2. IfParts(a, rd, cd2, p, s, t, j, q, h, v, k, w)
        BY ONLY p \in Nat, <1>14, <1>11, <3>4, <3>5, <4>1 DEF IfParts
      <4>. QED  BY ONLY <4>2, IfStatement
    <3>. QED  BY <3>2, <3>6 DEF L
  <2>2. CASE i.kind = "stmt" /\ i.tok = j + 1 /\ rd[j + 1] = "ELSE"
    <3>1. Statement(L, rd, cd, i.tok, n, i.pos, c)  BY <1>1, <1>2, <2>2, StmtHeld
    <3>2. PICK y \in Nat : y = j + 1  OBVIOUS
    <3>3. Statement(L, rd, cd, y, n, w, c) /\ rd[y] = "ELSE"  BY <1>6, <2>2, <3>1, <3>2
    <3>4. Statement(L, rd, cd2, y, n, w, c)
      <4>1. c <= c  BY <1>2
      <4>2. PatchLeaves(a, rd, cd, rd, cd2, n, c, k, w, c)  BY <1>8
      <4>3. Statement(Language[a], rd, cd, y, n, w, c)  BY <3>3 DEF L
      <4>4. Statement(Language[a], rd, cd2, y, n, w, c)
        BY ONLY <4>1, <4>2, <4>3, LeavesStatement
      <4>. QED  BY <4>4 DEF L
    <3>5. Statement(Language[a], rd, cd2, y, n, w, c) /\ rd[y] = "ELSE" /\ y = j + 1
      BY <3>2, <3>3, <3>4 DEF L
    <3>6. Statement(Language[a], rd, cd2, p, n, q, c)
      <4>1. IfElseParts(a, rd, cd2, p, s, t, j, q, h, v, k, w, y, n, c)
        BY ONLY p \in Nat, <1>14, <1>11, <3>5 DEF IfElseParts
      <4>. QED  BY ONLY <4>1, IfElseStatement
    <3>. QED  BY <3>6 DEF L
  <2>. QED  BY <1>4, <2>1, <2>2
<1>13. Holds(L, rd, cd2, pv, o)
  BY <1>1, <1>8, <1>10, <1>12, WantedFound DEF L
<1>. QED  BY <1>2, <1>8, <1>13, PushNothing DEF L

-----------------------------------------------------------------------------
(* for: the initial statement and the condition. *)

(* A statement to be parsed, and two calls behind it.                      *)
LEMMA PushStmtThen ==
  ASSUME NEW a, NEW rd, NEW cd, NEW pv, NEW L, NEW rest, NEW o, NEW e, NEW f, NEW V, NEW W,
         Context(a, rd, cd), Under(L, rd, cd, rest, o), V \in Marks, W \in Marks,
         Link(L, rd, cd, f, V, o), Link(L, rd, cd, e, W, V),
         W.kind = "stmt", W.tok = Len(rd) - 1, W.pos = Len(cd)
  PROVE  Marked(L, rd, cd, pv, <<Do("stmt"), e, f>> \o rest)
<1>1. Under(L, rd, cd, <<f>> \o rest, V)  BY UnderPush
<1>2. PICK m \in Marks : Link(L, rd, cd, Do("stmt"), m, W) /\ Holds(L, rd, cd, pv, m)
  BY <1>1, PushStmt
<1>. QED  BY <1>2, PushThree

(* An expression to be parsed, and two calls behind it.                    *)
LEMMA PushExprThen ==
  ASSUME NEW a, NEW rd, NEW cd, NEW pv, NEW L, NEW rest, NEW o, NEW e, NEW f, NEW V, NEW W,
         Context(a, rd, cd), Under(L, rd, cd, rest, o), V \in Marks, W \in Marks,
         Link(L, rd, cd, f, V, o), Link(L, rd, cd, e, W, V),
         W.kind = "value", W.level = 1, W.tok = Len(rd) - 1, W.pos = Len(cd)
  PROVE  Marked(L, rd, cd, pv, <<Expr, e, f>> \o rest)
<1>1. Under(L, rd, cd, <<f>> \o rest, V) /\ 1 \in 1 .. 9  BY UnderPush
<1>2. PICK m \in Marks : Link(L, rd, cd, Prec(1), m, W) /\ Holds(L, rd, cd, pv, m)
  BY <1>1, PushPrec
<1>3. Marked(L, rd, cd, pv, <<Prec(1), e, f>> \o rest)  BY <1>2, PushThree
<1>. QED  BY <1>3, Levels

(* A for whose first part is empty.                                        *)
LEMMA MarkForInitNone ==
  ASSUME NEW a, NEW rd, NEW cd, NEW pv, NEW e, NEW i, NEW o, NEW rest, NEW rd2, NEW t, NEW f,
         Stage(a, rd, cd, pv, e, i, o, rest), e.do = "for",
         ReadOn(a, rd, cd, rd2), rd[Len(rd)] = "SEMICOLON", f.do = "for_condition"
  PROVE  Marked(Language[a], rd2, cd, t, <<f>> \o rest)
<1>. DEFINE n == Len(rd) - 1
            c == Len(cd)
            m == n + 1
            L == Language[a]
<1>1. n = Len(rd) - 1 /\ c = Len(cd) /\ m = n + 1  OBVIOUS
<1>. HIDE DEF n, c, m
<1>2. /\ Read(a, rd, cd, rd2, n, m, c) /\ m = Len(rd)
      /\ Context(a, rd2, cd) /\ Under(L, rd2, cd, rest, o)
      /\ n \in Nat /\ m \in Nat /\ c \in Nat
  BY <1>1, ReadIs
<1>3. /\ i \in Marks /\ o \in Marks /\ Holds(L, rd, cd, pv, i)
      /\ Linked(L, rd, cd, e, i, o) /\ o.tok <= n /\ o.pos <= c
  BY <1>1, StageIs
<1>. HIDE DEF L
<1>4. i.kind = "here" /\ Begun(L, rd, cd, o, "FOR", i.tok, i.pos)
  BY <1>3, StatementLinkIs DEF ForInitLink
<1>5. i.tok = n /\ i.pos = c  BY <1>1, <1>3, <1>4, HereHeld
<1>6. PICK p \in Nat : n = p + 1 /\ rd[n] = "FOR" /\ Wanted(L, rd, cd, o, p, c)
  BY <1>4, <1>5 DEF Begun
<1>7. Wanted(L, rd2, cd, o, p, c)
  <2>1. c <= c  BY <1>2
  <2>. QED  BY <1>2, <1>6, <2>1, ReadWanted DEF L
<1>8. rd2[n] = "FOR"
  <2>1. n # 0 /\ n <= m /\ n \in Nat  BY <1>1, <1>2, <1>6
  <2>2. Read(a, rd, cd, rd2, n, m, c)  BY <1>2
  <2>3. rd2[n] = rd[n]  BY ONLY <2>1, <2>2, ReadToken
  <2>. QED  BY <1>6, <2>3
<1>. DEFINE V == Mark("init", n, c, 0)
<1>9. V \in Marks /\ V.kind = "init" /\ V.tok = n /\ V.pos = c
  BY <1>2 DEF Mark, Marks, Kinds
<1>. HIDE DEF V
<1>10. Holds(L, rd2, cd, t, V)
  <2>1. m = Len(rd2) - 1 /\ m < Len(rd2) /\ rd2[m] = rd[m]  BY <1>2 DEF Read
  <2>2. Span(rd2, cd, n, m, c, c) /\ n < m
    <3>1. n <= m /\ n < m /\ c <= c /\ c <= Len(cd)  BY <1>1, <1>2
    <3>. QED  BY <1>2, <2>1, <3>1 DEF Span
  <2>3. rd2[m] = "SEMICOLON"  BY <1>2, <2>1
  <2>4. Initial(L, rd2, cd, n, m, c, c)  BY <1>1, <2>2, <2>3 DEF Initial
  <2>. QED  BY <1>1, <1>9, <2>1, <2>4, PartHolds
<1>11. Link(L, rd2, cd, f, V, o)
  <2>1. Begun(L, rd2, cd, o, "FOR", n, c)  BY <1>6, <1>7, <1>8 DEF Begun
  <2>2. ForConditionLink(L, rd2, cd, V, o)  BY <1>9, <2>1 DEF ForConditionLink
  <2>3. Linked(L, rd2, cd, f, V, o)  BY <2>2, StatementLinkIs
  <2>. QED  BY <1>3, <1>9, <2>3 DEF Link
<1>. QED  BY <1>2, <1>9, <1>10, <1>11, PushOne DEF L

(* A for with a first part.                                                *)
LEMMA MarkForInit ==
  ASSUME NEW a, NEW rd, NEW cd, NEW pv, NEW e, NEW i, NEW o, NEW rest, NEW f,
         Stage(a, rd, cd, pv, e, i, o, rest), e.do = "for",
         rd[Len(rd)] # "SEMICOLON", f.do = "for_condition"
  PROVE  Marked(Language[a], rd, cd, pv, <<Do("stmt"), Consume("SEMICOLON"), f>> \o rest)
<1>. DEFINE n == Len(rd) - 1
            c == Len(cd)
            L == Language[a]
            g == Consume("SEMICOLON")
<1>1. n = Len(rd) - 1 /\ c = Len(cd)  OBVIOUS
<1>0. g.do = "consume" /\ g.token = "SEMICOLON"  BY DEF Consume
<1>. HIDE DEF n, c, g
<1>2. /\ Context(a, rd, cd) /\ i \in Marks /\ o \in Marks /\ Holds(L, rd, cd, pv, i)
      /\ Linked(L, rd, cd, e, i, o) /\ o.tok <= n /\ o.pos <= c
      /\ Under(L, rd, cd, rest, o) /\ n \in Nat /\ c \in Nat /\ n + 1 = Len(rd)
  BY <1>1, StageIs
<1>. HIDE DEF L
<1>4. i.kind = "here" /\ Begun(L, rd, cd, o, "FOR", i.tok, i.pos)
  BY <1>2, StatementLinkIs DEF ForInitLink
<1>5. i.tok = n /\ i.pos = c  BY <1>1, <1>2, <1>4, HereHeld
<1>. DEFINE V == Mark("init", n, c, 0)
            W == Mark("stmt", n, c, 0)
<1>6. V \in Marks /\ V.kind = "init" /\ V.tok = n /\ V.pos = c
  BY <1>2 DEF Mark, Marks, Kinds
<1>7. W \in Marks /\ W.kind = "stmt" /\ W.tok = n /\ W.pos = c
  BY <1>2 DEF Mark, Marks, Kinds
<1>. HIDE DEF V, W
<1>8. Link(L, rd, cd, f, V, o)
  <2>1. ForConditionLink(L, rd, cd, V, o)  BY <1>4, <1>5, <1>6 DEF ForConditionLink
  <2>2. Linked(L, rd, cd, f, V, o)  BY <2>1, StatementLinkIs
  <2>. QED  BY <1>2, <1>6, <2>2 DEF Link
<1>9. Link(L, rd, cd, g, W, V)
  <2>1. rd[n + 1] # "SEMICOLON"  BY <1>2
  <2>2. InitLink(rd, W, V)  BY <1>6, <1>7, <2>1 DEF InitLink, SameStart
  <2>3. ConsumeLink(L, rd, cd, g.token, W, V)  BY <1>0, <2>2 DEF ConsumeLink
  <2>4. Linked(L, rd, cd, g, W, V)  BY <1>0, <2>3, LinkIs
  <2>5. n <= n /\ c <= c  BY <1>2
  <2>. QED  BY <1>6, <1>7, <2>4, <2>5 DEF Link
<1>10. W.tok = Len(rd) - 1 /\ W.pos = Len(cd)  BY <1>1, <1>7
<1>11. Marked(L, rd, cd, pv, <<Do("stmt"), g, f>> \o rest)
  BY <1>2, <1>6, <1>7, <1>8, <1>9, <1>10, PushStmtThen
<1>. QED  BY <1>11 DEF L, g

(* The first part is parsed.                                               *)
LEMMA HeadEnds ==
  ASSUME NEW L, NEW rd, NEW cd, NEW pv, NEW e, NEW i, NEW o, NEW n, NEW c,
         Linked(L, rd, cd, e, i, o), e.do = "for_condition", Holds(L, rd, cd, pv, i),
         n = Len(rd) - 1, c = Len(cd), n \in Nat, c \in Nat, i \in Marks
  PROVE  \E p \in Nat, q \in Nat : ForHead(L, rd, cd, o, p, n, q, c)
<1>1. i.kind = "init" /\ Begun(L, rd, cd, o, "FOR", i.tok, i.pos)
  BY StatementLinkIs DEF ForConditionLink
<1>2. PICK p \in Nat :
        i.tok = p + 1 /\ rd[i.tok] = "FOR" /\ Wanted(L, rd, cd, o, p, i.pos)
  BY <1>1 DEF Begun
<1>3. Initial(L, rd, cd, i.tok, n, i.pos, c)  BY <1>1, PartHeld
<1>4. i.tok \in Nat /\ i.pos \in Nat  BY DEF Marks
<1>5. ForHead(L, rd, cd, o, p, n, i.pos, c)  BY <1>2, <1>3, <1>4 DEF ForHead
<1>. QED  BY <1>2, <1>4, <1>5

(* A for without a condition.                                              *)
LEMMA MarkForAlways ==
  ASSUME NEW a, NEW rd, NEW cd, NEW pv, NEW e, NEW i, NEW o, NEW rest, NEW rd2, NEW t, NEW f,
         Stage(a, rd, cd, pv, e, i, o, rest), e.do = "for_condition",
         ReadOn(a, rd, cd, rd2), rd[Len(rd)] = "SEMICOLON",
         f.do = "for_step", f.start = Len(cd), f.exit = {}
  PROVE  Marked(Language[a], rd2, cd, t, <<f>> \o rest)
<1>. DEFINE n == Len(rd) - 1
            c == Len(cd)
            m == n + 1
            L == Language[a]
<1>1. n = Len(rd) - 1 /\ c = Len(cd) /\ m = n + 1  OBVIOUS
<1>. HIDE DEF n, c, m
<1>2. /\ Read(a, rd, cd, rd2, n, m, c) /\ m = Len(rd)
      /\ Context(a, rd2, cd) /\ Under(L, rd2, cd, rest, o)
      /\ n \in Nat /\ m \in Nat /\ c \in Nat
  BY <1>1, ReadIs
<1>3. /\ i \in Marks /\ o \in Marks /\ Holds(L, rd, cd, pv, i)
      /\ Linked(L, rd, cd, e, i, o) /\ o.tok <= n /\ o.pos <= c
  BY <1>1, StageIs
<1>. HIDE DEF L
<1>4. PICK p \in Nat, q \in Nat : ForHead(L, rd, cd, o, p, n, q, c)
  BY <1>1, <1>2, <1>3, HeadEnds
<1>5. /\ Later(rd, cd, rd2, cd, 0, c) /\ m = Len(rd2) - 1 /\ m < Len(rd2)
      /\ rd2[m] = "SEMICOLON"
  BY <1>2 DEF Read
<1>6. ForHead(L, rd2, cd, o, p, n, q, c)
  <2>1. c <= c  BY <1>2
  <2>. QED  BY <1>4, <1>5, <2>1, KeepsForHead
<1>7. ForGuard(L, rd2, cd, n, m, c, c, {})
  <2>1. n <= m /\ c <= c /\ c <= Len(cd)  BY <1>1, <1>2
  <2>2. Span(rd2, cd, n, m, c, c)  BY <1>2, <1>5, <2>1 DEF Span
  <2>. QED  BY <1>1, <1>5, <2>2 DEF ForGuard
<1>8. PICK x \in Marks : /\ x.kind = "here" /\ x.tok = Len(rd2) - 1 /\ x.pos = Len(cd)
                         /\ \A K, y : Holds(K, rd2, cd, y, x)
  BY <1>2, HereExists, Zenon
<1>9. x.tok = m /\ x.pos = c  BY <1>1, <1>5, <1>8
<1>10. Link(L, rd2, cd, f, x, o)
  <2>1. ForTop(L, rd2, cd, o, m, c, c, {})  BY <1>2, <1>4, <1>6, <1>7 DEF ForTop
  <2>2. f.start = c /\ f.exit = {}  BY <1>1
  <2>3. ForStepLink(L, rd2, cd, f, x, o)  BY <1>8, <1>9, <2>1, <2>2 DEF ForStepLink
  <2>4. Linked(L, rd2, cd, f, x, o)  BY <2>3, StatementLinkIs
  <2>5. o.tok <= m
    <3>1. o.tok \in Nat  BY <1>3 DEF Marks
    <3>. QED  BY <1>1, <1>2, <1>3, <3>1
  <2>. QED  BY <1>3, <1>9, <2>4, <2>5 DEF Link
<1>11. Holds(L, rd2, cd, t, x)  BY <1>8
<1>. QED  BY <1>2, <1>8, <1>10, <1>11, PushOne DEF L

(* A for with a condition.                                                 *)
LEMMA MarkForCondition ==
  ASSUME NEW a, NEW rd, NEW cd, NEW pv, NEW e, NEW i, NEW o, NEW rest, NEW f,
         Stage(a, rd, cd, pv, e, i, o, rest), e.do = "for_condition",
         f.do = "for_exit", f.start = Len(cd)
  PROVE  Marked(Language[a], rd, cd, pv, <<Expr, Consume("SEMICOLON"), f>> \o rest)
<1>. DEFINE n == Len(rd) - 1
            c == Len(cd)
            L == Language[a]
            g == Consume("SEMICOLON")
<1>1. n = Len(rd) - 1 /\ c = Len(cd)  OBVIOUS
<1>0. g.do = "consume" /\ g.token = "SEMICOLON"  BY DEF Consume
<1>. HIDE DEF n, c, g
<1>2. /\ Context(a, rd, cd) /\ i \in Marks /\ o \in Marks /\ Holds(L, rd, cd, pv, i)
      /\ Linked(L, rd, cd, e, i, o) /\ o.tok <= n /\ o.pos <= c
      /\ Under(L, rd, cd, rest, o) /\ n \in Nat /\ c \in Nat
  BY <1>1, StageIs
<1>. HIDE DEF L
<1>3. PICK p \in Nat, q \in Nat : ForHead(L, rd, cd, o, p, n, q, c)
  BY <1>1, <1>2, HeadEnds
<1>. DEFINE V == Mark("cond", n, c, 0)
            W == Mark("value", n, c, 1)
<1>6. V \in Marks /\ V.kind = "cond" /\ V.tok = n /\ V.pos = c
  BY <1>2 DEF Mark, Marks, Kinds
<1>7. W \in Marks /\ W.kind = "value" /\ W.tok = n /\ W.pos = c /\ W.level = 1
  BY <1>2 DEF Mark, Marks, Kinds
<1>. HIDE DEF V, W
<1>8. Link(L, rd, cd, f, V, o)
  <2>1. f.start = V.pos  BY <1>1, <1>6
  <2>2. ForHead(L, rd, cd, o, p, V.tok, q, V.pos)  BY <1>3, <1>6
  <2>3. ForExitLink(L, rd, cd, f, V, o)  BY <1>3, <1>6, <2>1, <2>2 DEF ForExitLink
  <2>4. Linked(L, rd, cd, f, V, o)  BY <2>3, StatementLinkIs
  <2>. QED  BY <1>2, <1>6, <2>4 DEF Link
<1>9. Link(L, rd, cd, g, W, V)
  <2>2. CondLink(W, V)  BY <1>6, <1>7 DEF CondLink, SameStart
  <2>3. ConsumeLink(L, rd, cd, g.token, W, V)  BY <1>0, <2>2 DEF ConsumeLink
  <2>4. Linked(L, rd, cd, g, W, V)  BY <1>0, <2>3, LinkIs
  <2>5. n <= n /\ c <= c  BY <1>2
  <2>. QED  BY <1>6, <1>7, <2>4, <2>5 DEF Link
<1>10. W.tok = Len(rd) - 1 /\ W.pos = Len(cd)  BY <1>1, <1>7
<1>11. Marked(L, rd, cd, pv, <<Expr, g, f>> \o rest)
  BY <1>2, <1>6, <1>7, <1>8, <1>9, <1>10, PushExprThen
<1>. QED  BY <1>11 DEF L, g

-----------------------------------------------------------------------------
(* for: the exit, the increment and the body. *)

(* The jump out of the loop, when the condition is parsed.                 *)
LEMMA MarkForExit ==
  ASSUME NEW a, NEW rd, NEW cd, NEW pv, NEW e, NEW i, NEW o, NEW rest, NEW cd1, NEW f,
         Stage(a, rd, cd, pv, e, i, o, rest), e.do = "for_exit",
         Added(cd, cd1, JumpCode("JMPF")),
         f.do = "for_step", f.start = e.start, f.exit = {Len(cd) + 1}
  PROVE  Marked(Language[a], rd, cd1, pv, <<f>> \o rest)
<1>. DEFINE n == Len(rd) - 1
            c == Len(cd)
            r == c + 3
            L == Language[a]
<1>1. n = Len(rd) - 1 /\ c = Len(cd) /\ r = c + 3  OBVIOUS
<1>. HIDE DEF n, c, r
<1>2. /\ i \in Marks /\ o \in Marks /\ Holds(L, rd, cd, pv, i)
      /\ Linked(L, rd, cd, e, i, o) /\ n \in Nat /\ c \in Nat /\ i.pos <= c
      /\ o.tok <= n /\ o.pos <= c /\ i.pos \in Nat /\ o.pos \in Nat
  BY <1>1, StageIs
<1>3. /\ Context(a, rd, cd1) /\ Later(rd, cd, rd, cd1, 0, c) /\ Under(L, rd, cd1, rest, o)
      /\ Len(cd1) = r /\ r \in Nat
  <2>1. Longer(cd, cd1) /\ Len(cd1) = Len(cd) + 3  BY AddedIs
  <2>2. /\ Context(a, rd, cd1) /\ Later(rd, cd, rd, cd1, 0, c) /\ Under(L, rd, cd1, rest, o)
    BY <1>1, <2>1, AfterEmit
  <2>. QED  BY <1>1, <1>2, <2>1, <2>2
<1>. HIDE DEF L
<1>4. ForExitLink(L, rd, cd, e, i, o)  BY <1>2, StatementLinkIs
<1>5. i.kind = "cond" /\ e.start = i.pos  BY <1>4 DEF ForExitLink
<1>6. PICK p \in Nat, q \in Nat : ForHead(L, rd, cd, o, p, i.tok, q, i.pos)
  BY <1>4 DEF ForExitLink
<1>7. Condition(L, rd, cd, i.tok, n, i.pos, c)  BY <1>1, <1>2, <1>5, PartHeld
<1>8. ForHead(L, rd, cd1, o, p, i.tok, q, i.pos)  BY <1>2, <1>3, <1>6, KeepsForHead
<1>9. Condition(L, rd, cd1, i.tok, n, i.pos, c)
  <2>1. 0 <= i.pos /\ c <= c  BY <1>2
  <2>. QED  BY <1>3, <1>7, <2>1, KeepsCondition
<1>10. Jumps(cd1, c, JumpCode("JMPF"))  BY <1>1 DEF Added
<1>11. ForGuard(L, rd, cd1, i.tok, n, i.pos, r, {c + 1})
  BY <1>1, <1>2, <1>9, <1>10 DEF ForGuard
<1>12. ForTop(L, rd, cd1, o, n, i.pos, r, {c + 1})
  <2>1. i.tok \in Nat  BY <1>2 DEF Marks
  <2>. QED  BY <1>6, <1>8, <1>11, <2>1 DEF ForTop
<1>13. PICK x \in Marks : /\ x.kind = "here" /\ x.tok = Len(rd) - 1 /\ x.pos = Len(cd1)
                          /\ \A K, y : Holds(K, rd, cd1, y, x)
  BY <1>3, HereExists, Zenon
<1>14. x.tok = n /\ x.pos = r  BY <1>1, <1>3, <1>13
<1>15. Link(L, rd, cd1, f, x, o)
  <2>1. f.start = i.pos /\ f.exit = {c + 1}  BY <1>1, <1>5
  <2>2. ForStepLink(L, rd, cd1, f, x, o)  BY <1>12, <1>13, <1>14, <2>1 DEF ForStepLink
  <2>3. Linked(L, rd, cd1, f, x, o)  BY <2>2, StatementLinkIs
  <2>4. o.pos <= r  BY <1>1, <1>2
  <2>. QED  BY <1>2, <1>14, <2>3, <2>4 DEF Link
<1>16. Holds(L, rd, cd1, pv, x)  BY <1>13
<1>. QED  BY <1>3, <1>13, <1>15, <1>16, PushOne DEF L

(* Behind the jump over the increment. *)
StepStage(a, rd, cd, pv, e, i, o, rest, cd1, f, n, c, r) ==
  /\ Stage(a, rd, cd, pv, e, i, o, rest) /\ e.do = "for_step"
  /\ Added(cd, cd1, JumpCode("JMP")) /\ f.do = "for_body" /\ f.start = e.start
  /\ f.exit = e.exit /\ f.hole = Len(cd) + 1 /\ f.step = Len(cd1)
  /\ n = Len(rd) - 1 /\ c = Len(cd) /\ r = c + 3

StepEnds(a, rd, cd, o, rest, f, n, r, V) ==
  /\ Context(a, rd, cd) /\ Under(Language[a], rd, cd, rest, o)
  /\ n = Len(rd) - 1 /\ r = Len(cd) /\ n \in Nat /\ r \in Nat
  /\ V \in Marks /\ V.kind = "increment" /\ V.tok = n /\ V.pos = r
  /\ Link(Language[a], rd, cd, f, V, o)

(* The jump over the third part.                                           *)
LEMMA StepMade ==
  ASSUME NEW a, NEW rd, NEW cd, NEW pv, NEW e, NEW i, NEW o, NEW rest, NEW cd1, NEW f,
         NEW n, NEW c, NEW r, StepStage(a, rd, cd, pv, e, i, o, rest, cd1, f, n, c, r)
  PROVE  \E V : StepEnds(a, rd, cd1, o, rest, f, n, r, V)
<1>. DEFINE L == Language[a]
<1>1. /\ Stage(a, rd, cd, pv, e, i, o, rest) /\ e.do = "for_step"
      /\ Added(cd, cd1, JumpCode("JMP")) /\ f.do = "for_body" /\ f.start = e.start
      /\ f.exit = e.exit /\ f.hole = Len(cd) + 1 /\ f.step = Len(cd1)
      /\ n = Len(rd) - 1 /\ c = Len(cd) /\ r = c + 3
  BY DEF StepStage
<1>2. /\ i \in Marks /\ o \in Marks /\ Holds(L, rd, cd, pv, i)
      /\ Linked(L, rd, cd, e, i, o) /\ n \in Nat /\ c \in Nat
      /\ o.tok <= n /\ o.pos <= c /\ o.pos \in Nat
  BY <1>1, StageIs
<1>3. /\ Context(a, rd, cd1) /\ Later(rd, cd, rd, cd1, 0, c) /\ Under(L, rd, cd1, rest, o)
      /\ Len(cd1) = r /\ r \in Nat
  <2>1. Longer(cd, cd1) /\ Len(cd1) = Len(cd) + 3  BY <1>1, AddedIs
  <2>2. /\ Context(a, rd, cd1) /\ Later(rd, cd, rd, cd1, 0, c) /\ Under(L, rd, cd1, rest, o)
    BY <1>1, <2>1, AfterEmit
  <2>. QED  BY <1>1, <1>2, <2>1, <2>2
<1>. HIDE DEF L
<1>4. ForStepLink(L, rd, cd, e, i, o)  BY <1>1, <1>2, StatementLinkIs
<1>5. i.kind = "here" /\ ForTop(L, rd, cd, o, i.tok, e.start, i.pos, e.exit)
  BY <1>4 DEF ForStepLink
<1>6. i.tok = n /\ i.pos = c  BY <1>1, <1>2, <1>5, HereHeld
<1>7. ForTop(L, rd, cd, o, n, e.start, c, e.exit)  BY <1>5, <1>6
<1>8. ForTop(L, rd, cd1, o, n, e.start, c, e.exit)
  <2>1. c <= c  BY <1>2
  <2>. QED  BY <1>3, <1>7, <2>1, KeepsForTop
<1>9. Jumps(cd1, c, JumpCode("JMP"))  BY <1>1 DEF Added
<1>. DEFINE V == Mark("increment", n, r, 0)
<1>10. V \in Marks /\ V.kind = "increment" /\ V.tok = n /\ V.pos = r
  BY <1>2, <1>3 DEF Mark, Marks, Kinds
<1>. HIDE DEF V
<1>11. Link(L, rd, cd1, f, V, o)
  <2>1. Hanging(cd1, c, "JMP", f, V.pos)  BY <1>1, <1>9, <1>10 DEF Hanging
  <2>2. ForTop(L, rd, cd1, o, V.tok, f.start, c, f.exit)  BY <1>1, <1>8, <1>10
  <2>3. f.step = c + 3  BY <1>1, <1>3
  <2>4. ForBodyLink(L, rd, cd1, f, V, o)  BY <1>2, <1>10, <2>1, <2>2, <2>3 DEF ForBodyLink
  <2>5. Linked(L, rd, cd1, f, V, o)  BY <1>1, <2>4, StatementLinkIs
  <2>6. o.pos <= r  BY <1>1, <1>2
  <2>. QED  BY <1>2, <1>10, <2>5, <2>6 DEF Link
<1>12. StepEnds(a, rd, cd1, o, rest, f, n, r, V)
  BY <1>1, <1>2, <1>3, <1>10, <1>11 DEF StepEnds, L
<1>. QED  BY <1>12

(* The third part, which may be empty.                                     *)
LEMMA MarkForStep ==
  ASSUME NEW a, NEW rd, NEW cd, NEW pv, NEW e, NEW i, NEW o, NEW rest, NEW cd1, NEW f,
         Stage(a, rd, cd, pv, e, i, o, rest), e.do = "for_step",
         Added(cd, cd1, JumpCode("JMP")), f.do = "for_body", f.start = e.start,
         f.exit = e.exit, f.hole = Len(cd) + 1, f.step = Len(cd1)
  PROVE  /\ Marked(Language[a], rd, cd1, pv, <<Expr, Emit(StatCode), f>> \o rest)
         /\ rd[Len(rd)] = "LBRACE" => Marked(Language[a], rd, cd1, pv, <<f>> \o rest)
<1>. DEFINE n == Len(rd) - 1
            c == Len(cd)
            r == c + 3
            L == Language[a]
            g == Emit(StatCode)
<1>1. n = Len(rd) - 1 /\ c = Len(cd) /\ r = c + 3  OBVIOUS
<1>0. g.do = "emit" /\ g.bytes = StatCode  BY DEF Emit
<1>. HIDE DEF n, c, r, g
<1>2. PICK V : StepEnds(a, rd, cd1, o, rest, f, n, r, V)
  <2>1. StepStage(a, rd, cd, pv, e, i, o, rest, cd1, f, n, c, r)  BY <1>1 DEF StepStage
  <2>. QED  BY <2>1, StepMade
<1>3. /\ Context(a, rd, cd1) /\ Under(L, rd, cd1, rest, o)
      /\ n = Len(rd) - 1 /\ r = Len(cd1) /\ n \in Nat /\ r \in Nat
      /\ V \in Marks /\ V.kind = "increment" /\ V.tok = n /\ V.pos = r
      /\ Link(L, rd, cd1, f, V, o)
  BY <1>2 DEF StepEnds
<1>. HIDE DEF L
<1>. DEFINE W == Mark("value", n, r, 1)
<1>4. W \in Marks /\ W.kind = "value" /\ W.tok = n /\ W.pos = r /\ W.level = 1
  BY <1>3 DEF Mark, Marks, Kinds
<1>. HIDE DEF W
<1>5. Link(L, rd, cd1, g, W, V)
  <2>1. StatLink(L, rd, cd1, g.bytes, W, V)  BY <1>0, <1>3, <1>4 DEF StatLink, SameStart
  <2>2. EmitLink(L, rd, cd1, g.bytes, W, V)  BY <2>1 DEF EmitLink
  <2>3. Linked(L, rd, cd1, g, W, V)  BY <1>0, <2>2, LinkIs
  <2>4. n <= n /\ r <= r  BY <1>3
  <2>. QED  BY <1>3, <1>4, <2>3, <2>4 DEF Link
<1>6. Marked(L, rd, cd1, pv, <<Expr, g, f>> \o rest)
  <2>1. W.tok = Len(rd) - 1 /\ W.pos = Len(cd1)  BY <1>3, <1>4
  <2>. QED  BY <1>3, <1>4, <1>5, <2>1, PushExprThen
<1>7. ASSUME rd[Len(rd)] = "LBRACE" PROVE Marked(L, rd, cd1, pv, <<f>> \o rest)
  <2>1. n + 1 = Len(rd) /\ n < Len(rd)  BY <1>1, StageIs
  <2>2. Span(rd, cd1, n, n, r, r)
    <3>1. n <= n /\ r <= r /\ r <= Len(cd1)  BY <1>3
    <3>. QED  BY <1>3, <2>1, <3>1 DEF Span
  <2>3. rd[n + 1] = "LBRACE"  BY <1>7, <2>1
  <2>4. Increment(L, rd, cd1, n, n, r, r)  BY <2>2, <2>3 DEF Increment
  <2>5. Holds(L, rd, cd1, pv, V)  BY <1>3, <2>4, PartHolds
  <2>. QED  BY <1>3, <2>5, PushOne
<1>. QED  BY <1>6, <1>7 DEF L, g

(* The loop starts behind the mark below.                                  *)
LEMMA TopIs ==
  ASSUME NEW a, NEW rd, NEW cd, NEW L, NEW o, NEW k, NEW start, NEW b, NEW exit,
         Context(a, rd, cd), ForTop(L, rd, cd, o, k, start, b, exit), b \in Nat,
         b <= Len(cd), o \in Marks
  PROVE  start \in Nat /\ start <= b /\ o.pos <= start
<1>1. PICK p \in Nat, t \in Nat, q \in Nat :
        /\ ForHead(L, rd, cd, o, p, t, q, start)
        /\ ForGuard(L, rd, cd, t, k, start, b, exit)
  BY DEF ForTop
<1>2. Len(cd) \in Nat /\ Later(rd, cd, rd, cd, 0, Len(cd))
  <2>1. /\ cd \in Seq(Bytes) /\ rd \in Seq(Tokens(a) \cup {"EOF"}) /\ Len(cd) \in Nat
    BY DEF Context, Reads, Tokens
  <2>2. Len(rd) <= Len(rd) /\ Agree(rd, rd, Len(rd)) /\ Alike(cd, cd, 0, Len(cd))
    BY <2>1 DEF Agree, Alike
  <2>. QED  BY <2>1, <2>2 DEF Later
<1>3. start \in Nat /\ start <= b  BY <1>1, <1>2, KeepsForGuard
<1>4. PICK m \in Nat : /\ Initial(L, rd, cd, m, t, q, start) /\ Wanted(L, rd, cd, o, p, q)
  BY <1>1 DEF ForHead
<1>5. q <= start  BY <1>4 DEF Initial, Span
<1>6. o.pos <= q  BY <1>4, WantedBounds
<1>7. o.pos \in Nat  BY DEF Marks
<1>. QED  BY <1>1, <1>3, <1>5, <1>6, <1>7

(* The jump back to the condition, with the one to the body patched.       *)
LEMMA MarkForBody ==
  ASSUME NEW a, NEW rd, NEW cd, NEW pv, NEW e, NEW i, NEW o, NEW rest, NEW cd1, NEW cd2,
         NEW f,
         Stage(a, rd, cd, pv, e, i, o, rest), e.do = "for_body",
         e.start \in Nat /\ e.start <= Len(cd)
           => Added(cd, cd1, G!BackwardJump(Seg(cd, e.start, Len(cd)))),
         cd2 = Patched(cd1, e.hole), f.do = "for_end", f.step = e.step, f.exit = e.exit
  PROVE  Marked(Language[a], rd, cd2, pv, <<Do("scope"), f>> \o rest)
<1>. DEFINE n == Len(rd) - 1
            c == Len(cd)
            r == c + 3
            L == Language[a]
            g == Do("scope")
            back == G!BackwardJump(Seg(cd, e.start, c))
<1>1. n = Len(rd) - 1 /\ c = Len(cd) /\ r = c + 3  OBVIOUS
<1>0. g.do = "scope"  BY DEF Do
<1>. HIDE DEF n, c, r, g
<1>2. /\ Context(a, rd, cd) /\ i \in Marks /\ o \in Marks /\ Holds(L, rd, cd, pv, i)
      /\ Linked(L, rd, cd, e, i, o) /\ n \in Nat /\ c \in Nat
      /\ o.tok <= n /\ o.pos <= c /\ i.tok \in Nat /\ i.pos \in Nat /\ i.pos <= c
      /\ o.pos \in Nat
  BY <1>1, StageIs
<1>. HIDE DEF L
<1>3. ForBodyLink(L, rd, cd, e, i, o)  BY <1>2, StatementLinkIs
<1>4. i.kind = "increment"  BY <1>3 DEF ForBodyLink
<1>5. PICK b \in Nat :
        /\ ForTop(L, rd, cd, o, i.tok, e.start, b, e.exit)
        /\ Hanging(cd, b, "JMP", e, i.pos) /\ e.step = b + 3
  BY <1>3 DEF ForBodyLink
<1>6. e.hole = b + 1 /\ i.pos = b + 3 /\ Jumps(cd, b, JumpCode("JMP"))
  BY <1>5 DEF Hanging
<1>7. b <= c  BY <1>2, <1>5, <1>6
<1>8. e.start \in Nat /\ e.start <= b /\ o.pos <= e.start
  BY <1>1, <1>2, <1>5, <1>7, TopIs
<1>9. e.start <= c /\ o.pos <= b  BY <1>2, <1>5, <1>7, <1>8
<1>10. Added(cd, cd1, back)  BY <1>1, <1>8, <1>9
<1>11. ReadSome(a, rd, cd, rd)
  <2>1. Context(a, rd, cd)  BY <1>2
  <2>2. rd \in Seq(Tokens(a) \cup {"EOF"})  BY <2>1 DEF Context, Reads, Tokens
  <2>3. Len(rd) <= Len(rd) /\ Agree(rd, rd, Len(rd))  BY ONLY <2>2 DEF Agree
  <2>. QED  BY <2>1, <2>3 DEF ReadSome
<1>12. /\ PatchLeaves(a, rd, cd, rd, cd2, n, c, b, i.pos, r) /\ Under(L, rd, cd2, rest, o)
       /\ Jumps(cd2, c, back) /\ Jumps(cd2, b, G!JumpOver("JMP", Seg(cd2, i.pos, r)))
  <2>. HIDE DEF back
  <2>1. cd2 = Patched(cd1, b + 1)  BY <1>6
  <2>2. "JMP" \in {"JMP", "JMPF"}  OBVIOUS
  <2>3. /\ Stage(a, rd, cd, pv, e, i, o, rest) /\ Jumps(cd, b, JumpCode("JMP"))
        /\ b \in Nat /\ i.pos = b + 3 /\ i.pos <= c /\ o.pos <= b
    BY <1>2, <1>5, <1>6, <1>9
  <2>. QED  BY ONLY <1>1, <1>10, <1>11, <2>1, <2>2, <2>3, PatchAdded DEF L
<1>13. /\ Context(a, rd, cd2) /\ r \in Nat /\ r = Len(cd2) /\ c <= r
       /\ Later(rd, cd, rd, cd2, 0, b) /\ Later(rd, cd, rd, cd2, i.pos, c)
  BY <1>12 DEF PatchLeaves
<1>14. ForTop(L, rd, cd2, o, i.tok, e.start, b, e.exit)
  <2>1. b <= b  BY <1>5
  <2>. QED  BY <1>5, <1>13, <2>1, KeepsForTop
<1>15. Increment(L, rd, cd2, i.tok, n, e.step, c)
  <2>1. Increment(L, rd, cd, i.tok, n, i.pos, c)  BY <1>1, <1>2, <1>4, PartHeld
  <2>2. i.pos <= i.pos /\ c <= c  BY <1>2
  <2>3. Increment(L, rd, cd2, i.tok, n, i.pos, c)  BY <1>13, <2>1, <2>2, KeepsIncrement
  <2>. QED  BY <1>5, <1>6, <2>3
<1>16. Jumps(cd2, c, G!BackwardJump(Seg(cd2, e.start, c)))
  <2>1. c <= Len(cd) /\ c <= Len(cd2)  BY <1>1, <1>2, <1>13
  <2>2. back = G!BackwardJump(Seg(cd2, e.start, c))
    BY <1>2, <1>8, <1>9, <1>13, <2>1, SameDistance
  <2>. QED  BY <1>12, <2>2
<1>17. Jumps(cd2, b, G!JumpOver("JMP", Seg(cd2, e.step, r)))
  BY <1>5, <1>6, <1>12
<1>. HIDE DEF back
<1>. DEFINE V == Mark("body", n, r, 0)
<1>18. V \in Marks /\ V.kind = "body" /\ V.tok = n /\ V.pos = r
  BY <1>2, <1>13 DEF Mark, Marks, Kinds
<1>. HIDE DEF V
<1>19. Link(L, rd, cd2, f, V, o)
  <2>1. /\ ForTop(L, rd, cd2, o, i.tok, e.start, b, f.exit) /\ f.step = b + 3
        /\ V.pos = c + 3 /\ Increment(L, rd, cd2, i.tok, V.tok, f.step, c)
        /\ Jumps(cd2, b, G!JumpOver("JMP", Seg(cd2, f.step, V.pos)))
        /\ Jumps(cd2, c, G!BackwardJump(Seg(cd2, e.start, c)))
    BY <1>1, <1>5, <1>14, <1>15, <1>16, <1>17, <1>18
  <2>2. ForEndLink(L, rd, cd2, f, V, o)
    BY <1>2, <1>5, <1>8, <1>18, <2>1 DEF ForEndLink
  <2>3. Linked(L, rd, cd2, f, V, o)  BY <2>2, StatementLinkIs
  <2>4. o.pos <= r  BY <1>1, <1>2
  <2>. QED  BY <1>2, <1>18, <2>3, <2>4 DEF Link
<1>20. PICK x \in Marks : /\ x.kind = "here" /\ x.tok = Len(rd) - 1 /\ x.pos = Len(cd2)
                          /\ \A K, y : Holds(K, rd, cd2, y, x)
  BY <1>13, HereExists, Zenon
<1>21. x.tok = n /\ x.pos = r  BY <1>1, <1>13, <1>20
<1>22. Link(L, rd, cd2, g, x, V)
  <2>1. ScopeLink(L, rd, cd2, x, V)  BY <1>18, <1>20, <1>21 DEF ScopeLink, SameStart
  <2>2. Linked(L, rd, cd2, g, x, V)  BY <1>0, <2>1, LinkIs
  <2>3. n <= n /\ r <= r  BY <1>2, <1>13
  <2>. QED  BY <1>18, <1>21, <2>2, <2>3 DEF Link
<1>23. Holds(L, rd, cd2, pv, x)  BY <1>20
<1>24. Marked(L, rd, cd2, pv, <<g, f>> \o rest)
  BY <1>12, <1>18, <1>19, <1>20, <1>22, <1>23, PushTwo
<1>. QED  BY <1>24 DEF L, g

(* The parts of a for statement up to the end of its body. *)
ForStage(a, rd, cd, pv, e, i, o, rest, cd1, n, c, r, x) ==
  /\ Stage(a, rd, cd, pv, e, i, o, rest) /\ e.do = "for_end"
  /\ e.step \in Nat /\ e.step <= Len(cd)
       => Added(cd, cd1, G!BackwardJump(Seg(cd, e.step, Len(cd))))
  /\ n = Len(rd) - 1 /\ c = Len(cd) /\ r = c + 3 /\ x = i.pos

ForEnds(a, rd, cd, o, p, s, t, q, start, k, b, w, m, v, x, n, c) ==
  /\ p \in Nat /\ t \in Nat /\ q \in Nat /\ k \in Nat /\ start \in Nat /\ b \in Nat
  /\ v \in Nat /\ m \in Nat /\ x \in Nat /\ w \in Nat
  /\ s = p + 1 /\ rd[s] = "FOR" /\ Initial(Language[a], rd, cd, s, t, q, start)
  /\ Wanted(Language[a], rd, cd, o, p, q) /\ o.pos <= q /\ q <= start
  /\ start <= b /\ w = b + 3 /\ w <= v /\ x = v + 3 /\ x <= c
  /\ Increment(Language[a], rd, cd, k, m, w, v)
  /\ Jumps(cd, b, G!JumpOver("JMP", Seg(cd, w, x)))
  /\ Jumps(cd, v, G!BackwardJump(Seg(cd, start, v)))
  /\ rd[n] = "RBRACE" /\ n \in Nat /\ List(Language[a], rd, cd, m + 1, n - 1, x, c)

(* All that has been parsed of a for when its body ends.                   *)
LEMMA ForGathered ==
  ASSUME NEW a, NEW rd, NEW cd, NEW pv, NEW e, NEW i, NEW o, NEW rest, NEW cd1,
         NEW n, NEW c, NEW r, NEW x,
         ForStage(a, rd, cd, pv, e, i, o, rest, cd1, n, c, r, x)
  PROVE  /\ \E p, s, t, q, start, k, b, v :
              /\ ForEnds(a, rd, cd, o, p, s, t, q, start, k, b, e.step, i.tok, v, x, n, c)
              /\ ForGuard(Language[a], rd, cd, t, k, start, b, e.exit)
         /\ Added(cd, cd1, G!BackwardJump(Seg(cd, e.step, c)))
<1>. DEFINE L == Language[a]
<1>1. /\ Stage(a, rd, cd, pv, e, i, o, rest) /\ e.do = "for_end"
      /\ n = Len(rd) - 1 /\ c = Len(cd) /\ r = c + 3 /\ x = i.pos
  BY DEF ForStage
<1>2. /\ Context(a, rd, cd) /\ i \in Marks /\ o \in Marks /\ Holds(L, rd, cd, pv, i)
      /\ Linked(L, rd, cd, e, i, o) /\ n \in Nat /\ c \in Nat
      /\ i.tok \in Nat /\ i.pos \in Nat /\ i.pos <= c
  BY <1>1, StageIs
<1>. HIDE DEF L
<1>3. ForEndLink(L, rd, cd, e, i, o)  BY <1>1, <1>2, StatementLinkIs
<1>4. i.kind = "body"  BY <1>3 DEF ForEndLink
<1>5. PICK k \in Nat, start \in Nat, b \in Nat, v \in Nat :
        /\ ForTop(L, rd, cd, o, k, start, b, e.exit)
        /\ e.step = b + 3 /\ i.pos = v + 3
        /\ Increment(L, rd, cd, k, i.tok, e.step, v)
        /\ Jumps(cd, b, G!JumpOver("JMP", Seg(cd, e.step, i.pos)))
        /\ Jumps(cd, v, G!BackwardJump(Seg(cd, start, v)))
  BY <1>3 DEF ForEndLink
<1>6. PICK p \in Nat, t \in Nat, q \in Nat :
        /\ ForHead(L, rd, cd, o, p, t, q, start)
        /\ ForGuard(L, rd, cd, t, k, start, b, e.exit)
  BY <1>5 DEF ForTop
<1>7. PICK s \in Nat : /\ s = p + 1 /\ rd[s] = "FOR" /\ Initial(L, rd, cd, s, t, q, start)
                       /\ Wanted(L, rd, cd, o, p, q)
  BY <1>6 DEF ForHead
<1>8. e.step <= v /\ e.step \in Nat  BY <1>5 DEF Increment, Span
<1>9. b <= c /\ e.step <= c  BY <1>1, <1>2, <1>5, <1>8
<1>10. start <= b  BY <1>1, <1>2, <1>5, <1>9, TopIs
<1>11. o.pos <= q  BY <1>2, <1>7, WantedBounds
<1>12. q <= start  BY <1>7 DEF Initial, Span
<1>13. Body(L, rd, cd, i.tok, n, x, c)  BY <1>1, <1>2, <1>4, PartHeld
<1>14. rd[n] = "RBRACE" /\ List(L, rd, cd, i.tok + 1, n - 1, x, c)  BY <1>13 DEF Body
<1>15. ForEnds(a, rd, cd, o, p, s, t, q, start, k, b, e.step, i.tok, v, x, n, c)
  BY <1>1, <1>2, <1>5, <1>6, <1>7, <1>8, <1>10, <1>11, <1>12, <1>14 DEF ForEnds, L
<1>16. Added(cd, cd1, G!BackwardJump(Seg(cd, e.step, c)))
  BY <1>1, <1>8, <1>9 DEF ForStage
<1>. QED  BY <1>6, <1>15, <1>16 DEF L

(* What the code emitted at the end of a for leaves as it was. *)
ForLater(a, rd, cd, cd2, d, b, c, start) ==
  /\ Context(a, rd, cd) /\ Context(a, rd, cd2)
  /\ Later(rd, cd, rd, cd2, 0, d) /\ Later(rd, cd, rd, cd2, b, c)
  /\ start <= d /\ c \in Nat /\ c <= Len(cd) /\ c <= Len(cd2)

(* All of it stays while code is added or the jump out is patched.         *)
LEMMA ForEndsKept ==
  ASSUME NEW a, NEW rd, NEW cd, NEW cd2, NEW d, NEW c, NEW o,
         NEW p, NEW s, NEW t, NEW q, NEW start, NEW k, NEW b, NEW w, NEW m, NEW v, NEW x,
         NEW n,
         ForEnds(a, rd, cd, o, p, s, t, q, start, k, b, w, m, v, x, n, c),
         ForLater(a, rd, cd, cd2, d, b, c, start)
  PROVE  ForEnds(a, rd, cd2, o, p, s, t, q, start, k, b, w, m, v, x, n, c)
<1>. DEFINE L == Language[a]
<1>1. /\ p \in Nat /\ t \in Nat /\ q \in Nat /\ k \in Nat /\ start \in Nat /\ b \in Nat
      /\ v \in Nat /\ m \in Nat /\ x \in Nat /\ w \in Nat /\ n \in Nat
      /\ s = p + 1 /\ rd[s] = "FOR" /\ o.pos <= q /\ q <= start
      /\ start <= b /\ w = b + 3 /\ w <= v /\ x = v + 3 /\ x <= c /\ rd[n] = "RBRACE"
  BY DEF ForEnds
<1>2. /\ Initial(L, rd, cd, s, t, q, start) /\ Wanted(L, rd, cd, o, p, q)
      /\ Increment(L, rd, cd, k, m, w, v) /\ List(L, rd, cd, m + 1, n - 1, x, c)
      /\ Jumps(cd, b, G!JumpOver("JMP", Seg(cd, w, x)))
      /\ Jumps(cd, v, G!BackwardJump(Seg(cd, start, v)))
  BY DEF ForEnds
<1>. HIDE DEF L
<1>3. /\ Context(a, rd, cd) /\ Context(a, rd, cd2)
      /\ Later(rd, cd, rd, cd2, 0, d) /\ Later(rd, cd, rd, cd2, b, c)
      /\ start <= d /\ c \in Nat /\ c <= Len(cd) /\ c <= Len(cd2)
  BY DEF ForLater
<1>4. Len(cd) \in Nat /\ Len(cd2) \in Nat /\ d \in Nat  BY <1>3 DEF Context, Later
<1>5. Initial(L, rd, cd2, s, t, q, start)
  <2>1. 0 <= q  BY <1>1
  <2>. QED  BY <1>2, <1>3, <2>1, KeepsInitial
<1>6. Wanted(L, rd, cd2, o, p, q)
  <2>1. q <= d  BY <1>1, <1>3, <1>4
  <2>. QED  BY <1>2, <1>3, <2>1, KeepsWanted
<1>7. /\ b <= w /\ b <= v /\ b <= x /\ v <= c /\ w <= x /\ w <= c /\ b <= b /\ c <= c
      /\ v <= Len(cd) /\ v <= Len(cd2) /\ x <= Len(cd) /\ x <= Len(cd2) /\ start <= v
  BY <1>1, <1>3, <1>4
<1>8. Increment(L, rd, cd2, k, m, w, v)  BY <1>2, <1>3, <1>7, KeepsIncrement
<1>9. List(L, rd, cd2, m + 1, n - 1, x, c)
  <2>. DEFINE y == m + 1
              z == n - 1
  <2>1. List(L, rd, cd, y, z, x, c)  BY <1>2
  <2>. HIDE DEF y, z
  <2>2. List(L, rd, cd2, y, z, x, c)  BY <1>3, <1>7, <2>1, KeepsList
  <2>. QED  BY <2>2 DEF y, z
<1>10. Jumps(cd2, b, G!JumpOver("JMP", Seg(cd2, w, x)))
  <2>. DEFINE over == G!JumpOver("JMP", Seg(cd, w, x))
  <2>1. Jumps(cd, b, over)  BY <1>2
  <2>2. over = G!JumpOver("JMP", Seg(cd2, w, x))
    <3>1. "JMP" \in {"JMP", "JMPF"}  OBVIOUS
    <3>. QED  BY <1>1, <1>3, <1>7, <3>1, SameOver
  <2>. HIDE DEF over
  <2>3. Jumps(cd2, b, over)  BY <1>1, <1>3, <1>7, <2>1, KeepsJumps
  <2>. QED  BY <2>2, <2>3
<1>11. Jumps(cd2, v, G!BackwardJump(Seg(cd2, start, v)))
  <2>. DEFINE back == G!BackwardJump(Seg(cd, start, v))
  <2>1. Jumps(cd, v, back)  BY <1>2
  <2>2. back = G!BackwardJump(Seg(cd2, start, v))  BY <1>1, <1>3, <1>7, SameDistance
  <2>. HIDE DEF back
  <2>3. Jumps(cd2, v, back)  BY <1>1, <1>3, <1>7, <2>1, KeepsJumps
  <2>. QED  BY <2>2, <2>3
<1>. QED  BY <1>1, <1>5, <1>6, <1>8, <1>9, <1>10, <1>11 DEF ForEnds, L

(* The end of a for without a condition.                                   *)
LEMMA MarkForEnd ==
  ASSUME NEW a, NEW rd, NEW cd, NEW pv, NEW e, NEW i, NEW o, NEW rest, NEW cd1,
         NEW n, NEW c, NEW r, NEW x,
         ForStage(a, rd, cd, pv, e, i, o, rest, cd1, n, c, r, x), e.exit = {}
  PROVE  Marked(Language[a], rd, cd1, pv, <<>> \o rest)
<1>. DEFINE L == Language[a]
            w == e.step
            m == i.tok
<1>1. PICK p, s, t, q, start, k, b, v :
         /\ ForEnds(a, rd, cd, o, p, s, t, q, start, k, b, w, m, v, x, n, c)
         /\ ForGuard(L, rd, cd, t, k, start, b, e.exit)
  BY ForGathered
<1>2. Added(cd, cd1, G!BackwardJump(Seg(cd, w, c)))  BY ForGathered
<1>3. /\ Stage(a, rd, cd, pv, e, i, o, rest) /\ n = Len(rd) - 1 /\ c = Len(cd) /\ r = c + 3
  BY DEF ForStage
<1>. HIDE DEF w, m
<1>4. /\ Context(a, rd, cd) /\ o \in Marks /\ n \in Nat /\ c \in Nat /\ n < Len(rd)
  BY <1>3, StageIs
<1>5. /\ Context(a, rd, cd1) /\ Later(rd, cd, rd, cd1, 0, c) /\ Under(L, rd, cd1, rest, o)
      /\ Len(cd1) = r /\ r \in Nat /\ c <= r /\ r <= Len(cd1)
  <2>1. Longer(cd, cd1) /\ Len(cd1) = Len(cd) + 3  BY <1>2, AddedIs
  <2>2. /\ Context(a, rd, cd1) /\ Later(rd, cd, rd, cd1, 0, c) /\ Under(L, rd, cd1, rest, o)
    BY <1>3, <2>1, AfterEmit
  <2>3. Len(cd1) = r  BY <1>3, <2>1
  <2>4. r \in Nat /\ c <= r  BY <1>3, <1>4
  <2>. QED  BY <2>2, <2>3, <2>4
<1>. HIDE DEF L
<1>6. start = b /\ k = t + 1 /\ rd[k] = "SEMICOLON"  BY <1>1 DEF ForGuard
<1>7. start \in Nat /\ b \in Nat /\ start <= c /\ w \in Nat /\ w <= c
  <2>1. /\ start \in Nat /\ b \in Nat /\ v \in Nat /\ w \in Nat /\ start <= b /\ w = b + 3
        /\ w <= v /\ x = v + 3 /\ x <= c
    BY <1>1 DEF ForEnds
  <2>. QED  BY ONLY <1>4, <2>1
<1>8. ForEnds(a, rd, cd1, o, p, s, t, q, start, k, b, w, m, v, x, n, c)
  <2>1. Later(rd, cd, rd, cd1, b, c)
    <3>1. 0 <= b /\ c <= c  BY <1>4, <1>7
    <3>. QED  BY <1>4, <1>5, <1>7, <3>1, LaterPart
  <2>2. ForLater(a, rd, cd, cd1, c, b, c, start)
    BY <1>3, <1>4, <1>5, <1>7, <2>1 DEF ForLater
  <2>. QED  BY <1>1, <2>2, ForEndsKept
<1>9. Seg(cd1, c, r) = G!BackwardJump(Seg(cd1, w, c))
  <2>1. Jumps(cd1, c, G!BackwardJump(Seg(cd, w, c)))  BY <1>2, <1>3 DEF Added
  <2>2. c <= Len(cd) /\ c <= Len(cd1)  BY <1>3, <1>4, <1>5
  <2>3. G!BackwardJump(Seg(cd, w, c)) = G!BackwardJump(Seg(cd1, w, c))
    BY <1>4, <1>5, <1>7, <2>2, SameDistance
  <2>. QED  BY <1>3, <2>1, <2>3 DEF Jumps
<1>10. PICK y : y = m + 1  OBVIOUS
<1>11. PICK l : l = n - 1  OBVIOUS
<1>12. FreeParts(a, rd, cd1, p, s, t, k, m, y, l, n, q, b, w, v, x, c, r)
  <2>1. /\ p \in Nat /\ s = p + 1 /\ w = b + 3 /\ x = v + 3 /\ rd[s] = "FOR"
        /\ rd[n] = "RBRACE" /\ Initial(L, rd, cd1, s, t, q, start)
        /\ Increment(L, rd, cd1, k, m, w, v) /\ List(L, rd, cd1, m + 1, n - 1, x, c)
        /\ Jumps(cd1, b, G!JumpOver("JMP", Seg(cd1, w, x)))
        /\ Jumps(cd1, v, G!BackwardJump(Seg(cd1, start, v)))
    BY <1>8 DEF ForEnds, L
  <2>2. /\ Initial(Language[a], rd, cd1, s, t, q, b) /\ Increment(Language[a], rd, cd1, k, m, w, v)
        /\ List(Language[a], rd, cd1, y, l, x, c)
    BY <1>6, <1>10, <1>11, <2>1 DEF L
  <2>3. /\ Seg(cd1, b, w) = G!JumpOver("JMP", Seg(cd1, w, x))
        /\ Seg(cd1, v, x) = G!BackwardJump(Seg(cd1, b, v))
    BY <1>6, <2>1 DEF Jumps
  <2>4. n = l + 1  BY <1>4, <1>11
  <2>. QED  BY ONLY <1>3, <1>4, <1>5, <1>6, <1>9, <1>10, <2>1, <2>2, <2>3, <2>4 DEF FreeParts
<1>13. Statement(L, rd, cd1, p, n, q, r)  BY <1>12, FreeFor DEF L
<1>14. Holds(L, rd, cd1, pv, o)
  <2>1. Wanted(L, rd, cd1, o, p, q)  BY <1>8 DEF ForEnds, L
  <2>. QED  BY <1>3, <1>5, <1>13, <2>1, WantedFound DEF L
<1>. QED  BY <1>4, <1>5, <1>14, PushNothing DEF L

(* The end of a for with one: the jump out is patched.                     *)
LEMMA MarkForEndPatched ==
  ASSUME NEW a, NEW rd, NEW cd, NEW pv, NEW e, NEW i, NEW o, NEW rest, NEW cd1, NEW cd2,
         NEW n, NEW c, NEW r, NEW x,
         ForStage(a, rd, cd, pv, e, i, o, rest, cd1, n, c, r, x), e.exit # {},
         cd2 = Patched(cd1, CHOOSE hole \in e.exit : TRUE)
  PROVE  Marked(Language[a], rd, cd2, pv, <<>> \o rest)
<1>. DEFINE L == Language[a]
            w == e.step
            m == i.tok
            back == G!BackwardJump(Seg(cd, w, c))
<1>1. PICK p, s, t, q, start, k, b, v :
         /\ ForEnds(a, rd, cd, o, p, s, t, q, start, k, b, w, m, v, x, n, c)
         /\ ForGuard(L, rd, cd, t, k, start, b, e.exit)
  BY ForGathered
<1>2. Added(cd, cd1, back)  BY ForGathered
<1>3. /\ Stage(a, rd, cd, pv, e, i, o, rest) /\ n = Len(rd) - 1 /\ c = Len(cd) /\ r = c + 3
  BY DEF ForStage
<1>. HIDE DEF w, m, back
<1>4. /\ Context(a, rd, cd) /\ o \in Marks /\ n \in Nat /\ c \in Nat /\ n < Len(rd)
      /\ o.pos \in Nat
  BY <1>3, StageIs
<1>. HIDE DEF L
<1>5. PICK h \in Nat : /\ e.exit = {h + 1} /\ b = h + 3
                       /\ Condition(L, rd, cd, t, k, start, h)
                       /\ Jumps(cd, h, JumpCode("JMPF"))
  BY <1>1 DEF ForGuard
<1>6. start \in Nat /\ start <= h  BY <1>5 DEF Condition, Span
<1>7. /\ b \in Nat /\ b <= c /\ w \in Nat /\ w <= c /\ q <= start /\ o.pos <= q /\ q \in Nat
      /\ b <= w
  <2>1. /\ start \in Nat /\ b \in Nat /\ v \in Nat /\ w \in Nat /\ start <= b /\ w = b + 3
        /\ w <= v /\ x = v + 3 /\ x <= c /\ q <= start /\ o.pos <= q /\ q \in Nat
    BY <1>1 DEF ForEnds
  <2>. QED  BY ONLY <1>4, <2>1
<1>8. o.pos <= h  BY <1>4, <1>5, <1>6, <1>7
<1>9. ReadSome(a, rd, cd, rd)
  <2>1. rd \in Seq(Tokens(a) \cup {"EOF"})  BY <1>4 DEF Context, Reads, Tokens
  <2>2. Len(rd) <= Len(rd) /\ Agree(rd, rd, Len(rd))  BY ONLY <2>1 DEF Agree
  <2>. QED  BY <1>4, <2>2 DEF ReadSome
<1>10. /\ PatchLeaves(a, rd, cd, rd, cd2, n, c, h, b, r) /\ Under(L, rd, cd2, rest, o)
       /\ Jumps(cd2, c, back) /\ Jumps(cd2, h, G!JumpOver("JMPF", Seg(cd2, b, r)))
  <2>1. cd2 = Patched(cd1, h + 1)
    <3>1. (CHOOSE hole \in {h + 1} : TRUE) = h + 1  OBVIOUS
    <3>. QED  BY <1>5, <3>1
  <2>2. "JMPF" \in {"JMP", "JMPF"}  OBVIOUS
  <2>3. /\ Jumps(cd, h, JumpCode("JMPF")) /\ h \in Nat /\ b = h + 3 /\ b <= c /\ o.pos <= h
    BY <1>5, <1>7, <1>8
  <2>. QED  BY ONLY <1>2, <1>3, <1>9, <2>1, <2>2, <2>3, PatchAdded DEF L
<1>11. /\ Context(a, rd, cd2) /\ Later(rd, cd, rd, cd2, 0, h) /\ Later(rd, cd, rd, cd2, b, c)
       /\ r \in Nat /\ r = Len(cd2) /\ c <= r
  BY <1>10 DEF PatchLeaves
<1>12. c <= Len(cd) /\ c <= Len(cd2)  BY <1>3, <1>4, <1>11
<1>13. ForEnds(a, rd, cd2, o, p, s, t, q, start, k, b, w, m, v, x, n, c)
  <2>1. ForLater(a, rd, cd, cd2, h, b, c, start)  BY <1>4, <1>6, <1>11, <1>12 DEF ForLater
  <2>. QED  BY <1>1, <2>1, ForEndsKept
<1>14. Condition(L, rd, cd2, t, k, start, h)
  <2>1. 0 <= start /\ h <= h  BY <1>5, <1>6
  <2>. QED  BY <1>5, <1>11, <2>1, KeepsCondition
<1>15. Seg(cd2, c, r) = G!BackwardJump(Seg(cd2, w, c)) /\ Seg(cd2, h, b) = G!JumpOver("JMPF", Seg(cd2, b, r))
  <2>1. back = G!BackwardJump(Seg(cd2, w, c))
    BY <1>4, <1>7, <1>11, <1>12, SameDistance DEF back
  <2>2. Seg(cd2, c, r) = back /\ Seg(cd2, h, b) = G!JumpOver("JMPF", Seg(cd2, b, r))
    BY <1>3, <1>5, <1>10 DEF Jumps
  <2>. QED  BY <2>1, <2>2
<1>16. PICK y : y = m + 1  OBVIOUS
<1>17. PICK l : l = n - 1  OBVIOUS
<1>18. GuardedParts(a, rd, cd2, p, s, t, k, m, y, l, n, q, start, h, b, w, v, x, c, r)
  <2>1. /\ p \in Nat /\ s = p + 1 /\ w = b + 3 /\ x = v + 3 /\ rd[s] = "FOR"
        /\ rd[n] = "RBRACE" /\ Initial(L, rd, cd2, s, t, q, start)
        /\ Increment(L, rd, cd2, k, m, w, v) /\ List(L, rd, cd2, m + 1, n - 1, x, c)
        /\ Jumps(cd2, b, G!JumpOver("JMP", Seg(cd2, w, x)))
        /\ Jumps(cd2, v, G!BackwardJump(Seg(cd2, start, v)))
    BY <1>13 DEF ForEnds, L
  <2>2. /\ Initial(Language[a], rd, cd2, s, t, q, start)
        /\ Increment(Language[a], rd, cd2, k, m, w, v)
        /\ List(Language[a], rd, cd2, y, l, x, c) /\ Condition(Language[a], rd, cd2, t, k, start, h)
    BY <1>14, <1>16, <1>17, <2>1 DEF L
  <2>3. /\ Seg(cd2, b, w) = G!JumpOver("JMP", Seg(cd2, w, x))
        /\ Seg(cd2, v, x) = G!BackwardJump(Seg(cd2, start, v))
    BY <2>1 DEF Jumps
  <2>4. n = l + 1 /\ r <= Len(cd2) /\ b = h + 3
    <3>1. n = l + 1  BY ONLY <1>4, <1>17
    <3>2. r <= Len(cd2)  BY ONLY <1>11
    <3>. QED  BY <1>5, <3>1, <3>2
  <2>. QED  BY ONLY <1>3, <1>4, <1>11, <1>15, <1>16, <2>1, <2>2, <2>3, <2>4 DEF GuardedParts
<1>19. Statement(L, rd, cd2, p, n, q, r)  BY <1>18, GuardedFor DEF L
<1>20. Holds(L, rd, cd2, pv, o)
  <2>1. Wanted(L, rd, cd2, o, p, q)  BY <1>13 DEF ForEnds, L
  <2>. QED  BY <1>3, <1>11, <1>19, <2>1, WantedFound DEF L
<1>. QED  BY <1>4, <1>10, <1>20, PushNothing DEF L

-----------------------------------------------------------------------------
(* The steps of the parser. *)

(* What is to be done next, and what is marked before and behind it.       *)
Staged(i, o) == Stage(alphabet, read, code, previous, Top, i, o, Tail(todo))

(* What each step leaves. *)
Stays ==
  status' = "parsing" =>
    \/ Doomed(current', todo')
    \/ Marked(Language[alphabet'], read', code', previous', todo')

(* Wherever the parser is, something is marked. *)
LEMMA StepBegins ==
  ASSUME TInv, todo # <<>>, Marked(Language[alphabet], read, code, previous, todo)
  PROVE  \E i, o : Staged(i, o)
<1>1. PICK i \in Marks : /\ Under(Language[alphabet], read, code, todo, i)
                         /\ Holds(Language[alphabet], read, code, previous, i)
  BY DEF Marked
<1>2. PICK o \in Marks : /\ Link(Language[alphabet], read, code, todo[1], i, o)
                         /\ Under(Language[alphabet], read, code, Tail(todo), o)
  BY <1>1, UnderPop
<1>3. Context(alphabet, read, code)  BY DEF TInv, Reading, Context
<1>. QED  BY <1>1, <1>2, <1>3, Zenon DEF Staged, Stage, Top

(* The token looked at is read. *)
LEMMA CurrentRead ==
  ASSUME TInv, Advance, alphabet' = alphabet, current # "EOF"
  PROVE  previous' = current /\ ReadOn(alphabet, read, code, read')
<1>1. Reading(alphabet, current, read) /\ code \in Seq(Bytes)  BY DEF TInv
<1>2. /\ Reading(alphabet', current', read') /\ read' = Append(read, current')
      /\ previous' = current
  BY <1>1, AdvanceReads
<1>3. Context(alphabet, read', code)  BY <1>1, <1>2 DEF Reading, Context
<1>4. \E x : read' = Append(read, x)  BY <1>2
<1>5. ReadOn(alphabet, read, code, read')  BY <1>3, <1>4 DEF ReadOn
<1>. QED  BY <1>2, <1>5

(* The token looked at is the last one read.                               *)
LEMMA TokenSeen == ASSUME TInv  PROVE current = read[Len(read)]
BY DEF TInv, Reading

(* What follows a lemma on a mark. *)
LEMMA StaysRead ==
  ASSUME alphabet' = alphabet, code' = code, previous' = current, NEW calls, todo' = calls,
         Marked(Language[alphabet], read', code, current, calls)
  PROVE  Stays
BY Zenon DEF Stays

(* What follows a lemma on a mark, when no token is read.                  *)
LEMMA StaysUnread ==
  ASSUME alphabet' = alphabet, Skip, NEW cd2, code' = cd2, NEW calls, todo' = calls,
         Marked(Language[alphabet], read, cd2, previous, calls)
  PROVE  Stays
<1>1. read' = read /\ previous' = previous  BY DEF Skip
<1>. QED  BY <1>1, Zenon DEF Stays

(* After an error nothing is marked any more.                              *)
LEMMA StaysError == ASSUME Error  PROVE Stays
BY DEF Error, Stays

(* prec: the prefix rule of a token.                                       *)
LEMMA PrecPrefixStays ==
  ASSUME TInv, PrecPrefix, NEW i, NEW o, Staged(i, o)
  PROVE  Stays
<1>1. CASE Prefix(current) = "NULL"  BY <1>1, StaysError DEF PrecPrefix
<1>2. CASE Prefix(current) # "NULL"
  <2>. DEFINE d == [do |-> Prefix(current), assigns |-> Top.level <= Level.ASSIGNMENT]
              f == [do |-> "infix", level |-> Top.level,
                    assigns |-> Top.level <= Level.ASSIGNMENT]
  <2>1. /\ Top.do = "prec" /\ Advance /\ todo' = <<d, f>> \o Tail(todo)
        /\ code' = code /\ alphabet' = alphabet
    BY <1>2 DEF PrecPrefix, At, Then, Goes
  <2>2. current # "EOF"
    BY <1>2, ParserAssumption DEF Prefix
  <2>3. previous' = current /\ ReadOn(alphabet, read, code, read') 
    BY <2>1, <2>2, CurrentRead
  <2>4. d.do = Prefix(current) /\ d.assigns = (Top.level <= 1)  BY Levels, Zenon
  <2>5. f.do = "infix" /\ f.level = Top.level /\ f.assigns = (Top.level <= 1)
    BY Levels, Zenon
  <2>6. current = read[Len(read)]  BY TokenSeen
  <2>. HIDE DEF d, f
  <2>7. Marked(Language[alphabet], read', code, current, <<d, f>> \o Tail(todo))
    BY ONLY <1>2, <2>1, <2>3, <2>4, <2>5, <2>6, Staged(i, o), MarkPrec, Zenon DEF Staged
  <2>. QED  BY ONLY <2>1, <2>3, <2>7, StaysRead, Zenon
<1>. QED  BY <1>1, <1>2

(* prec: the infix rules behind it.                                        *)
LEMMA PrecInfixStays ==
  ASSUME TInv, PrecInfix, NEW i, NEW o, Staged(i, o)
  PROVE  Stays
<1>0. Top.do = "infix" /\ current = read[Len(read)]  BY TokenSeen DEF PrecInfix, At
<1>1. CASE Top.level <= Precedence(current)
  <2>. DEFINE d == [do |-> Infix(current)]
  <2>1. /\ Advance /\ todo' = <<d, Top>> \o Tail(todo) /\ code' = code /\ alphabet' = alphabet
        /\ Infix(current) = "NULL" => status' = "undefined"
    BY <1>1 DEF PrecInfix, Then
  <2>2. CASE Infix(current) = "NULL"  BY <2>1, <2>2 DEF Stays
  <2>3. CASE Infix(current) # "NULL"
    <3>1. current # "EOF"
      <4>1. Precedence("EOF") = 0
        BY DEF Precedence, Level
      <4>2. Top.level \in 1 .. 9
        BY <1>0, TopTyped DEF PrecInfix, At, Typed
      <4>. QED  BY <1>1, <4>1, <4>2
    <3>2. previous' = current /\ ReadOn(alphabet, read, code, read') 
      BY <2>1, <3>1, CurrentRead
    <3>3. d.do = Infix(current)  OBVIOUS
    <3>. HIDE DEF d
    <3>4. Marked(Language[alphabet], read', code, current, <<d, Top>> \o Tail(todo))
      BY ONLY <1>0, <1>1, <2>3, <3>2, <3>3, Staged(i, o), MarkInfix, Zenon DEF Staged
    <3>. QED  BY ONLY <2>1, <3>2, <3>4, StaysRead, Zenon
  <2>. QED  BY <2>2, <2>3
<1>2. CASE ~ (Top.level <= Precedence(current)) /\ Top.assigns /\ current = "="
  BY <1>2, StaysError DEF PrecInfix
<1>3. CASE ~ (Top.level <= Precedence(current)) /\ ~ (Top.assigns /\ current = "=")
  <2>1. todo' = <<>> \o Tail(todo) /\ Skip /\ code' = code /\ alphabet' = alphabet
    BY <1>3 DEF PrecInfix, Then, Goes
  <2>2. Marked(Language[alphabet], read, code, previous, <<>> \o Tail(todo))
    <3>1. /\ ~ (Top.level <= Precedence(read[Len(read)]))
          /\ ~ (Top.assigns /\ read[Len(read)] = "=")
      BY <1>0, <1>3, Zenon
    <3>. QED  BY ONLY <1>0, <3>1, Staged(i, o), MarkValue, Zenon DEF Staged
  <2>. QED  BY ONLY <2>1, <2>2, StaysUnread, Zenon
<1>. QED  BY <1>1, <1>2, <1>3

(* The rules of the tokens. *)
LEMMA NameStays ==
  ASSUME TInv, Name, NEW i, NEW o, Staged(i, o)
  PROVE  Stays
<1>0. Top.do = "name" /\ todo # <<>> /\ code' = code /\ alphabet' = alphabet
  BY DEF Name, At, Goes
<1>1. previous \in Names  BY <1>0, TopTyped DEF Fits
<1>2. CASE Top.assigns /\ current = "="
  <2>. DEFINE b == OperandCode("SETGLOBAL", Index[previous])
  <2>1. Advance /\ todo' = <<Expr, Emit(b)>> \o Tail(todo)  BY <1>2 DEF Name, Then
  <2>2. current # "EOF"  BY <1>2
  <2>3. previous' = current /\ ReadOn(alphabet, read, code, read')
    BY <1>0, <2>1, <2>2, CurrentRead
  <2>4. current = read[Len(read)]  BY TokenSeen
  <2>5. b = OperandCode("SETGLOBAL", Index[previous])  OBVIOUS
  <2>. HIDE DEF b
  <2>6. Marked(Language[alphabet], read', code, current, <<Expr, Emit(b)>> \o Tail(todo))
    BY ONLY <1>0, <1>1, <1>2, <2>3, <2>4, <2>5, Staged(i, o), MarkStore, Zenon DEF Staged
  <2>. QED  BY ONLY <1>0, <2>1, <2>3, <2>6, StaysRead, Zenon
<1>3. CASE ~ (Top.assigns /\ current = "=")
  <2>. DEFINE b == OperandCode("LOADGLOBAL", Index[previous])
  <2>1. Skip /\ todo' = <<Emit(b)>> \o Tail(todo)  BY <1>3 DEF Name, Then
  <2>2. b = OperandCode("LOADGLOBAL", Index[previous])  OBVIOUS
  <2>3. Top.do \in {"name", "literal"}  BY <1>0
  <2>. HIDE DEF b
  <2>4. Marked(Language[alphabet], read, code, previous, <<Emit(b)>> \o Tail(todo))
    BY ONLY <2>3, <1>1, <2>2, Staged(i, o), MarkLoad, Zenon DEF Staged
  <2>. QED  BY ONLY <1>0, <2>1, <2>4, StaysUnread, Zenon
<1>. QED  BY <1>2, <1>3

(* A literal.                                                              *)
LEMMA LiteralStays ==
  ASSUME TInv, Literal, NEW i, NEW o, Staged(i, o)
  PROVE  Stays
<1>1. CASE previous = "void"  BY <1>1, StaysError DEF Literal
<1>2. CASE previous # "void"
  <2>. DEFINE b == ConstantCode(Index[previous])
  <2>1. /\ Top.do = "literal" /\ todo # <<>> /\ code' = code /\ alphabet' = alphabet
        /\ Skip /\ todo' = <<Emit(b)>> \o Tail(todo)
    BY <1>2 DEF Literal, At, Then, Goes
  <2>2. previous \in Literals  BY <1>2, <2>1, TopTyped DEF Fits
  <2>3. b = ConstantCode(Index[previous])  OBVIOUS
  <2>4. Top.do \in {"name", "literal"}  BY <2>1
  <2>. HIDE DEF b
  <2>5. Marked(Language[alphabet], read, code, previous, <<Emit(b)>> \o Tail(todo))
    BY ONLY <2>2, <2>3, <2>4, Staged(i, o), MarkLoad, Zenon DEF Staged
  <2>. QED  BY ONLY <2>1, <2>5, StaysUnread, Zenon
<1>. QED  BY <1>1, <1>2

(* Parentheses.                                                            *)
LEMMA GroupingStays ==
  ASSUME TInv, Grouping, NEW i, NEW o, Staged(i, o)
  PROVE  Stays
<1>1. /\ Top.do = "grouping" /\ code' = code /\ alphabet' = alphabet /\ Skip
      /\ todo' = <<Expr, Consume(")")>> \o Tail(todo)
  BY DEF Grouping, At, Then, Goes
<1>2. Marked(Language[alphabet], read, code, previous, <<Expr, Consume(")")>> \o Tail(todo))
  BY ONLY <1>1, Staged(i, o), MarkGrouping, Zenon DEF Staged
<1>. QED  BY ONLY <1>1, <1>2, StaysUnread, Zenon

(* A binary operator.                                                      *)
LEMMA BinaryStays ==
  ASSUME TInv, Binary, NEW i, NEW o, Staged(i, o)
  PROVE  Stays
<1>. DEFINE calls == <<Prec(Precedence(previous) + 1), Emit(BinaryBytes(previous))>>
<1>1. /\ Top.do = "binary" /\ todo # <<>> /\ code' = code /\ alphabet' = alphabet /\ Skip
      /\ todo' = calls \o Tail(todo)
  BY DEF Binary, At, Then, Goes
<1>2. previous \in BinaryTokens  BY <1>1, TopTyped DEF Fits
<1>3. Marked(Language[alphabet], read, code, previous, calls \o Tail(todo))
  BY ONLY <1>1, <1>2, Staged(i, o), MarkBinary, Zenon DEF Staged
<1>. HIDE DEF calls
<1>. QED  BY ONLY <1>1, <1>3, StaysUnread, Zenon

(* A prefix operator.                                                      *)
LEMMA UnaryStays ==
  ASSUME TInv, Unary, NEW i, NEW o, Staged(i, o)
  PROVE  Stays
<1>. DEFINE calls == <<Prec(Precedence(previous) + 1), Emit(UnaryBytes(previous))>>
<1>1. /\ Top.do = "unary" /\ todo # <<>> /\ code' = code /\ alphabet' = alphabet /\ Skip
      /\ todo' = calls \o Tail(todo)
  BY DEF Unary, At, Then, Goes
<1>2. previous \in UnaryTokens  BY <1>1, TopTyped DEF Fits
<1>3. Marked(Language[alphabet], read, code, previous, calls \o Tail(todo))
  BY ONLY <1>1, <1>2, Staged(i, o), MarkUnary, Zenon DEF Staged
<1>. HIDE DEF calls
<1>. QED  BY ONLY <1>1, <1>3, StaysUnread, Zenon

(* A step behind an operand.                                               *)
LEMMA PostfixStays ==
  ASSUME TInv, Postfix, NEW i, NEW o, Staged(i, o)
  PROVE  Stays
<1>. DEFINE calls == <<Emit(StepBytes(previous))>>
<1>1. /\ Top.do = "postfix" /\ code' = code /\ alphabet' = alphabet /\ Skip
      /\ todo' = calls \o Tail(todo)
  BY DEF Postfix, At, Then, Goes
<1>2. Marked(Language[alphabet], read, code, previous, calls \o Tail(todo))
  BY ONLY <1>1, Staged(i, o), MarkPostfix, Zenon DEF Staged
<1>. HIDE DEF calls
<1>. QED  BY ONLY <1>1, <1>2, StaysUnread, Zenon

(* A call.                                                                 *)
LEMMA CallStays ==
  ASSUME TInv, Call, NEW i, NEW o, Staged(i, o)
  PROVE  Stays
<1>0. Top.do = "call" /\ code' = code /\ alphabet' = alphabet  BY DEF Call, At, Goes
<1>1. CASE current = ")"
  <2>. DEFINE calls == <<Emit(<<Opcode("CALL"), 0>>)>>
  <2>1. Advance /\ todo' = calls \o Tail(todo)  BY <1>1 DEF Call, Then
  <2>2. current # "EOF"  BY <1>1
  <2>3. previous' = current /\ ReadOn(alphabet, read, code, read')
    BY <1>0, <2>1, <2>2, CurrentRead
  <2>4. current = read[Len(read)]  BY TokenSeen
  <2>5. Marked(Language[alphabet], read', code, current, calls \o Tail(todo))
    BY ONLY <1>0, <1>1, <2>3, <2>4, Staged(i, o), MarkEmptyCall, Zenon DEF Staged
  <2>. HIDE DEF calls
  <2>. QED  BY ONLY <1>0, <2>1, <2>3, <2>5, StaysRead, Zenon
<1>2. CASE current # ")"
  <2>. DEFINE f == [do |-> "argument", count |-> 0]
  <2>1. Skip /\ todo' = <<Expr, f>> \o Tail(todo)  BY <1>2 DEF Call, Then
  <2>2. f.do = "argument" /\ f.count = 0  OBVIOUS
  <2>. HIDE DEF f
  <2>3. Marked(Language[alphabet], read, code, previous, <<Expr, f>> \o Tail(todo))
    BY ONLY <1>0, <2>2, Staged(i, o), MarkCall, Zenon DEF Staged
  <2>. QED  BY ONLY <1>0, <2>1, <2>3, StaysUnread, Zenon
<1>. QED  BY <1>1, <1>2

(* An argument of a call.                                                  *)
LEMMA ArgumentStays ==
  ASSUME TInv, Argument, NEW i, NEW o, Staged(i, o)
  PROVE  Stays
<1>0. Top.do = "argument" /\ todo # <<>>  BY DEF Argument, At
<1>1. CASE Top.count = MAX_ARGUMENTS \/ current \notin {")", "COMMA"}
  BY <1>1, StaysError DEF Argument
<1>2. CASE ~ (Top.count = MAX_ARGUMENTS \/ current \notin {")", "COMMA"})
  <2>. DEFINE n == Top.count + 1
              f == [do |-> "argument", count |-> n]
  <2>1. Advance /\ code' = code /\ alphabet' = alphabet  BY <1>2 DEF Argument, Goes
  <2>2. current # "EOF"  BY <1>2
  <2>3. previous' = current /\ ReadOn(alphabet, read, code, read')
    BY <2>1, <2>2, CurrentRead
  <2>4. current = read[Len(read)]  BY TokenSeen
  <2>5. Top.count \in Nat /\ Top.count < MAX_ARGUMENTS
    <3>1. Top.count \in 0 .. MAX_ARGUMENTS  BY <1>0, TopTyped DEF Typed
    <3>2. MAX_ARGUMENTS \in Int  BY ByteRange, ParserAssumption DEF Bytes
    <3>. QED  BY <1>2, <3>1, <3>2
  <2>6. CASE current = ")"
    <3>. DEFINE calls == <<Emit(<<Opcode("CALL"), n>>)>>
    <3>1. todo' = calls \o Tail(todo)  BY <1>2, <2>6 DEF Argument, Then
    <3>2. n = Top.count + 1  OBVIOUS
    <3>. HIDE DEF n
    <3>3. Marked(Language[alphabet], read', code, current, calls \o Tail(todo))
      BY ONLY <1>0, <2>3, <2>4, <2>5, <2>6, <3>2, Staged(i, o), MarkArguments, Zenon
      DEF Staged
    <3>. HIDE DEF calls
    <3>. QED  BY ONLY <2>1, <2>3, <3>1, <3>3, StaysRead, Zenon
  <2>7. CASE current = "COMMA"
    <3>1. todo' = <<Expr, f>> \o Tail(todo)  BY <1>2, <2>7 DEF Argument, Then
    <3>2. f.do = "argument" /\ f.count = Top.count + 1  OBVIOUS
    <3>. HIDE DEF f
    <3>3. Marked(Language[alphabet], read', code, current, <<Expr, f>> \o Tail(todo))
      BY ONLY <1>0, <2>3, <2>4, <2>5, <2>7, <3>2, Staged(i, o), MarkNextArgument, Zenon
      DEF Staged
    <3>. QED  BY ONLY <2>1, <2>3, <3>1, <3>3, StaysRead, Zenon
  <2>. QED  BY <1>2, <2>6, <2>7
<1>. QED  BY <1>1, <1>2

(* The code emitted behind what was parsed.                                *)
LEMMA EmitStays ==
  ASSUME TInv, EmitBytes, NEW i, NEW o, Staged(i, o)
  PROVE  Stays
<1>. DEFINE cd2 == code \o Top.bytes
<1>1. /\ Top.do = "emit" /\ todo # <<>> /\ code' = cd2 /\ alphabet' = alphabet
      /\ Skip /\ todo' = <<>> \o Tail(todo)
  BY DEF EmitBytes, At, Then, Goes
<1>2. Top.bytes \in Seq(Bytes)  BY <1>1, TopTyped DEF Typed
<1>3. cd2 = code \o Top.bytes  OBVIOUS
<1>. HIDE DEF cd2
<1>4. Marked(Language[alphabet], read, cd2, previous, <<>> \o Tail(todo))
  BY ONLY <1>1, <1>2, <1>3, Staged(i, o), MarkEmit, Zenon DEF Staged
<1>. QED  BY ONLY <1>1, <1>4, StaysUnread, Zenon

(* A token consumed.                                                       *)
LEMMA ConsumeStays ==
  ASSUME TInv, ConsumeToken, NEW i, NEW o, Staged(i, o)
  PROVE  Stays
<1>1. CASE current # Top.token  BY <1>1, StaysError DEF ConsumeToken
<1>2. CASE current = Top.token
  <2>1. /\ Top.do = "consume" /\ todo # <<>> /\ code' = code /\ alphabet' = alphabet
        /\ Advance /\ todo' = <<>> \o Tail(todo)
    BY <1>2 DEF ConsumeToken, At, Then, Goes
  <2>2. current # "EOF"
    <3>1. Link(Language[alphabet], read, code, Top, i, o)  BY DEF Staged, Stage
    <3>2. ConsumeLink(Language[alphabet], read, code, Top.token, i, o)
      BY <2>1, <3>1, LinkIs, Zenon DEF Link
    <3>3. Top.token \in {")", "SEMICOLON", "RBRACE"}  BY <3>2, Zenon DEF ConsumeLink
    <3>. QED  BY <1>2, <3>3
  <2>3. previous' = current /\ ReadOn(alphabet, read, code, read')
    BY <2>1, <2>2, CurrentRead
  <2>4. current = read[Len(read)]  BY TokenSeen
  <2>5. Marked(Language[alphabet], read', code, current, <<>> \o Tail(todo))
    BY ONLY <1>2, <2>1, <2>3, <2>4, Staged(i, o), MarkConsume, Zenon DEF Staged
  <2>. QED  BY ONLY <2>1, <2>3, <2>5, StaysRead, Zenon
<1>. QED  BY <1>1, <1>2

(* All the steps of the expressions.                                       *)
LEMMA ExpressionStays ==
  ASSUME TInv, ExpressionStep, NEW i, NEW o, Staged(i, o)
  PROVE  Stays
BY PrecPrefixStays, PrecInfixStays, NameStays, LiteralStays, GroupingStays, BinaryStays,
   UnaryStays, PostfixStays, CallStays, ArgumentStays, EmitStays, ConsumeStays, Zenon
DEF ExpressionStep

(* The statements. *)
LEMMA StmtStays ==
  ASSUME TInv, Stmt, NEW i, NEW o, Staged(i, o)
  PROVE  Stays
<1>0. Top.do = "stmt" /\ code' = code /\ alphabet' = alphabet  BY DEF Stmt, At, Goes
<1>1. current = read[Len(read)]  BY TokenSeen
<1>2. ASSUME Advance, current # "EOF"
      PROVE  previous' = current /\ ReadOn(alphabet, read, code, read')
  BY <1>0, <1>2, CurrentRead
<1>3. CASE current \in {"SEMICOLON", "BIND"}
  <2>1. Advance /\ todo' = <<>> \o Tail(todo) /\ current # "EOF"  BY <1>3 DEF Stmt, Then
  <2>2. previous' = current /\ ReadOn(alphabet, read, code, read')  BY <1>2, <2>1
  <2>3. Marked(Language[alphabet], read', code, current, <<>> \o Tail(todo))
    BY ONLY <1>0, <1>1, <1>3, <2>2, Staged(i, o), MarkSkip, Zenon DEF Staged
  <2>. QED  BY ONLY <1>0, <2>1, <2>2, <2>3, StaysRead, Zenon
<1>4. CASE current = "RETURN"
  <2>. DEFINE f == Do("return")
  <2>1. Advance /\ todo' = <<f>> \o Tail(todo) /\ current # "EOF"  BY <1>4 DEF Stmt, Then
  <2>2. previous' = current /\ ReadOn(alphabet, read, code, read')  BY <1>2, <2>1
  <2>3. f.do = "return"  BY DEF Do
  <2>. HIDE DEF f
  <2>4. Marked(Language[alphabet], read', code, current, <<f>> \o Tail(todo))
    BY ONLY <1>0, <1>1, <1>4, <2>2, <2>3, Staged(i, o), MarkReturn, Zenon DEF Staged
  <2>. QED  BY ONLY <1>0, <2>1, <2>2, <2>4, StaysRead, Zenon
<1>5. CASE current = "PRINT"
  <2>. DEFINE calls == <<Expr, Emit(<<Opcode("PRINT")>>)>>
  <2>1. Advance /\ todo' = calls \o Tail(todo) /\ current # "EOF"  BY <1>5 DEF Stmt, Then
  <2>2. previous' = current /\ ReadOn(alphabet, read, code, read')  BY <1>2, <2>1
  <2>3. Marked(Language[alphabet], read', code, current, calls \o Tail(todo))
    BY ONLY <1>0, <1>1, <1>5, <2>2, Staged(i, o), MarkPrint, Zenon DEF Staged
  <2>. HIDE DEF calls
  <2>. QED  BY ONLY <1>0, <2>1, <2>2, <2>3, StaysRead, Zenon
<1>6. CASE current = "WHILE"
  <2>. DEFINE f == [do |-> "while", start |-> Len(code)]
  <2>1. Advance /\ todo' = <<Expr, f>> \o Tail(todo) /\ current # "EOF"
    BY <1>6 DEF Stmt, Then
  <2>2. previous' = current /\ ReadOn(alphabet, read, code, read')  BY <1>2, <2>1
  <2>3. f.do = "while" /\ f.start = Len(code)  OBVIOUS
  <2>. HIDE DEF f
  <2>4. Marked(Language[alphabet], read', code, current, <<Expr, f>> \o Tail(todo))
    BY ONLY <1>0, <1>1, <1>6, <2>2, <2>3, Staged(i, o), MarkCondition, Zenon DEF Staged
  <2>. QED  BY ONLY <1>0, <2>1, <2>2, <2>4, StaysRead, Zenon
<1>7. CASE current = "FOR"
  <2>. DEFINE f == Do("for")
  <2>1. Advance /\ todo' = <<f>> \o Tail(todo) /\ current # "EOF"  BY <1>7 DEF Stmt, Then
  <2>2. previous' = current /\ ReadOn(alphabet, read, code, read')  BY <1>2, <2>1
  <2>3. f.do = "for"  BY DEF Do
  <2>. HIDE DEF f
  <2>4. Marked(Language[alphabet], read', code, current, <<f>> \o Tail(todo))
    BY ONLY <1>0, <1>1, <1>7, <2>2, <2>3, Staged(i, o), MarkFor, Zenon DEF Staged
  <2>. QED  BY ONLY <1>0, <2>1, <2>2, <2>4, StaysRead, Zenon
<1>8. CASE current = "IF"
  <2>. DEFINE f == Do("if")
  <2>1. Advance /\ todo' = <<Expr, f>> \o Tail(todo) /\ current # "EOF"
    BY <1>8 DEF Stmt, Then
  <2>2. previous' = current /\ ReadOn(alphabet, read, code, read')  BY <1>2, <2>1
  <2>3. f.do = "if"  BY DEF Do
  <2>. HIDE DEF f
  <2>4. Marked(Language[alphabet], read', code, current, <<Expr, f>> \o Tail(todo))
    BY ONLY <1>0, <1>1, <1>8, <2>2, <2>3, Staged(i, o), MarkCondition, Zenon DEF Staged
  <2>. QED  BY ONLY <1>0, <2>1, <2>2, <2>4, StaysRead, Zenon
<1>9. CASE current = "LBRACE"
  <2>. DEFINE f == Do("scope")
  <2>1. Skip /\ todo' = <<f>> \o Tail(todo)  BY <1>9 DEF Stmt, Then
  <2>2. f.do = "scope" /\ read[Len(read)] = "LBRACE"  BY <1>1, <1>9 DEF Do
  <2>. HIDE DEF f
  <2>3. Marked(Language[alphabet], read, code, previous, <<f>> \o Tail(todo))
    BY ONLY <1>0, <2>2, Staged(i, o), MarkScoped, Zenon DEF Staged
  <2>. QED  BY ONLY <1>0, <2>1, <2>3, StaysUnread, Zenon
<1>10. CASE current \notin {"SEMICOLON", "BIND", "RETURN", "PRINT", "WHILE", "FOR", "IF", "LBRACE"}
  <2>. DEFINE calls == <<Expr, Emit(StatCode)>>
  <2>1. Skip /\ todo' = calls \o Tail(todo)  BY <1>10 DEF Stmt, Then, ExprStat, StatCode
  <2>2. Marked(Language[alphabet], read, code, previous, calls \o Tail(todo))
    BY ONLY <1>0, Staged(i, o), MarkExprStat, Zenon DEF Staged
  <2>. HIDE DEF calls
  <2>. QED  BY ONLY <1>0, <2>1, <2>2, StaysUnread, Zenon
<1>. QED  BY <1>3, <1>4, <1>5, <1>6, <1>7, <1>8, <1>9, <1>10

(* return.                                                                 *)
LEMMA ReturnStays ==
  ASSUME TInv, Return, NEW i, NEW o, Staged(i, o)
  PROVE  Stays
<1>0. Top.do = "return" /\ code' = code /\ alphabet' = alphabet  BY DEF Return, At, Goes
<1>1. CASE current = "SEMICOLON"
  <2>. DEFINE calls == <<Emit(ConstantCode(Index["void"])), Emit(<<Opcode("RETURN")>>)>>
  <2>1. Advance /\ todo' = calls \o Tail(todo)  BY <1>1 DEF Return, Then
  <2>2. current # "EOF"  BY <1>1
  <2>3. previous' = current /\ ReadOn(alphabet, read, code, read')
    BY <1>0, <2>1, <2>2, CurrentRead
  <2>4. current = read[Len(read)]  BY TokenSeen
  <2>5. Marked(Language[alphabet], read', code, current, calls \o Tail(todo))
    BY ONLY <1>0, <1>1, <2>3, <2>4, Staged(i, o), MarkReturnVoid, Zenon DEF Staged
  <2>. HIDE DEF calls
  <2>. QED  BY ONLY <1>0, <2>1, <2>3, <2>5, StaysRead, Zenon
<1>2. CASE current # "SEMICOLON"
  <2>. DEFINE calls == <<Expr, Emit(<<Opcode("RETURN")>>)>>
  <2>1. Skip /\ todo' = calls \o Tail(todo)  BY <1>2 DEF Return, Then
  <2>2. Marked(Language[alphabet], read, code, previous, calls \o Tail(todo))
    BY ONLY <1>0, Staged(i, o), MarkReturnValue, Zenon DEF Staged
  <2>. HIDE DEF calls
  <2>. QED  BY ONLY <1>0, <2>1, <2>2, StaysUnread, Zenon
<1>. QED  BY <1>1, <1>2

(* What is called is on top. *)
LEMMA CalledOnTop ==
  ASSUME TInv, todo # <<>>, NEW f
  PROVE  <<f>> \o Tail(todo) # <<>> /\ (<<f>> \o Tail(todo))[1] = f
<1>1. PICK S : Tail(todo) \in Seq(S)  BY TopTyped DEF TypedRest
<1>. DEFINE R == S \cup {f}
            s == Tail(todo)
<1>2. f \in R /\ s \in Seq(R)  BY <1>1
<1>. HIDE DEF R, s
<1>3. Len(<<f>> \o s) = Len(s) + 1 /\ Len(s) \in Nat /\ (<<f>> \o s)[1] = f
      /\ <<f>> \o s \in Seq(R)
  BY <1>2, ConsIs
<1>4. <<f>> \o s # <<>>
  <2>1. Len(<<f>> \o s) # 0  BY <1>3
  <2>. QED  BY <2>1
<1>. QED  BY <1>3, <1>4 DEF s

(* A brace that is taken for the end of the source: nothing is accepted.   *)
LEMMA ScopeStays ==
  ASSUME TInv, Scope, NEW i, NEW o, Staged(i, o)
  PROVE  Stays
<1>. DEFINE f == Do("block")
<1>0. /\ Top.do = "scope" /\ todo # <<>> /\ code' = code /\ alphabet' = alphabet
      /\ Advance /\ todo' = <<f>> \o Tail(todo)
  BY DEF Scope, At, Then, Goes
<1>1. f.do = "block"  BY DEF Do
<1>. HIDE DEF f
<1>2. CASE current = "EOF"
  <2>1. Reading(alphabet, current, read)  BY DEF TInv
  <2>2. current' = "EOF"  BY <1>0, <1>2, <2>1, AdvanceReads
  <2>3. <<f>> \o Tail(todo) # <<>> /\ (<<f>> \o Tail(todo))[1] = f  BY <1>0, CalledOnTop
  <2>4. todo' # <<>> /\ todo'[1].do = "block"  BY ONLY <1>0, <1>1, <2>3, Zenon
  <2>. QED  BY <2>2, <2>4, Zenon DEF Stays, Doomed
<1>3. CASE current # "EOF"
  <2>1. previous' = current /\ ReadOn(alphabet, read, code, read')
    BY <1>0, <1>3, CurrentRead
  <2>2. Marked(Language[alphabet], read', code, current, <<f>> \o Tail(todo))
    BY ONLY <1>0, <1>1, <2>1, Staged(i, o), MarkScope, Zenon DEF Staged
  <2>. QED  BY ONLY <1>0, <2>1, <2>2, StaysRead, Zenon
<1>. QED  BY <1>2, <1>3

(* A block.                                                                *)
LEMMA BlockStays ==
  ASSUME TInv, Block, NEW i, NEW o, Staged(i, o)
  PROVE  Stays
<1>0. Top.do = "block" /\ code' = code /\ alphabet' = alphabet /\ Skip
  BY DEF Block, At, Goes
<1>1. CASE current \in {"EOF", "RBRACE"}
  <2>1. todo' = <<Consume("RBRACE")>> \o Tail(todo)  BY <1>1 DEF Block, Then
  <2>2. Marked(Language[alphabet], read, code, previous, <<Consume("RBRACE")>> \o Tail(todo))
    BY ONLY <1>0, Staged(i, o), MarkBlockEnd, Zenon DEF Staged
  <2>. QED  BY ONLY <1>0, <2>1, <2>2, StaysUnread, Zenon
<1>2. CASE current \notin {"EOF", "RBRACE"}
  <2>. DEFINE f == Do("block")
  <2>1. todo' = <<Do("stmt"), f>> \o Tail(todo)  BY <1>2 DEF Block, Then
  <2>2. Top.do \in {"block", "script"} /\ f.do = Top.do  BY <1>0 DEF Do
  <2>. HIDE DEF f
  <2>3. Marked(Language[alphabet], read, code, previous, <<Do("stmt"), f>> \o Tail(todo))
    BY ONLY <2>2, Staged(i, o), MarkNextStatement, Zenon DEF Staged
  <2>. QED  BY ONLY <1>0, <2>1, <2>3, StaysUnread, Zenon
<1>. QED  BY <1>1, <1>2

(* The jumps, and their distances. *)
LEMMA JumpAdded ==
  ASSUME TInv, NEW op \in {"JMP", "JMPF"}
  PROVE  Added(code, WithJump(op), JumpCode(op)) /\ Hole = Len(code) + 1
<1>. DEFINE h == Len(code)
            v == h + 3
            cd1 == WithJump(op)
<1>0. code \in Seq(Bytes) /\ h = Len(code) /\ v = h + 3  BY DEF TInv
<1>. HIDE DEF h, v
<1>1. /\ cd1 \in Seq(Bytes) /\ Len(cd1) = v /\ Seg(cd1, h, v) = JumpCode(op)
      /\ \A k \in 1 .. h : cd1[k] = code[k]
      /\ Hole = h + 1 /\ h \in Nat /\ v \in Nat
  BY ONLY <1>0, op \in {"JMP", "JMPF"}, JumpSegs
<1>. HIDE DEF cd1
<1>2. Jumps(cd1, h, JumpCode(op))
  <2>1. v <= Len(cd1)  BY <1>1
  <2>. QED  BY ONLY <1>0, <1>1, <2>1, Zenon DEF Jumps
<1>3. Added(code, cd1, JumpCode(op))  BY ONLY <1>0, <1>1, <1>2, Zenon DEF Added
<1>. QED  BY <1>0, <1>1, <1>3 DEF cd1

(* The jump back that the parser emits is the grammar's.                   *)
LEMMA LoopAdded ==
  ASSUME TInv, NEW start
  PROVE  start \in Nat /\ start <= Len(code)
           => Added(code, WithLoop(start), G!BackwardJump(Seg(code, start, Len(code))))
<1>. SUFFICES ASSUME start \in Nat, start <= Len(code)
              PROVE  Added(code, WithLoop(start), G!BackwardJump(Seg(code, start, Len(code))))
  OBVIOUS
<1>. DEFINE h == Len(code)
            v == h + 3
            cd1 == WithLoop(start)
            b == G!BackwardJump(Seg(code, start, h))
<1>0. code \in Seq(Bytes) /\ h = Len(code) /\ v = h + 3 /\ start \in Nat /\ start <= h
  BY DEF TInv
<1>. HIDE DEF h, v
<1>1. /\ cd1 \in Seq(Bytes) /\ Len(cd1) = v /\ Seg(cd1, h, v) = b
      /\ \A k \in 1 .. h : cd1[k] = code[k]
      /\ h \in Nat /\ v \in Nat
  BY ONLY <1>0, LoopSegs
<1>. HIDE DEF cd1, b
<1>2. Jumps(cd1, h, b)
  <2>1. v <= Len(cd1)  BY <1>1
  <2>. QED  BY ONLY <1>0, <1>1, <2>1, Zenon DEF Jumps
<1>3. Added(code, cd1, b)  BY ONLY <1>0, <1>1, <1>2, Zenon DEF Added
<1>. QED  BY <1>3 DEF cd1, b, h

(* while, its condition parsed.                                            *)
LEMMA WhileBodyStays ==
  ASSUME TInv, WhileBody, NEW i, NEW o, Staged(i, o)
  PROVE  Stays
<1>. DEFINE f == [do |-> "loop", start |-> Top.start, hole |-> Hole]
            cd1 == WithJump("JMPF")
<1>0. /\ Top.do = "while" /\ code' = cd1 /\ alphabet' = alphabet
      /\ Skip /\ todo' = <<Do("stmt"), f>> \o Tail(todo)
  BY DEF WhileBody, At, Then, Goes
<1>1. Added(code, cd1, JumpCode("JMPF")) /\ Hole = Len(code) + 1  BY JumpAdded
<1>2. f.do = "loop" /\ f.start = Top.start /\ f.hole = Len(code) + 1  BY <1>1
<1>. HIDE DEF f, cd1
<1>3. Marked(Language[alphabet], read, cd1, previous, <<Do("stmt"), f>> \o Tail(todo))
  BY ONLY <1>0, <1>1, <1>2, Staged(i, o), MarkGuarded, Zenon DEF Staged
<1>. QED  BY ONLY <1>0, <1>3, StaysUnread, Zenon

(* while, its body parsed.                                                 *)
LEMMA WhileEndStays ==
  ASSUME TInv, WhileEnd, NEW i, NEW o, Staged(i, o)
  PROVE  Stays
<1>. DEFINE cd1 == WithLoop(Top.start)
            cd2 == Patched(cd1, Top.hole)
<1>0. /\ Top.do = "loop" /\ code' = cd2 /\ alphabet' = alphabet
      /\ Skip /\ todo' = <<>> \o Tail(todo)
  BY DEF WhileEnd, At, Then, Goes
<1>1. Top.start \in Nat /\ Top.start <= Len(code)
        => Added(code, cd1, G!BackwardJump(Seg(code, Top.start, Len(code))))
  BY LoopAdded
<1>2. cd2 = Patched(cd1, Top.hole)  OBVIOUS
<1>. HIDE DEF cd1, cd2
<1>3. Marked(Language[alphabet], read, cd2, previous, <<>> \o Tail(todo))
  BY ONLY <1>0, <1>1, <1>2, Staged(i, o), MarkLoop, Zenon DEF Staged
<1>. QED  BY ONLY <1>0, <1>3, StaysUnread, Zenon

(* if, its condition parsed.                                               *)
LEMMA IfThenStays ==
  ASSUME TInv, IfThen, NEW i, NEW o, Staged(i, o)
  PROVE  Stays
<1>. DEFINE f == [do |-> "else", hole |-> Hole]
            cd1 == WithJump("JMPF")
<1>0. /\ Top.do = "if" /\ code' = cd1 /\ alphabet' = alphabet
      /\ Skip /\ todo' = <<Do("stmt"), f>> \o Tail(todo)
  BY DEF IfThen, At, Then, Goes
<1>1. Added(code, cd1, JumpCode("JMPF")) /\ Hole = Len(code) + 1  BY JumpAdded
<1>2. f.do = "else" /\ f.hole = Len(code) + 1  BY <1>1
<1>. HIDE DEF f, cd1
<1>3. Marked(Language[alphabet], read, cd1, previous, <<Do("stmt"), f>> \o Tail(todo))
  BY ONLY <1>0, <1>1, <1>2, Staged(i, o), MarkGuarded, Zenon DEF Staged
<1>. QED  BY ONLY <1>0, <1>3, StaysUnread, Zenon

(* A token is read and code is added at once. *)
LEMMA StaysBoth ==
  ASSUME alphabet' = alphabet, previous' = current, NEW cd2, code' = cd2, NEW calls,
         todo' = calls, Marked(Language[alphabet], read', cd2, current, calls)
  PROVE  Stays
BY Zenon DEF Stays

(* if, its body parsed.                                                    *)
LEMMA IfElseStays ==
  ASSUME TInv, IfElse, NEW i, NEW o, Staged(i, o)
  PROVE  Stays
<1>. DEFINE f == [do |-> "patch", hole |-> Hole]
            cd1 == WithJump("JMP")
            cd2 == Patched(cd1, Top.hole)
<1>0. Top.do = "else" /\ code' = cd2 /\ alphabet' = alphabet  BY DEF IfElse, At, Goes
<1>1. Added(code, cd1, JumpCode("JMP")) /\ Hole = Len(code) + 1  BY JumpAdded
<1>2. f.do = "patch" /\ f.hole = Len(code) + 1 /\ cd2 = Patched(cd1, Top.hole)  BY <1>1
<1>3. current = read[Len(read)]  BY TokenSeen
<1>4. CASE current = "ELSE"
  <2>1. Advance /\ todo' = <<Do("stmt"), f>> \o Tail(todo)  BY <1>4 DEF IfElse, Then
  <2>2. current # "EOF"  BY <1>4
  <2>3. previous' = current /\ ReadOn(alphabet, read, code, read')
    BY <1>0, <2>1, <2>2, CurrentRead
  <2>4. read[Len(read)] = "ELSE"  BY <1>3, <1>4
  <2>. HIDE DEF f, cd1, cd2
  <2>5. Marked(Language[alphabet], read', cd2, current, <<Do("stmt"), f>> \o Tail(todo))
    BY ONLY <1>0, <1>1, <1>2, <2>3, <2>4, Staged(i, o), MarkElse, Zenon DEF Staged
  <2>. QED  BY ONLY <1>0, <2>1, <2>3, <2>5, StaysBoth, Zenon
<1>5. CASE current # "ELSE"
  <2>1. Skip /\ todo' = <<f>> \o Tail(todo)  BY <1>5 DEF IfElse, Then
  <2>2. read[Len(read)] # "ELSE"  BY <1>3, <1>5
  <2>. HIDE DEF f, cd1, cd2
  <2>3. Marked(Language[alphabet], read, cd2, previous, <<f>> \o Tail(todo))
    BY ONLY <1>0, <1>1, <1>2, <2>2, Staged(i, o), MarkNoElse, Zenon DEF Staged
  <2>. QED  BY ONLY <1>0, <2>1, <2>3, StaysUnread, Zenon
<1>. QED  BY <1>4, <1>5

(* if, all of it parsed.                                                   *)
LEMMA PatchJumpStays ==
  ASSUME TInv, PatchJump, NEW i, NEW o, Staged(i, o)
  PROVE  Stays
<1>. DEFINE cd2 == Patched(code, Top.hole)
<1>0. /\ Top.do = "patch" /\ code' = cd2 /\ alphabet' = alphabet
      /\ Skip /\ todo' = <<>> \o Tail(todo)
  BY DEF PatchJump, At, Then, Goes
<1>1. cd2 = Patched(code, Top.hole)  OBVIOUS
<1>. HIDE DEF cd2
<1>2. Marked(Language[alphabet], read, cd2, previous, <<>> \o Tail(todo))
  BY ONLY <1>0, <1>1, Staged(i, o), MarkPatch, Zenon DEF Staged
<1>. QED  BY ONLY <1>0, <1>2, StaysUnread, Zenon

(* The for loop. *)
LEMMA ForInitStays ==
  ASSUME TInv, ForInit, NEW i, NEW o, Staged(i, o)
  PROVE  Stays
<1>. DEFINE f == Do("for_condition")
<1>0. Top.do = "for" /\ code' = code /\ alphabet' = alphabet  BY DEF ForInit, At, Goes
<1>1. f.do = "for_condition" /\ current = read[Len(read)]  BY TokenSeen DEF Do
<1>2. CASE current = "SEMICOLON"
  <2>1. Advance /\ todo' = <<f>> \o Tail(todo)  BY <1>2 DEF ForInit, Then
  <2>2. current # "EOF" /\ read[Len(read)] = "SEMICOLON"  BY <1>1, <1>2
  <2>3. previous' = current /\ ReadOn(alphabet, read, code, read')
    BY <1>0, <2>1, <2>2, CurrentRead
  <2>. HIDE DEF f
  <2>4. Marked(Language[alphabet], read', code, current, <<f>> \o Tail(todo))
    BY ONLY <1>0, <1>1, <2>2, <2>3, Staged(i, o), MarkForInitNone, Zenon DEF Staged
  <2>. QED  BY ONLY <1>0, <2>1, <2>3, <2>4, StaysRead, Zenon
<1>3. CASE current # "SEMICOLON"
  <2>1. Skip /\ todo' = <<Do("stmt"), Consume("SEMICOLON"), f>> \o Tail(todo)
    BY <1>3 DEF ForInit, Then
  <2>2. read[Len(read)] # "SEMICOLON"  BY <1>1, <1>3
  <2>. HIDE DEF f
  <2>3. Marked(Language[alphabet], read, code, previous,
               <<Do("stmt"), Consume("SEMICOLON"), f>> \o Tail(todo))
    BY ONLY <1>0, <1>1, <2>2, Staged(i, o), MarkForInit, Zenon DEF Staged
  <2>. QED  BY ONLY <1>0, <2>1, <2>3, StaysUnread, Zenon
<1>. QED  BY <1>2, <1>3

(* for, its first part parsed.                                             *)
LEMMA ForConditionStays ==
  ASSUME TInv, ForCondition, NEW i, NEW o, Staged(i, o)
  PROVE  Stays
<1>0. Top.do = "for_condition" /\ code' = code /\ alphabet' = alphabet
  BY DEF ForCondition, At, Goes
<1>1. current = read[Len(read)]  BY TokenSeen
<1>2. CASE current = "SEMICOLON"
  <2>. DEFINE f == [do |-> "for_step", start |-> Len(code), exit |-> {}]
  <2>1. Advance /\ todo' = <<f>> \o Tail(todo)  BY <1>2 DEF ForCondition, Then
  <2>2. current # "EOF" /\ read[Len(read)] = "SEMICOLON"  BY <1>1, <1>2
  <2>3. previous' = current /\ ReadOn(alphabet, read, code, read')
    BY <1>0, <2>1, <2>2, CurrentRead
  <2>4. f.do = "for_step" /\ f.start = Len(code) /\ f.exit = {}  OBVIOUS
  <2>. HIDE DEF f
  <2>5. Marked(Language[alphabet], read', code, current, <<f>> \o Tail(todo))
    BY ONLY <1>0, <2>2, <2>3, <2>4, Staged(i, o), MarkForAlways, Zenon DEF Staged
  <2>. QED  BY ONLY <1>0, <2>1, <2>3, <2>5, StaysRead, Zenon
<1>3. CASE current # "SEMICOLON"
  <2>. DEFINE f == [do |-> "for_exit", start |-> Len(code)]
  <2>1. Skip /\ todo' = <<Expr, Consume("SEMICOLON"), f>> \o Tail(todo)
    BY <1>3 DEF ForCondition, Then
  <2>2. f.do = "for_exit" /\ f.start = Len(code)  OBVIOUS
  <2>. HIDE DEF f
  <2>3. Marked(Language[alphabet], read, code, previous,
               <<Expr, Consume("SEMICOLON"), f>> \o Tail(todo))
    BY ONLY <1>0, <2>2, Staged(i, o), MarkForCondition, Zenon DEF Staged
  <2>. QED  BY ONLY <1>0, <2>1, <2>3, StaysUnread, Zenon
<1>. QED  BY <1>2, <1>3

(* for, its condition parsed.                                              *)
LEMMA ForExitStays ==
  ASSUME TInv, ForExit, NEW i, NEW o, Staged(i, o)
  PROVE  Stays
<1>. DEFINE f == [do |-> "for_step", start |-> Top.start, exit |-> {Hole}]
            cd1 == WithJump("JMPF")
<1>0. /\ Top.do = "for_exit" /\ code' = cd1 /\ alphabet' = alphabet
      /\ Skip /\ todo' = <<f>> \o Tail(todo)
  BY DEF ForExit, At, Then, Goes
<1>1. Added(code, cd1, JumpCode("JMPF")) /\ Hole = Len(code) + 1  BY JumpAdded
<1>2. f.do = "for_step" /\ f.start = Top.start /\ f.exit = {Len(code) + 1}  BY <1>1
<1>. HIDE DEF f, cd1
<1>3. Marked(Language[alphabet], read, cd1, previous, <<f>> \o Tail(todo))
  BY ONLY <1>0, <1>1, <1>2, Staged(i, o), MarkForExit, Zenon DEF Staged
<1>. QED  BY ONLY <1>0, <1>3, StaysUnread, Zenon

(* for, before its third part.                                             *)
LEMMA ForStepStays ==
  ASSUME TInv, ForStep, NEW i, NEW o, Staged(i, o)
  PROVE  Stays
<1>. DEFINE cd1 == WithJump("JMP")
            f == [do |-> "for_body", start |-> Top.start, exit |-> Top.exit,
                  hole |-> Hole, step |-> Len(code')]
<1>0. /\ Top.do = "for_step" /\ code' = cd1 /\ alphabet' = alphabet /\ Skip
      /\ todo' = (IF current = "LBRACE" THEN <<>> ELSE ExprStat) \o <<f>> \o Tail(todo)
  BY DEF ForStep, At, Then, Goes
<1>1. Added(code, cd1, JumpCode("JMP")) /\ Hole = Len(code) + 1  BY JumpAdded
<1>2. /\ f.do = "for_body" /\ f.start = Top.start /\ f.exit = Top.exit
      /\ f.hole = Len(code) + 1 /\ f.step = Len(cd1)
  BY <1>0, <1>1
<1>3. current = read[Len(read)]  BY TokenSeen
<1>. HIDE DEF cd1, f
<1>4. CASE current = "LBRACE"
  <2>1. todo' = <<f>> \o Tail(todo)
    <3>1. <<>> \o <<f>> = <<f>>  OBVIOUS
    <3>. QED  BY <1>0, <1>4, <3>1
  <2>2. read[Len(read)] = "LBRACE"  BY <1>3, <1>4
  <2>3. Marked(Language[alphabet], read, cd1, previous, <<f>> \o Tail(todo))
    BY ONLY <1>0, <1>1, <1>2, <2>2, Staged(i, o), MarkForStep, Zenon DEF Staged
  <2>. QED  BY ONLY <1>0, <2>1, <2>3, StaysUnread, Zenon
<1>5. CASE current # "LBRACE"
  <2>. DEFINE calls == <<Expr, Emit(StatCode), f>>
  <2>1. todo' = calls \o Tail(todo)
    <3>1. ExprStat = <<Expr, Emit(StatCode)>>  BY DEF ExprStat, StatCode
    <3>2. <<Expr, Emit(StatCode)>> \o <<f>> = <<Expr, Emit(StatCode), f>>  BY Triple
    <3>. QED  BY <1>0, <1>5, <3>1, <3>2
  <2>2. Marked(Language[alphabet], read, cd1, previous, calls \o Tail(todo))
    BY ONLY <1>0, <1>1, <1>2, Staged(i, o), MarkForStep, Zenon DEF Staged
  <2>. HIDE DEF calls
  <2>. QED  BY ONLY <1>0, <2>1, <2>2, StaysUnread, Zenon
<1>. QED  BY <1>4, <1>5

(* for, its third part parsed.                                             *)
LEMMA ForBodyStays ==
  ASSUME TInv, ForBody, NEW i, NEW o, Staged(i, o)
  PROVE  Stays
<1>. DEFINE f == [do |-> "for_end", step |-> Top.step, exit |-> Top.exit]
            cd1 == WithLoop(Top.start)
            cd2 == Patched(cd1, Top.hole)
<1>0. /\ Top.do = "for_body" /\ code' = cd2 /\ alphabet' = alphabet
      /\ Skip /\ todo' = <<Do("scope"), f>> \o Tail(todo)
  BY DEF ForBody, At, Then, Goes
<1>1. Top.start \in Nat /\ Top.start <= Len(code)
        => Added(code, cd1, G!BackwardJump(Seg(code, Top.start, Len(code))))
  BY LoopAdded
<1>2. /\ f.do = "for_end" /\ f.step = Top.step /\ f.exit = Top.exit
      /\ cd2 = Patched(cd1, Top.hole)
  OBVIOUS
<1>. HIDE DEF cd1, cd2, f
<1>3. Marked(Language[alphabet], read, cd2, previous, <<Do("scope"), f>> \o Tail(todo))
  BY ONLY <1>0, <1>1, <1>2, Staged(i, o), MarkForBody, Zenon DEF Staged
<1>. QED  BY ONLY <1>0, <1>3, StaysUnread, Zenon

(* for, its body parsed.                                                   *)
LEMMA ForEndStays ==
  ASSUME TInv, ForEnd, NEW i, NEW o, Staged(i, o)
  PROVE  Stays
<1>. DEFINE cd1 == WithLoop(Top.step)
            n == Len(read) - 1
            c == Len(code)
            r == c + 3
            x == i.pos
<1>0. /\ Top.do = "for_end" /\ alphabet' = alphabet /\ Skip /\ todo' = <<>> \o Tail(todo)
      /\ code' = IF Top.exit = {} THEN cd1
                 ELSE Patched(cd1, CHOOSE hole \in Top.exit : TRUE)
  BY DEF ForEnd, At, Then, Goes
<1>1. Top.step \in Nat /\ Top.step <= Len(code)
        => Added(code, cd1, G!BackwardJump(Seg(code, Top.step, Len(code))))
  BY LoopAdded
<1>2. n = Len(read) - 1 /\ c = Len(code) /\ r = c + 3 /\ x = i.pos  OBVIOUS
<1>. HIDE DEF cd1, n, c, r, x
<1>3. ForStage(alphabet, read, code, previous, Top, i, o, Tail(todo), cd1, n, c, r, x)
  BY ONLY <1>0, <1>1, <1>2, Staged(i, o), Zenon DEF Staged, ForStage
<1>4. CASE Top.exit = {}
  <2>1. code' = cd1  BY <1>0, <1>4
  <2>2. Marked(Language[alphabet], read, cd1, previous, <<>> \o Tail(todo))
    BY ONLY <1>3, <1>4, MarkForEnd, Zenon
  <2>. QED  BY ONLY <1>0, <2>1, <2>2, StaysUnread, Zenon
<1>5. CASE Top.exit # {}
  <2>. DEFINE cd2 == Patched(cd1, CHOOSE hole \in Top.exit : TRUE)
  <2>1. code' = cd2 /\ cd2 = Patched(cd1, CHOOSE hole \in Top.exit : TRUE)
    BY ONLY <1>0, <1>5, Zenon
  <2>. HIDE DEF cd2
  <2>2. Marked(Language[alphabet], read, cd2, previous, <<>> \o Tail(todo))
    BY ONLY <1>3, <1>5, <2>1, MarkForEndPatched, Zenon
  <2>. QED  BY ONLY <1>0, <2>1, <2>2, StaysUnread, Zenon
<1>. QED  BY <1>4, <1>5

(* All the steps of the statements.                                        *)
LEMMA StatementStays ==
  ASSUME TInv, StatementStep, NEW i, NEW o, Staged(i, o)
  PROVE  Stays
BY StmtStays, ReturnStays, ScopeStays, BlockStays, WhileBodyStays, WhileEndStays,
   IfThenStays, IfElseStays, PatchJumpStays, ForInitStays, ForConditionStays, ForExitStays,
   ForStepStays, ForBodyStays, ForEndStays, Zenon
DEF StatementStep

-----------------------------------------------------------------------------
(* The invariant. *)

(* Nothing is accepted but a source with its code, and what is parsed is   *)
(* marked, or a brace stands for the end of the source.                    *)
Inv ==
  /\ TInv
  /\ EmitsItsTree
  /\ status = "parsing" =>
       \/ Doomed(current, todo)
       \/ Marked(Language[alphabet], read, code, previous, todo)

(* At first an empty list of statements has been parsed.                   *)
LEMMA InitInv == ASSUME Init  PROVE Inv
<1>. DEFINE L == Language[alphabet]
<1>1. TInv  BY InitTyped
<1>2. /\ status = "parsing" /\ todo = <<Do("script")>> /\ code = <<>> /\ read = <<current>>
      /\ alphabet \in Alphabets
  BY DEF Init
<1>3. Len(read) = 1 /\ Len(code) = 0  BY <1>2
<1>4. Context(alphabet, read, code)  BY <1>1 DEF TInv, Reading, Context
<1>5. List(L, read, code, 0, 0, 0, 0)
  <2>1. 0 \in Nat /\ 0 < Len(read) /\ 0 <= Len(code)  BY <1>3
  <2>. QED  BY ONLY <1>4, <2>1, EmptyList, Zenon
<1>. DEFINE i == Mark("list", 0, 0, 0)
            o == Mark("end", 0, 0, 0)
<1>6. /\ i \in Marks /\ i.kind = "list" /\ i.tok = 0 /\ i.pos = 0
      /\ o \in Marks /\ o.kind = "end" /\ o.tok = 0 /\ o.pos = 0
  <2>1. "list" \in Kinds /\ "end" \in Kinds /\ 0 \in Nat /\ 0 \in 0 .. 9  BY DEF Kinds
  <2>2. i \in Marks /\ i.kind = "list" /\ i.tok = 0 /\ i.pos = 0  BY ONLY <2>1, MarkOf
  <2>3. o \in Marks /\ o.kind = "end" /\ o.tok = 0 /\ o.pos = 0  BY ONLY <2>1, MarkOf
  <2>. QED  BY <2>2, <2>3
<1>. HIDE DEF i, o, L
<1>7. Holds(L, read, code, previous, i)
  <2>1. Len(read) - 1 = 0  BY <1>3
  <2>. QED  BY <1>3, <1>5, <1>6, <2>1, Zenon DEF Holds, Parsed
<1>8. Link(L, read, code, Do("script"), i, o)
  <2>1. Do("script").do = "script"  BY DEF Do
  <2>2. Linked(L, read, code, Do("script"), i, o)
    BY <1>6, <2>1, StatementLinkIs, Zenon DEF ScriptLink
  <2>3. o.tok <= i.tok /\ o.pos <= i.pos  BY <1>6
  <2>. QED  BY <2>2, <2>3, Zenon DEF Link
<1>9. Under(L, read, code, <<>>, o)  BY <1>6, UnderNone
<1>10. Marked(L, read, code, previous, <<Do("script")>> \o <<>>)
  BY <1>6, <1>7, <1>8, <1>9, PushOne
<1>11. todo = <<Do("script")>> \o <<>>  BY <1>2
<1>12. Marked(L, read, code, previous, todo)  BY <1>10, <1>11, Zenon
<1>13. EmitsItsTree  BY <1>2 DEF EmitsItsTree
<1>. QED  BY <1>1, <1>12, <1>13, Zenon DEF Inv, L

(* Every operation is done while the parser runs, and only the end of the  *)
(* script ends it well.                                                    *)
LEMMA StepRuns ==
  ASSUME Next
  PROVE  status = "parsing" /\ todo # <<>> /\ (status' = "done" => Script /\ current = "EOF")
<1>1. CASE ExpressionStep
  BY <1>1 DEF ExpressionStep, PrecPrefix, PrecInfix, Name, Literal, Grouping, Binary, Unary,
     Postfix, Call, Argument, EmitBytes, ConsumeToken, At, Goes, Error
<1>2. CASE StatementStep
  BY <1>2 DEF StatementStep, Stmt, Return, Scope, Block, WhileBody, WhileEnd, IfThen, IfElse,
     PatchJump, ForInit, ForCondition, ForExit, ForStep, ForBody, ForEnd, At, Goes
<1>3. CASE Script
  BY <1>3 DEF Script, At, Goes
<1>. QED  BY <1>1, <1>2, <1>3 DEF Next

(* A brace that stood for the end of the source is never closed.           *)
LEMMA DoomedStays ==
  ASSUME TInv, Next, Doomed(current, todo)
  PROVE  Stays /\ ~ Script
<1>1. /\ current = "EOF" /\ todo # <<>>
      /\ Top.do = "block" \/ (Top.do = "consume" /\ Top.token = "RBRACE")
  BY DEF Doomed, Top
<1>2. Block \/ ConsumeToken
  <2>1. Top.do \in {"block", "consume"}  BY <1>1
  <2>2. ExpressionStep => ConsumeToken
    BY <2>1 DEF ExpressionStep, PrecPrefix, PrecInfix, Name, Literal, Grouping, Binary, Unary,
       Postfix, Call, Argument, EmitBytes, At
  <2>3. StatementStep => Block
    BY <2>1 DEF StatementStep, Stmt, Return, Scope, WhileBody, WhileEnd, IfThen, IfElse,
       PatchJump, ForInit, ForCondition, ForExit, ForStep, ForBody, ForEnd, At
  <2>4. ~ Script  BY <2>1 DEF Script, At
  <2>. QED  BY <2>2, <2>3, <2>4 DEF Next
<1>3. ~ Script  BY <1>1 DEF Script, At
<1>4. CASE Block
  <2>. DEFINE f == Consume("RBRACE")
  <2>1. todo' = <<f>> \o Tail(todo) /\ Skip  BY <1>1, <1>4 DEF Block, Then
  <2>2. f.do = "consume" /\ f.token = "RBRACE"  BY DEF Consume
  <2>. HIDE DEF f
  <2>3. <<f>> \o Tail(todo) # <<>> /\ (<<f>> \o Tail(todo))[1] = f  BY <1>1, CalledOnTop
  <2>4. current' = "EOF"  BY <1>1, <2>1 DEF Skip
  <2>5. todo' # <<>> /\ todo'[1].do = "consume" /\ todo'[1].token = "RBRACE"
    BY ONLY <2>1, <2>2, <2>3, Zenon
  <2>. QED  BY <1>3, <2>4, <2>5, Zenon DEF Stays, Doomed
<1>5. CASE ConsumeToken
  <2>1. current # Top.token  BY <1>1, <1>5 DEF ConsumeToken, At
  <2>. QED  BY <1>3, <1>5, <2>1, StaysError DEF ConsumeToken
<1>. QED  BY <1>2, <1>4, <1>5

(* The end of the script. *)
LEMMA ScriptStays ==
  ASSUME TInv, Script, NEW i, NEW o, Staged(i, o)
  PROVE  Stays /\ EmitsItsTree'
<1>0. Top.do = "script" /\ Skip  BY DEF Script, At
<1>1. current = read[Len(read)]  BY TokenSeen
<1>2. CASE current = "EOF"
  <2>1. /\ code' = Append(code, Opcode("HALT")) /\ status' = "done" /\ alphabet' = alphabet
        /\ read' = read
    BY <1>0, <1>2 DEF Script, Skip
  <2>2. read[Len(read)] = "EOF"  BY <1>1, <1>2
  <2>3. <<read, Append(code, Opcode("HALT"))>> \in Sources[alphabet]
    BY ONLY <1>0, <2>2, Staged(i, o), SourceEnds, Zenon DEF Staged
  <2>4. <<read', code'>> \in Sources[alphabet']  BY ONLY <2>1, <2>3, Zenon
  <2>. QED  BY <2>1, <2>4 DEF Stays, EmitsItsTree
<1>3. CASE current # "EOF"
  <2>. DEFINE f == Do("script")
  <2>1. todo' = <<Do("stmt"), f>> \o Tail(todo) /\ code' = code /\ Goes
    BY <1>3 DEF Script, Then
  <2>2. Top.do \in {"block", "script"} /\ f.do = Top.do  BY <1>0 DEF Do
  <2>. HIDE DEF f
  <2>3. Marked(Language[alphabet], read, code, previous, <<Do("stmt"), f>> \o Tail(todo))
    BY ONLY <2>2, Staged(i, o), MarkNextStatement, Zenon DEF Staged
  <2>4. alphabet' = alphabet /\ status' = status  BY <2>1 DEF Goes
  <2>5. Stays  BY ONLY <1>0, <2>1, <2>3, <2>4, StaysUnread, Zenon
  <2>6. status = "parsing"  BY DEF Script, At
  <2>. QED  BY <2>4, <2>5, <2>6 DEF EmitsItsTree
<1>. QED  BY <1>2, <1>3

(* Every step keeps the invariant.                                         *)
LEMMA NextInv == ASSUME Inv, Next  PROVE Inv'
<1>1. TInv /\ TInv'  BY StepTyped DEF Inv
<1>2. status = "parsing" /\ todo # <<>> /\ (status' = "done" => Script /\ current = "EOF")
  BY StepRuns
<1>3. CASE Doomed(current, todo)
  <2>1. Stays /\ ~ Script  BY <1>1, <1>3, DoomedStays
  <2>2. EmitsItsTree'  BY <1>2, <2>1 DEF EmitsItsTree
  <2>. QED  BY <1>1, <2>1, <2>2 DEF Inv, Stays
<1>4. CASE ~ Doomed(current, todo)
  <2>1. Marked(Language[alphabet], read, code, previous, todo)  BY <1>2, <1>4 DEF Inv
  <2>2. PICK i, o : Staged(i, o)  BY <1>1, <1>2, <2>1, StepBegins
  <2>3. CASE Script
    <3>1. Stays /\ EmitsItsTree'  BY <1>1, <2>2, <2>3, ScriptStays
    <3>. QED  BY <1>1, <3>1 DEF Inv, Stays
  <2>4. CASE ~ Script
    <3>1. ExpressionStep \/ StatementStep  BY <2>4 DEF Next
    <3>2. Stays  BY <1>1, <2>2, <3>1, ExpressionStays, StatementStays, Zenon
    <3>3. EmitsItsTree'  BY <1>2, <2>4 DEF EmitsItsTree
    <3>. QED  BY <1>1, <3>2, <3>3 DEF Inv, Stays
  <2>. QED  BY <2>3, <2>4
<1>. QED  BY <1>3, <1>4

(* What the parser accepts is a sentence of the language, and what it has  *)
(* emitted is the code of its phrases, for every alphabet and length: each *)
(* jump is written before the code it leads over is known and lands where  *)
(* the finished construct says, each operator has the operands its level   *)
(* allows (parser.c:535-731, 767-862).                                     *)
THEOREM EmitsTree == Spec => []EmitsItsTree
<1>1. Inv /\ [Next]_vars => Inv'
  <2>1. ASSUME Inv, Next  PROVE Inv'  BY <2>1, NextInv
  <2>2. ASSUME Inv, UNCHANGED vars  PROVE Inv'
    BY <2>2 DEF vars, Inv, TInv, EmitsItsTree
  <2>. QED  BY <2>1, <2>2
<1>2. Init => Inv  BY InitInv
<1>3. Inv => EmitsItsTree  BY DEF Inv
<1>. QED  BY <1>1, <1>2, <1>3, PTL DEF Spec

=============================================================================
