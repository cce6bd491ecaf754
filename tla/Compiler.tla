------------------------------ MODULE Compiler ------------------------------
(***************************************************************************)
(* Names, constants and scopes: what parser.c and compiler.c keep while    *)
(* they compile, one action per statement or per end of a construct.       *)
(*                                                                         *)
(* Every function has a chunk with constants of its own; chunk 1 is the    *)
(* script's.  The table of interned strings (v.strings) remembers the      *)
(* index a string got in the chunk that used it first, for all chunks.     *)
(* Local variables are slots of the frame, numbered in the order of their  *)
(* declarations.                                                           *)
(***************************************************************************)
EXTENDS Integers, Sequences, FiniteSets

CONSTANTS
  Names,        \* identifiers; a string literal is one of them, too
  NoName,       \* the name of a frame's slot 0
  Other,        \* a constant that is no string: a number, a void, a function
  LocalLimit,   \* locals of a function, its slot 0 included: UINT8_MAX
  ProgramLength \* bound: no construct or parameter is begun behind this many

ASSUME CompilerAssumption ==
  /\ NoName \notin Names /\ Other \notin Names
  /\ LocalLimit \in Nat \ {0}
  /\ ProgramLength \in Nat

VARIABLES
  unit,   \* what has been compiled, see InitialUnit
  open,   \* the constructs that have begun, innermost last
  failed, \* history: a syntax error ended a line
  length, \* history: the constructs and parameters begun so far
  status  \* "parsing", or "undefined"

vars == <<unit, open, failed, length, status>>

Script  == 1
NoIndex == [chunk |-> 0, index |-> 0]

(* A Compiler after compiler_init: slot 0 is the function itself.  Beside  *)
(* the code's fields, `height` and `sets` keep the number of values the    *)
(* code leaves in its frame, and of `set` statements.                      *)
NewCompiler(chunk, deep) ==
  [chunk |-> chunk, locals |-> <<[name |-> NoName, depth |-> 0]>>,
   deep |-> deep, height |-> 1, sets |-> 0]

(* interned: v.strings; pools: the constants of the chunks; chain: the     *)
(* Compilers from the script's to current; refs: history, the operands     *)
(* of instructions that are indices given in the script's chunk, and the   *)
(* constants they stand for.                                               *)
InitialUnit ==
  [interned |-> [n \in Names |-> NoIndex],
   pools |-> <<<<>>>>, chain |-> <<NewCompiler(Script, 0)>>, refs |-> {}]

Init ==
  /\ unit = InitialUnit
  /\ open = <<>>
  /\ failed = FALSE
  /\ length = 0
  /\ status = "parsing"

-----------------------------------------------------------------------------
(* current, and what changes in it. *)

Top(u)     == Len(u.chain)
Current(u) == u.chain[Top(u)]
Chunk(u)   == Current(u).chunk
Locals(u)  == Current(u).locals

Raised(u, n) == [u EXCEPT !.chain[Top(u)].height = @ + n]

-----------------------------------------------------------------------------
(* Constants. *)

(* add_constant *)
AddConstant(u, v) == [u EXCEPT !.pools[Chunk(u)] = Append(@, v)]

(* An instruction's operand, an index that was given in the chunk `at`.    *)
Instruction(u, at, v) ==
  IF at.chunk = Script
  THEN [u EXCEPT !.refs = @ \cup {[index |-> at.index, value |-> v]}]
  ELSE u

NextIndex(u) == [chunk |-> Chunk(u), index |-> Len(u.pools[Chunk(u)])]

(* write_constant: for a number, a void or a function. *)
WriteConstant(u) == Raised(Instruction(AddConstant(u, Other), NextIndex(u), Other), 1)

(* Mutant: the index of the constant behind the new one is remembered.     *)
IndexedBehind(u, n) ==
  IF u.interned[n] # NoIndex
  THEN u
  ELSE [AddConstant(u, n) EXCEPT !.interned[n] = NextIndex(AddConstant(u, n))]

(* name_constant, string_constant: the index of a string, a new constant   *)
(* of the current chunk when the string has none.                          *)
Indexed(u, n) ==
  IF u.interned[n] # NoIndex
  THEN u
  ELSE [AddConstant(u, n) EXCEPT !.interned[n] = NextIndex(u)]

(* An instruction whose operand is the string's index. *)
NamedBy(u, n) ==
  LET v == Indexed(u, n) IN Instruction(v, v.interned[n], n)

-----------------------------------------------------------------------------
(* Local variables. *)

(* resolve_local: 0 when there is none. *)
ResolveLocal(u, n) ==
  LET found == {i \in DOMAIN Locals(u) : Locals(u)[i].name = n}
  IN  IF found = {} THEN 0 ELSE CHOOSE i \in found : \A j \in found : j <= i

(* "Cannot read local variable in it's own initializer" *)
Unready(u, n) ==
  LET i == ResolveLocal(u, n) IN i # 0 /\ Locals(u)[i].depth = -1

(* name: the value of a variable. *)
Read(u, n) == Raised(IF ResolveLocal(u, n) = 0 THEN NamedBy(u, n) ELSE u, 1)

(* Mutant: a name may be declared twice in a scope.                        *)
RedeclaredNever(u, n) == FALSE

(* decl_var: the locals of the current scope, from the last one down.      *)
Redeclared(u, n) ==
  \E i \in DOMAIN Locals(u) :
    /\ Locals(u)[i].name = n
    /\ \A j \in i .. Len(Locals(u)) :
         Locals(u)[j].depth = -1 \/ Locals(u)[j].depth >= Current(u).deep

(* add_local refuses. *)
Refused(u, n) ==
  Current(u).deep > 0 /\ (Redeclared(u, n) \/ Len(Locals(u)) = LocalLimit)

(* parse_variable: the name becomes a constant also when it is a local's.  *)
Declared(u, n) ==
  LET v == Indexed(u, n)
  IN  IF Current(u).deep = 0
      THEN v
      ELSE [v EXCEPT !.chain[Top(u)].locals =
                       Append(@, [name |-> n, depth |-> -1])]

(* def_var: SETGLOBAL and POP, or the local is ready. *)
Defined(u, n) ==
  IF Current(u).deep = 0
  THEN Raised(NamedBy(u, n), -1)
  ELSE [u EXCEPT !.chain[Top(u)].locals[Len(Locals(u))].depth = Current(u).deep]

(* Mutant: the locals of the enclosing scope are dropped, too.             *)
KeptTooFew(locals, deep) ==
  LET kept == {i \in DOMAIN locals : locals[i].depth < deep}
  IN  SubSeq(locals, 1, CHOOSE n \in kept \cup {0} : \A i \in kept : i <= n)

(* scope_end drops locals while the last one is of a deeper scope.         *)
Kept(locals, deep) ==
  LET kept == {i \in DOMAIN locals : locals[i].depth <= deep}
  IN  SubSeq(locals, 1, CHOOSE n \in kept \cup {0} : \A i \in kept : i <= n)

(* Mutant: no instruction pops the locals.                                 *)
ScopeEndedSilently(u) ==
  [u EXCEPT !.chain[Top(u)] =
     [Current(u) EXCEPT !.deep = @ - 1, !.locals = Kept(@, Current(u).deep - 1)]]

(* Mutant: two scopes are left at once.                                    *)
ScopeEndedTwice(u) ==
  LET kept == Kept(Locals(u), Current(u).deep - 1)
  IN  [u EXCEPT !.chain[Top(u)] =
         [Current(u) EXCEPT !.deep = IF @ > 1 THEN @ - 2 ELSE @ - 1, !.locals = kept,
                            !.height = @ - (Len(Locals(u)) - Len(kept))]]

(* scope_end *)
ScopeEnded(u) ==
  LET kept == Kept(Locals(u), Current(u).deep - 1)
  IN  [u EXCEPT !.chain[Top(u)] =
         [Current(u) EXCEPT !.deep = @ - 1, !.locals = kept,
                            !.height = @ - (Len(Locals(u)) - Len(kept))]]

-----------------------------------------------------------------------------
(* Statements. *)

(* A Compiler is a variable of the C function that parses the function: it *)
(* is gone when an error has left that function.                           *)
Dangling == Top(unit) > 1 /\ open = <<>>

Innermost(kind) == open # <<>> /\ open[Len(open)].kind = kind
Opened(kind, n) == Append(open, [kind |-> kind, name |-> n])
Closed          == SubSeq(open, 1, Len(open) - 1)

Parse(u) ==
  /\ status = "parsing" /\ ~Dangling /\ ~Innermost("head")
  /\ length < ProgramLength
  /\ length' = length + 1
  /\ unit' = u
  /\ UNCHANGED <<failed, status>>

(* errorf() in a REPL: the parse functions are left, the state stays.      *)
Fail(u) ==
  /\ status = "parsing" /\ ~Dangling
  /\ unit' = u
  /\ open' = <<>>
  /\ failed' = TRUE
  /\ UNCHANGED <<length, status>>

(* expr_stmt, printstat: a variable is read or assigned, or a literal.     *)
UseName(n) ==
  IF Unready(unit, n)
  THEN Fail(unit)
  ELSE Parse(Raised(Read(unit, n), -1)) /\ UNCHANGED open

UseString(n) == Parse(NamedBy(unit, n)) /\ UNCHANGED open
UseValue     == Parse(Raised(WriteConstant(unit), -1)) /\ UNCHANGED open

(* vardeclstat: the value is popped once more than def_var has done.       *)
SetCount(u) == [u EXCEPT !.chain[Top(u)].sets = @ + 1]

SetVariable(n) ==
  IF Refused(unit, n)
  THEN Fail(Indexed(unit, n))
  ELSE LET declared == Declared(unit, n)
       IN  \/ /\ Parse(SetCount(Raised(Defined(WriteConstant(declared), n), -1)))
              /\ UNCHANGED open
           \/ \E m \in Names :
                IF Unready(declared, m)
                THEN Fail(declared)
                ELSE /\ Parse(SetCount(Raised(Defined(Read(declared, m), n), -1)))
                     /\ UNCHANGED open
           \/ Fail(declared)

(* scopestat, and forstat around its parts. *)
BeginScope ==
  /\ Parse([unit EXCEPT !.chain[Top(unit)].deep = @ + 1])
  /\ open' = Opened("scope", NoName)

EndScope ==
  /\ status = "parsing" /\ Innermost("scope")
  /\ unit' = ScopeEnded(unit)
  /\ open' = Closed
  /\ UNCHANGED <<failed, length, status>>

(* fundeclstat up to the parameters: the name, then compiler_init.         *)
Entered(u) ==
  [u EXCEPT !.pools = Append(@, <<>>),
            !.chain = Append(@, NewCompiler(Len(u.pools) + 1, 1))]

BeginFunction(n) ==
  IF Refused(unit, n)
  THEN Fail(Indexed(unit, n))
  ELSE Parse(Entered(Declared(unit, n))) /\ open' = Opened("head", n)

(* function: a parameter is a local whose value the caller has pushed.     *)
AddParameter(n) ==
  /\ status = "parsing" /\ Innermost("head")
  /\ length < ProgramLength
  /\ IF Refused(unit, n)
     THEN Fail(Indexed(unit, n))
     ELSE /\ unit' = Raised(Defined(Declared(unit, n), n), 1)
          /\ length' = length + 1
          /\ UNCHANGED <<open, failed, status>>

(* The brace of the body, which is a scope of its own.                     *)
BeginBody ==
  /\ status = "parsing" /\ Innermost("head")
  /\ unit' = [unit EXCEPT !.chain[Top(unit)].deep = @ + 1]
  /\ open' = Append(Closed, [open[Len(open)] EXCEPT !.kind = "body"])
  /\ UNCHANGED <<failed, length, status>>

(* The end of the body: compiler_end, write_constant and def_var.          *)
EndFunction ==
  /\ status = "parsing" /\ Innermost("body")
  /\ LET left == [unit EXCEPT !.chain = SubSeq(@, 1, Len(@) - 1)]
     IN  unit' = Defined(WriteConstant(left), open[Len(open)].name)
  /\ open' = Closed
  /\ UNCHANGED <<failed, length, status>>

(* A syntax error between statements, in a head or in an expression.       *)
SyntaxError == Fail(unit)

(* The next line is compiled with a Compiler that is gone. *)
UseDangling ==
  /\ status = "parsing" /\ Dangling
  /\ status' = "undefined"
  /\ UNCHANGED <<unit, open, failed, length>>

Next ==
  \/ \E n \in Names :
       \/ UseName(n) \/ UseString(n) \/ SetVariable(n)
       \/ BeginFunction(n) \/ AddParameter(n)
  \/ UseValue \/ BeginScope \/ EndScope \/ BeginBody \/ EndFunction
  \/ SyntaxError \/ UseDangling

Spec == Init /\ [][Next]_vars

-----------------------------------------------------------------------------
(* Properties. *)

LocalType    == [name : Names \cup {NoName}, depth : Nat \cup {-1}]
CompilerType == [chunk : Nat, locals : Seq(LocalType), deep : Nat,
                 height : Int, sets : Nat]
UnitType ==
  [interned : [Names -> [chunk : Nat, index : Nat]],
   pools    : Seq(Seq(Names \cup {Other})),
   chain    : Seq(CompilerType),
   refs     : SUBSET [index : Nat, value : Names \cup {Other}]]
OpenType ==
  [kind : {"scope"}, name : {NoName}] \cup [kind : {"head", "body"}, name : Names]

TypeOK ==
  /\ unit \in UnitType
  /\ unit.chain # <<>> /\ unit.pools # <<>>
  /\ \A n \in Names :
       LET at == unit.interned[n] IN at # NoIndex => at.chunk \in DOMAIN unit.pools
  /\ \A c \in DOMAIN unit.chain :
       LET k == unit.chain[c]
       IN  k.chunk \in DOMAIN unit.pools /\ Len(k.locals) \in 1 .. LocalLimit
  /\ open \in Seq(OpenType)
  /\ failed \in BOOLEAN /\ length \in 0 .. ProgramLength
  /\ status \in {"parsing", "undefined"}

(* The machine reads every constant from the script's chunk (vm.c:25, 127).*)
(* An instruction of the script or of any function finds there what it was *)
(* compiled for, on this and every later line, if the constant was added   *)
(* while the script itself was compiled -- not if a function was, whose    *)
(* indices are remembered all the same (parser.c:130-174).                 *)
ScriptConstantsResolve ==
  \A r \in unit.refs :
    /\ r.index < Len(unit.pools[Script])
    /\ unit.pools[Script][r.index + 1] = r.value

(* Every local whose initializer is over has its cell in the frame, in the *)
(* order of declarations -- one cell too few for every `set` before it,    *)
(* whether in a scope or not (parser.c:419-461, 478-505).                  *)
Ready(locals) == {i \in DOMAIN locals : locals[i].depth # -1}

OneCellShortPerSet ==
  ~failed => \A c \in DOMAIN unit.chain :
    LET k == unit.chain[c] IN k.height = Cardinality(Ready(k.locals)) - k.sets

(* resolve_local finds the innermost declaration: no other visible local   *)
(* of that name is as deep (parser.c:194-216, 450-461, 682-700).           *)
InnermostFound ==
  ~failed => \A n \in Names :
    LET i == ResolveLocal(unit, n)
    IN  \A j \in DOMAIN Locals(unit) :
          i # j /\ Locals(unit)[j].name = n =>
            Locals(unit)[j].depth < Locals(unit)[i].depth

(* A scope that a syntax error has left open is never closed again in the  *)
(* session, whatever the later lines are: the number of scopes the script  *)
(* is in, beside those its current line has opened, never shrinks          *)
(* (parser.c:448-476, and main.c:125-176, which resets nothing).           *)
ScriptScopes ==
  {i \in DOMAIN open : \A j \in 1 .. i : open[j].kind = "scope"}
AbandonedDepth == unit.chain[1].deep - Cardinality(ScriptScopes)

ScopesNeverRecover == [][AbandonedDepth' >= AbandonedDepth]_vars

-----------------------------------------------------------------------------
(* The inductive invariant (CompilerProofs).                               *)

(* The index a string got is that of a constant, the string itself.        *)
InternedResolve(u) ==
  \A n \in Names :
    LET at == u.interned[n]
    IN  at # NoIndex =>
          /\ at.chunk \in DOMAIN u.pools
          /\ at.index + 1 \in DOMAIN u.pools[at.chunk]
          /\ u.pools[at.chunk][at.index + 1] = n

(* Slot 0 of every frame is the function's own, whatever was dropped.      *)
OwnSlot(k) == k.locals[1] = [name |-> NoName, depth |-> 0]

(* The first n locals are ready, in the order of the scopes they are of,   *)
(* and no two of a scope have a name in common.                            *)
Ordered(k, n) ==
  /\ \A i \in 1 .. n : k.locals[i].depth \in 0 .. k.deep
  /\ \A i, j \in 1 .. n :
       i < j => /\ k.locals[i].depth <= k.locals[j].depth
                /\ k.locals[i].name = k.locals[j].name =>
                     k.locals[i].depth < k.locals[j].depth

(* Between statements every local is ready ...                             *)
Settled(k) ==
  /\ Ordered(k, Len(k.locals))
  /\ k.height = Len(k.locals) - k.sets

(* ... but the one whose function is being compiled.                       *)
Awaiting(k) ==
  LET n == Len(k.locals)
  IN  /\ n > 1 /\ Ordered(k, n - 1)
      /\ k.height = n - 1 - k.sets
      /\ k.locals[n].depth = -1
      /\ \A i \in 1 .. n - 1 :
           k.locals[i].name = k.locals[n].name => k.locals[i].depth < k.deep

FramesInStep(u) ==
  \A c \in DOMAIN u.chain :
    IF c < Top(u) /\ u.chain[c].deep > 0
    THEN Awaiting(u.chain[c]) ELSE Settled(u.chain[c])

(* The Compiler of what is inside the i-th of the open constructs: one     *)
(* more for each function; and every scope of a function has deepened it.  *)
Functions(o, i) == {j \in 1 .. i : o[j].kind # "scope"}
Owner(o, i)     == 1 + Cardinality(Functions(o, i))

OpenInStep(u, o) ==
  /\ Owner(o, Len(o)) = Top(u) \/ o = <<>>
  /\ \A i \in 0 .. Len(o) : \A g \in 0 .. i :
       (\A j \in g + 1 .. i : o[j].kind = "scope") =>
         u.chain[Owner(o, i)].deep >= i - g

CInv ==
  /\ TypeOK
  /\ InternedResolve(unit)
  /\ ScriptConstantsResolve
  /\ \A c \in DOMAIN unit.chain :
       /\ OwnSlot(unit.chain[c])
       /\ c < Top(unit) /\ unit.chain[c].deep > 0 => Len(unit.chain[c].locals) > 1
  /\ ~failed => FramesInStep(unit)
  /\ OpenInStep(unit, open)
=============================================================================
