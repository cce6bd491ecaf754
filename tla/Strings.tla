------------------------------ MODULE Strings -------------------------------
(***************************************************************************)
(* The string objects of value/obj.c and the table v.strings that interns  *)
(* them.  A string's characters lie behind its object, in the same         *)
(* allocation, or in a block of their own that take_string was given.      *)
(*                                                                         *)
(* Every call looks its characters up first and then enters a new string   *)
(* if there was none; between the two, and until table_set has returned,   *)
(* `call` says whose it is.  The table's steps are those of Table, whose   *)
(* keys are the strings; which of the free addresses malloc returns for a  *)
(* new one is not told apart.                                              *)
(***************************************************************************)
EXTENDS Table, Sequences

CONSTANTS
  Blocks,    \* addresses of blocks for characters
  MaxCount   \* bound: how often a product repeats a string

ASSUME StringsAssumption ==
  /\ \A k \in Keys : Content[k] \in Seq(Nat)
  /\ Vals = {"void", "index"}
  /\ MaxCount \in Nat
  /\ \A b \in Blocks : <<"block", b>> # NULL

VARIABLES
  call,      \* the function under way, a string like the one it looks up,
             \* and where its characters are
  objects,   \* the string objects in the list v.objects
  chars,     \* where the characters of each are
  blocks,    \* the blocks that are allocated
  answer     \* the string just returned

memory     == <<objects, chars, blocks>>
stringVars == <<vars, call, memory, answer>>

NoRequest == [fn |-> "none", key |-> NULL, chars |-> NULL]

Behind(s) == <<"behind", s>>       \* (char*) (string + 1)
Block(b)  == <<"block", b>>

Interning == {"copy_string", "literal", "product", "concatenate"}

(* Strings are entered when they are made, so the ones there are to work   *)
(* with are those in the table.                                            *)
Interned == Keys \cap {keys[i] : i \in Slots(cap)}

(* One string for each sequence of characters, to look up by. *)
Samples == {CHOOSE s \in Like(k) : TRUE : k \in Keys}

(* malloc *)
NewObject(k) == CHOOSE s \in Like(k) \ objects : TRUE
NewBlock     == CHOOSE b \in Blocks \ blocks : TRUE

-----------------------------------------------------------------------------
(* The calls, up to table_find_string. *)

StringsInit ==
  /\ Init
  /\ call = NoRequest
  /\ objects = {}
  /\ chars = <<>>
  /\ blocks = {}
  /\ answer = NULL

Begin(fn, k, where) ==
  /\ Search(k)
  /\ call' = [fn |-> fn, key |-> k, chars |-> where]
  /\ answer' = IF fn \in Interning THEN NULL ELSE answer

CopyString(k) == Begin("copy_string", k, NULL) /\ UNCHANGED memory

(* literal: take_string with the characters of the string the lexer made.  *)
Literal(s) ==
  /\ Begin("literal", s, chars[s])
  /\ UNCHANGED memory

(* OP_MUL: a block is filled with copies and given to take_string. *)
Repeated(s, n) == [i \in 1 .. n * Len(s) |-> s[((i - 1) % Len(s)) + 1]]

Multiply(s, n, k) ==
  /\ Content[k] = Repeated(Content[s], n)
  /\ Blocks \ blocks # {}
  /\ Begin("product", k, Block(NewBlock))
  /\ blocks' = blocks \cup {NewBlock}
  /\ UNCHANGED <<objects, chars>>

(* Mutant: the new object's pointer to its characters is not set. *)
ConcatenateUnset(s, t, k) ==
  /\ Content[k] = Content[s] \o Content[t]
  /\ Like(k) \ objects # {}
  /\ Begin("concatenate", NewObject(k), Behind(NewObject(k)))
  /\ objects' = objects \cup {NewObject(k)}
  /\ UNCHANGED <<chars, blocks>>

(* concatenate makes its object before it looks for another. *)
Concatenate(s, t, k) ==
  /\ Content[k] = Content[s] \o Content[t]
  /\ Like(k) \ objects # {}
  /\ LET new == NewObject(k) IN
       /\ Begin("concatenate", new, Behind(new))
       /\ objects' = objects \cup {new}
       /\ chars' = [o \in objects' |-> IF o = new THEN Behind(new) ELSE chars[o]]
  /\ UNCHANGED blocks

(* name_constant; literal calls string_constant, which does the same.      *)
NameConstant(s) ==
  /\ Begin("constant", s, NULL)
  /\ UNCHANGED memory

StringConstant ==
  /\ call.fn = "string_constant"
  /\ Search(call.key)
  /\ call' = [call EXCEPT !.fn = "constant"]
  /\ UNCHANGED <<memory, answer>>

-----------------------------------------------------------------------------
(* The calls, behind table_find_string. *)

Found == pc = "idle" /\ got # NoLookup /\ got[3] # NULL
Absent == pc = "idle" /\ got # NoLookup /\ got[3] = NULL

(* What the caller does with a string: literal makes a constant of it.     *)
Return(s) ==
  /\ answer' = s
  /\ call' = IF call.fn = "literal"
             THEN [fn |-> "string_constant", key |-> s, chars |-> NULL]
             ELSE NoRequest

(* The string is there: a block, or an object of concatenate, is forgotten.*)
ReturnFound ==
  /\ call.fn \in Interning /\ Found
  /\ Return(got[3])
  /\ UNCHANGED <<vars, memory>>

SetOrGrow(k, v) == Set(k, v) \/ Grow(k, v)

(* allocate_string *)
Allocate(s, where) ==
  /\ objects' = objects \cup {s}
  /\ chars' = [o \in objects' |-> IF o = s THEN where ELSE chars[o]]
  /\ SetOrGrow(s, "void")

(* Mutants: take_string does not look for the string; does not keep the    *)
(* characters it is given.                                                 *)
TakeUnseen ==
  /\ call.fn \in {"literal", "product"} /\ (Found \/ Absent)
  /\ Like(call.key) \ objects # {}
  /\ Allocate(NewObject(call.key), call.chars)
  /\ UNCHANGED <<call, blocks, answer>>
TakeBehind ==
  /\ call.fn \in {"literal", "product"} /\ Absent
  /\ Allocate(NewObject(call.key), Behind(NewObject(call.key)))
  /\ UNCHANGED <<call, blocks, answer>>

(* take_string *)
Take ==
  /\ call.fn \in {"literal", "product"} /\ Absent
  /\ Allocate(NewObject(call.key), call.chars)
  /\ UNCHANGED <<call, blocks, answer>>

(* copy_string *)
Copy ==
  /\ call.fn = "copy_string" /\ Absent
  /\ Allocate(NewObject(call.key), Behind(NewObject(call.key)))
  /\ UNCHANGED <<call, blocks, answer>>

(* concatenate *)
Enter ==
  /\ call.fn = "concatenate" /\ Absent
  /\ SetOrGrow(call.key, "void")
  /\ UNCHANGED <<call, memory, answer>>

(* The constant's index is kept with the string, once there is one. *)
KeepIndex ==
  /\ call.fn = "constant" /\ (Found \/ Absent)
  /\ IF Found /\ vals[CHOOSE i \in Holds(got[3]) : TRUE] # "void"
     THEN UNCHANGED vars /\ call' = NoRequest
     ELSE SetOrGrow(call.key, "index") /\ UNCHANGED call
  /\ UNCHANGED <<memory, answer>>

Rebuild == (Rehash \/ Adopt) /\ UNCHANGED <<call, memory, answer>>

(* table_set returns. *)
StoreString ==
  /\ Store
  /\ IF pc' = "idle" /\ call.fn \in Interning
     THEN Return(pending[1])
     ELSE /\ call' = IF pc' = "idle" THEN NoRequest ELSE call
          /\ UNCHANGED answer
  /\ UNCHANGED memory

(* objects_free: each object, and its characters if they have a block.     *)
ObjectsFree ==
  /\ call = NoRequest /\ pc = "idle"
  /\ objects' = {}
  /\ chars' = <<>>
  /\ blocks' = {b \in blocks : \A o \in objects : chars[o] # Block(b)}
  /\ call' = [NoRequest EXCEPT !.fn = "destroyed"]
  /\ UNCHANGED <<vars, answer>>

Ask ==
  /\ call = NoRequest /\ pc = "idle"
  /\ \/ \E k \in Samples : CopyString(k)
     \/ \E s \in Interned : \/ Literal(s) \/ NameConstant(s)
                            \/ \E t \in Interned, k \in Samples : Concatenate(s, t, k)
                            \/ \E n \in 1 .. MaxCount, k \in Samples : Multiply(s, n, k)

StringsNext ==
  \/ Ask
  \/ StringConstant
  \/ ReturnFound \/ Take \/ Copy \/ Enter \/ KeepIndex
  \/ Rebuild \/ StoreString
  \/ ObjectsFree

StringsSpec ==
  StringsInit /\ [][StringsNext]_stringVars /\ WF_vars(Rehash \/ Adopt \/ Store)

-----------------------------------------------------------------------------
(* Properties.                                                             *)

Places == {Behind(k) : k \in Keys} \cup {Block(b) : b \in Blocks}

StringsTypeOK ==
  /\ TypeOK
  /\ call \in [fn : Interning \cup {"none", "string_constant", "constant", "destroyed"},
               key : Keys \cup {NULL}, chars : Places \cup {NULL}]
  /\ objects \subseteq Keys
  /\ chars \in [objects -> Places]
  /\ blocks \subseteq Blocks
  /\ answer \in Keys \cup {NULL}

(* object_free frees the object, and the block of its characters if they   *)
(* are not behind it: at any moment each such block is allocated and no    *)
(* other object's, so that nothing is freed twice and nothing that malloc  *)
(* did not return, whichever of the operations made the strings            *)
(* (obj.c:65-131, 147-163, parser.c:886-890, vm.c:352-371).                *)
FreeableOnce ==
  \A o \in objects :
    /\ chars[o] = Behind(o) \/ \E b \in blocks : chars[o] = Block(b)
    /\ \A p \in objects : chars[p] = chars[o] => p = o

(* The only block that no object frees at exit is one take_string was      *)
(* given for a string that was there already (obj.c:71-74).                *)
Held(b) == (\E o \in objects : chars[o] = Block(b)) \/ call.chars = Block(b)
Forgotten == {b \in blocks : ~Held(b)}
OnlyRepeatsForgotten ==
  [][Forgotten' \subseteq Forgotten \/ (call.fn = "product" /\ Found)]_stringVars

(* Strings of equal characters are one string: the table, the objects and  *)
(* the order of lookup and allocation implement interning (obj.c:43-131,   *)
(* table.c:117-157).                                                       *)
Intern ==
  INSTANCE AbstractIntern WITH
    Strings <- Keys,
    None <- NULL,
    interned <- Interned,
    asked <- IF call.fn \in Interning THEN call.key ELSE NULL,
    answer <- answer

RefinesIntern == Intern!Spec
-----------------------------------------------------------------------------
(* The inductive invariant behind these properties.                        *)

Alike(k) == Like(k) \cap Interned

Entering == pc \in {"rehash", "store"}

(* Behind table_find_string the caller has a string that is stored, or     *)
(* NULL if there is none.                                                  *)
Answered ==
  pc = "idle" /\ call.fn \in Interning \cup {"constant"} =>
    \E s \in IF Alike(call.key) = {} THEN {NULL} ELSE Alike(call.key) :
      got = <<"find", call.key, s>>

(* What table_set has been given. *)
Entered ==
  Entering =>
    \/ /\ call.fn \in Interning \ {"literal"}
       /\ pending[1] \in Like(call.key) \cap objects
       /\ Alike(call.key) = {}
    \/ call.fn = "constant" /\ pending[1] = call.key

(* An object like none that is stored is about to be. *)
AllEntered ==
  \A o \in objects : \/ Alike(o) # {}
                     \/ o = pending[1]
                     \/ call.fn = "concatenate" /\ o = call.key

(* Whose the characters are that a call has been given. *)
Owned ==
  /\ call.fn = "literal" => \E o \in objects : chars[o] = call.chars
  /\ call.fn = "concatenate" => call.key \in objects /\ call.chars = Behind(call.key)
  /\ call.fn = "product" =>
       \E b \in blocks :
         /\ call.chars = Block(b)
         /\ pc = "idle" => \A o \in objects : chars[o] # Block(b)
         /\ Entering => \E o \in objects : chars[o] = Block(b)
  /\ call.fn \notin {"literal", "concatenate", "product"} => call.chars = NULL

SInv ==
  /\ IInv
  /\ StringsTypeOK
  /\ FreeableOnce
  /\ call.fn \notin {"none", "destroyed"} => call.key \in Keys
  /\ call.fn \in {"literal", "string_constant", "constant"} => call.key \in Interned
  /\ call.fn # "destroyed" => Interned \subseteq objects
  /\ Answered
  /\ Entered
  /\ AllEntered
  /\ Owned
=============================================================================
