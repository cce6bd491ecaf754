# Hawthorn, specified

TLA+ models of the Hawthorn interpreter: a compiler from source text to
bytecode in one pass, and a stack machine with a REPL in front of it, about
3,500 lines of C without headers. The models are translated from the code;
`PROJECT.json` maps every definition to the lines it stands for. TLC checks small instances, TLAPS proves the
theorems for every instance. Paths below are relative to the repository.

## The system

| part | state | operations | who calls it |
|---|---|---|---|
| lexer (`src/lexer/lexer.c`) | source position, one String buffer, line number | `lex_init`, `lex` | parser |
| parser (`src/parser/parser.c`) | previous and current token | one function per construct | `main.c` |
| compiler (`src/parser/compiler.c`) | chain of Compilers: locals, scope depth, function | `compiler_init`, `compiler_end` | parser |
| chunk (`src/interpreter/chunk/`) | code bytes and constants of one function | emit, `write_constant`, `emit_jump`, `patch_jump`, `chunk_clear` | parser; read by the machine |
| machine (`src/interpreter/vm.c`) | value stack with `stack_top`, frames, `chunk`, globals, interned strings, object list | `interpret`, `vm_execute`, one case per opcode | `main.c` |
| values (`src/value/value.c`, `value.h`) | none | truth, equality, order, printing | machine |
| objects (`src/value/obj.c`) | object list, interned strings (both in the machine) | strings: take, copy, concatenate; functions, natives; free | lexer, parser, machine |
| hash table (`src/share/table.c`) | array of entries, number of keys | `table_set`, `table_get`, `table_find_string` | objects, parser (indices of constants), machine (globals) |
| dynamic array (`src/share/array.c`, `array.h`) | header {capacity, size} and cells | init, ensure capacity, reserve, push, pop | chunk, table, machine |
| string buffer (`src/share/string.c`) | characters, length, capacity | append, clear, take | lexer |
| errors (`src/share/error.c`) | the prompt's `jmp_buf` | print, then `exit` or `longjmp` | everyone |
| command line, REPL (`src/main.c`) | flags | run a file; read, compile and run line by line | user |

The program has one thread and stores nothing: what is hard here is not
concurrency but *long legal sequences* over state that is kept twice or
outlives its moment:

- the stack is kept twice, as the size in the array's header and as the
  pointer `v.stack_top`, and is pointed into by every frame while `realloc` may
  move it (`vm.c:29-30, 94, 110, 190-197`);
- constants belong to functions, but are read from the script's chunk, by
  indices remembered in a table of strings for all chunks (`vm.c:25, 127`,
  `parser.c:130-174`);
- each construct's code has to leave the stack as it found it, in every
  nesting, and jumps and wide operands have to be read back as written;
- the table rebuilds itself while probe chains are incomplete, in memory that
  is partly uncleared (`table.c:28-54`);
- strings are one object for each sequence of characters, whoever makes them,
  and own a block of memory or share their object's; the index of a constant is
  kept with them (`obj.c:42-163`, `parser.c:130-174`);
- one line array, one text buffer, one union of values and one `errno` serve
  all tokens of all lines (`main.c:136-165`, `lexer.c:175-187, 243, 404`);
- the descent hands levels, counts and holes for jumps down its recursion
  (`parser.c:535-731`);
- an error in the REPL is a `longjmp`: the stack, the frames, the code
  compiled so far, the open scopes and the pointer to the current Compiler
  stay as they were (`error.c:12-21`, `main.c:125-176`).

What makes each part correct:

- *machine*: a frame's slots begin at its function; frames do not overlap; a
  return restores the caller's stack; the two views of the stack agree;
  programs without loops end; nothing undefined happens.
- *table*: every stored key is found, once; it is a map; no search is endless.
- *encoding*: operands and jumps are read back as written.
- *compiler*: indices name the right constants, slots the right cells, names
  the innermost declaration.
- *session*: a line runs its own code, with nothing left over from others.
- *values*: a comparison has a case for every pair of values.
- *strings*: equal strings are one object; every block has one owner.
- *lexer*: a token's text, value and kind are its own; lex stays in its line and returns.
- *parser*: what is accepted is a sentence, and its code is that of its phrases; nothing else is refused.

`PROJECT.json` lists the hazards, each at its line, with the properties that
watch it.

## Modules

| module | models | extends |
|---|---|---|
| `AbstractMap` | what a table promises: a map whose stores are called and then take effect | |
| `Table` | `table.c`, one action per call, one per slot while it grows | |
| `AbstractIntern` | what interning promises: equal characters, one string | |
| `Strings` | string objects of `obj.c` over the table, with their callers | Table |
| `TableProofs` | invariants, properties and refinements of Table and of Strings, which runs its table as Table says | Strings |
| `Lexer` | `lexer.c`, the buffer of `string.c`, and where `main.c` gets characters | |
| `LexerProofs` | invariant and properties of Lexer; what its recursive functions compute | Lexer |
| `Grammar` | the language of `parser.c` without a parser: phrases, with their code, composed of shorter ones | Codegen |
| `Parser` | the descent of `parser.c` and the bytes it emits, token by token | Bytecode; an instance of Grammar |
| `PhraseProofs` | phrases among the tokens read and the code emitted: how they are composed, and that they stay | Parser |
| `ParserProofs` | types of Parser; what it accepts is a sentence, and its code that of the grammar | PhraseProofs |
| `DynArray` | `array.c` as operators on a record | |
| `Bytecode` | opcodes, encoding and decoding | |
| `Values` | tagged values and the operators on them | |
| `Codegen` | the code of each construct of `parser.c` | Bytecode |
| `CodegenProofs` | jumps land, operands are read back; each construct's code has a map if its parts have | Codegen, VmProofs |
| `Vm` | `vm.c`, one action per instruction, and `interpret` | Bytecode, Values, DynArray |
| `StackMaps` | what the machine relies on: the map of a function's code, how many cells its frame has where | Vm |
| `VmProofs` | type invariant and lag of `stack_top`, for every program; a machine whose code has maps is sound | StackMaps |
| `MapSearch` | finds the map of a function, for TLC only (it is recursive) | StackMaps |
| `Session` | the loop of the REPL around the machine | Vm |
| `SessionProofs` | sessions run out of frames for good; lines that run their own code are sound | Session, VmProofs |
| `Compiler` | names, constants, scopes and Compilers in `parser.c` and `compiler.c` | |
| `CompilerProofs` | invariant and properties of Compiler | Compiler |
| `MCTestFile` | `test/test.haw` for Lexer, byte by byte | Lexer |
| `MCLevels` | `||` and `&&` for Parser, and the levels `parser.h` names | MCParser |
| `MC*` | the other instances for TLC: programs, lines, keys | |

`Codegen` meets `Vm` in `MCVm`, `MCTests` and `MCSession`: programs are built by
Codegen's operators, byte by byte, and executed by Vm's actions, which fetch
bytes. So a wrong distance in `emit_njump` shows as a wrong step of the machine.
`Vm` uses globals as a map; that `table.c` is one is `Table`'s `RefinesMap`.
`Parser` and `Codegen` meet through `Grammar`, which defines the language without a
parser, as phrases composed from shorter ones whose code is Codegen's: `Parser`
must emit exactly that. `Parser` takes the language as a constant: anything that has all the
phrases the rules compose of its own (`IsLanguage`); `MCParser` gives it the smallest. `Strings` extends `Table`: its actions contain the table's.

How the state corresponds:

- *Vm*: `stack` is the array with its header (`items`, `size`, `cap`), the
  number of times its block has moved (`gen`), and `v.stack_top` as an offset
  into a generation (`top`, `topGen`). A frame's `slots` is such a pair, too.
  Access through a pair of an old generation is access to freed memory.
  `status = "undefined"` stands for whatever C leaves undefined. An
  instruction is one action, with all its pushes and pops.
- *Table*: `keys`, `vals`, `cap`, `size` are the entries and the header; `newKeys`
  and so on the table that `adjust_capacity` builds; `pc` says where
  `table_set` stands, `"hang"` that `find_entry` never returns, `"undefined"`
  that an uninitialised key was followed. `Fresh` is what the cells hold that
  `realloc` adds: NULL, or keys nobody wrote (`Junk`), too.
- *Session*: `leftover` is the code that failed lines have left in the script's
  chunk. `floor` and `stale` are history variables.
- *Strings*: `Table`'s variables are the table `v.strings`. `call` says whose the
  lookup or store under way is, `objects` is the list `v.objects`, `chars` where each
  object's characters are (behind it, or in one of `blocks`), `answer` what was returned last.
- *Lexer*: `buffer` is the source array, `ls` the LexState, `semi` the shared SemInfo,
  `erange` whether errno says ERANGE, `at` the place in `lex`; `chunks` is history: what fgets delivered. Each
  round of a loop of `lex` is one action. A byte is named by what lex distinguishes; one that
  nobody wrote, or that is outside the array, is `UNSET`, and reading it is undefined. errno is
  set by `strtoll`, `strtod` and, when a line is run, `pow`, which `Interpret` may do after every line with
  the operator `^`; `fmod` may replace it. A file is a block with the byte behind its text
  `UNSET`, and storing the terminator behind the block is undefined at once or goes well.
- *Parser*: `todo` is the C stack, the remainder of each call under way;
  `previous` and `current` the two tokens; `read` is history.
- *Compiler*: `unit.chain` is `current` and its `enclosing` Compilers, `pools` the
  constants of the chunks, `interned` the indices in `v.strings`, `open` the
  parse functions that are on the C stack. `height`, `sets` and `refs` are
  history: what the emitted code does to the frame, and the operands emitted.

A definition whose comment begins with "Mutant" is not part of any
specification: it is a plausible mistake in the definition behind it, and the
property named for it in `PROJECT.json` fails when it takes that definition's place.

## Runs

| run | question | states |
|---|---|---|
| `table` | is a table a map, searchable and counted, do its stores end, and what do its uncleared slots do? | 33,509 |
| `vm` | do calls, returns, loops and recursion keep stack and frames in order? | 95,855 |
| `vm_natives` | what parts the two views of the stack, and where alone is something undefined? | 147,373 |
| `vm_repl` | is a line sound after any lines before it? | 307,796 |
| `compiler` | do indices, slots and scopes stay right, through errors? | 762,824 |
| `lexer` | what are a token's text, value and kind, and which lines are left? | 166,624 |
| `parser` | does the descent read the language and emit its code? | 630,057 |
| `strings` | are equal strings one object, and does every block have one owner? | 413,935 |

Bounds, and why they suffice:

- *table*: capacity 2 in place of 8, so that five keys make it grow twice (2 to
  6 to 14) and the second growth copies uncleared slots. The hashes make chains
  collide and wrap in each size. The slots left uncleared hold
  NULL or junk, in every combination. One value is stored, so that TLC sees
  which keys are there; that a later value takes an earlier one's place is proved (`Refinement`), for any values.
- *vm*: a frame limit of 4 in place of 64, reached by the recursive programs; an
  array of 2 cells, so that the stack grows several times; some 5,000
  programs: a prelude that declares two functions of one parameter, with four bodies each
  (return, call of the argument, assignment and tail call, branch and
  recursion), an assignment to a global and a statement of each kind over
  nested calls. Bytes have 256 values here and 32 in `vm_natives` and
  `vm_repl`, where constants have indices above 31, so that wide operands occur.
- *vm_natives*, besides: programs without a map. A function whose literals and names are indices
  of its own, within the script's constants and beyond them, and no name there; a void, returned
  or a literal, on either side of `==`, `!=` and `<`; a body without return; natives as operands and in `print`.
- *vm_repl*: at most `SessionSize` = 12 values on the stack when a line begins
  and `LeftoverSize` = 8 bytes left over; enough to use up the four frames in every
  mixture of errors, halts and top-level returns.
- *compiler*: five constructs and parameters, two names, two locals beside slot
  0: enough for shadowing in nested scopes, a full frame, functions in scopes
  and errors at every point between them. Names are symmetric.
- *table*, lookups by characters: the hashes of two keys are equal, their contents not.
- *lexer*: an array of 6 characters in place of 128 and strings of 2 in place of 8, so that
  lines are split and buffers grow twice; the first line fills the array in some
  way, the second is any of the words and symbols that matter and then any up to
  four characters over alphabets that meet (quotes and escapes, apostrophes, digits and
  dots, letters of keywords, symbols, byte 255). Integers from 10 on are too large, from
  100 on for strtoll; literals with a dot are out of range from 10000 on, and above zero below 0.001. Lines and
  files have no NUL byte. What other library calls do to errno is left out.
- *parser*: alphabets of tokens that interact, up to ten tokens long: operators of
  every level against each other, prefixes and postfixes, calls with up to two
  arguments, statements with a dangling else, loops with and without each part. Bytes have
  64 values, so that one name needs the wide form.
- *strings*: two characters, copies and products up to threefold; two objects for
  the same characters, one block: a string is made twice by each operation. The table
  begins with two slots, grows twice, and its uncleared slots hold anything.

Fairness: the program is sequential, a call that has begun runs on. So `Vm` has
weak fairness of `Step`, not of `Interpret` (nobody has to run anything), and
`Table` and `Strings` of the steps inside `table_set`, not of the calls. `Lexer` has it of the
rounds of `lex`, not of the parser's calls or of typing; `Parser` of every step, which
are all its own: the lexer answers whenever it is asked.

What they show. `vm`: without natives, `set` and moves of the stack, everything that
calls and returns should guarantee holds, through recursion into the limit.
`vm_natives`: `v.stack_top` falls behind at calls of natives and nowhere else. Something
undefined happens only where `Unchecked` says: behind the last instruction of a function without a
return; at LOADLOCAL, SETLOCAL or CALL, when `realloc` has moved the stack under a frame's slots or
`v.stack_top`; at an index of a function's own constants, which the script's do not have, or not as a
name; when a native is printed, a void stands on the left of a comparison, or an integer leaves its
range. Without any one of these disjuncts the run fails; and nowhere else does a program pop what is
not there, miss its callee or a slot, or subtract pointers into different blocks, also while
`v.stack_top` lags. `vm_repl`: errors alone do no harm
to later lines; a top-level `return`, or code left over by a failed line, does; and
frames are used up for good. `table`: growth loses nothing. What it leaves
uncleared is the last `INITIAL_CAPACITY` slots of every rebuilt table, the first one included, and no other slot ever
holds a key nobody wrote: a lookup by characters follows one as soon as its chain enters that tail, the next rebuild when it
comes to it; a search can be endless in the first rebuilt table only, later ones being larger
than the load factor and the tail fill.
`lexer`: tokens are their own, except that the word `int` is taken for a literal
without value, and that one literal out of range, or a power, turns all later integers into
numbers, errno never being reset; the lexer leaves its line in comments, strings and
apostrophes of a line without newline, in a string whose newline is escaped, and behind
every file's text. `parser`: the descent is the language's, with one undefined case (an operand
followed by `!`); any token passes for the brace of a `for`. `strings`: interning holds over
arbitrary memory; the only block ever forgotten is a product's that was there already.
`compiler`: constants of the script resolve; each `set` takes one cell from
its frame; scopes left open by an error stay open.

Four runs expect a violation: each states what a comment or test of the repository says,
and TLC shows a run of the code that does otherwise (`PROJECT.json`, "findings"):

| run | the repository says | the code |
|---|---|---|
| `test_globalvars` | `print abc` prints 100 (`test/globalvars.haw:6`) | the first `set` pops the script, the second an empty stack, before that |
| `own_constants` | functions return values (`value.h:14-16`) | a literal in a function is looked up in the script's constants |
| `test_file` | a file is run (`main.c:25`), and ends with a terminator (`token.h:115`) | `readfile` stores it one byte too far; `lex` reads the byte before, which nobody wrote |
| `or_and` | `PREC_OR` is a level below `PREC_AND` (`parser.h:29-30`) | the table of rules gives `||` the level of `&&` |

The models show more of the kind, for which there is no run of its own:
`value.c:54-56` says that `valuecmp` answers 0, -1 or 1 by the order of two numbers, but of values of different types
`valueeq` compares the bits, so that 0 and 1.0 may be equal (`value.h:57`; `EqualOutcomes`);
`test/localvars.haw` does not print the 10 of its comment, for the reason that `globalvars.haw`
does not (`parser.c:438`); with `Moves = {FALSE, TRUE}` the run `vm` ends in
freed memory as soon as an argument's push moves the stack under `frame->slots` (`vm.c:94`);
`Balanced` says that a script that halts leaves itself on the stack, so that
`vm_destroy` warns about every script that ended well (`vm.c:542-549`).

Deadlock is not checked: the system really stops when the program has ended or is undefined,
when a search is endless, or a bound is reached.

## Proofs

Assumed are only the named assumptions on the constants, which TLC evaluates in the runs
(`TableAssumption`, `VmAssumption`, `LexerAssumption`, `CharactersAssumption`, ...).

- `TableProofs`. The inductive invariant `IInv` (in `Table`) holds for all keys,
  hashes, capacities and contents of fresh memory. `Findable` alone is not
  inductive: a store needs the load bound to know that `find_entry` stops, the
  bound needs `size` to be the number of keys, and a rebuilt table needs
  `Copied`: it holds exactly the keys of the slots already copied, in no more slots than
  those, so that a NULL remains. From it follow `TypeOK`, `Findable`, `SizeCounts`,
  `NeverLost`, `LostInTail` and the
  refinement `RefinesMap`: a growing table is a map that stutters; the call of
  `table_set` begins a store of the map, its last write is where that takes effect.
  Of `Strings`: `SInv` (in `Strings`) is inductive for all strings, hashes and fresh
  memory: `RunsTable` makes every step one of the table, so that `IInv` holds, too, and a
  lookup's answer can be trusted until the next call (`Answered`); `Entered` and `AllEntered` say
  that an object whose characters nobody has stored is the one about to be, so there are never two;
  `Owned` says whose the characters are that a call was given. From it follow
  `FreeableOnce`, `OnlyRepeatsForgotten` and the refinement `RefinesIntern`.
- `VmProofs`. `TypeOK` is inductive for every table of functions, compiled
  or arbitrary bytes: the stack stays within its block, only known values reach it, the
  frames stay below the limit; one lemma per instruction. `OnlyNativesLag`: for
  every program the distance between the size and `stack_top` changes at native
  calls, by the operands, and at returns only.
  What the runs `vm` and `vm_natives` check holds of no arbitrary
  bytes; it needs code that keeps the stack in step with itself. `StackMaps` says what that
  is: a *map* gives, for each offset the code may stand at (and whether WIDE was
  just read), how many cells the frame has there; `Flows` is the rule of each opcode, as
  `vm_execute` treats it. `MappedInv` is inductive for every program that has maps,
  every limit, capacity and choice of moves. Its first part, `Grounded`, is the properties
  themselves (`CallBinding`, `FramesNested`, `OneStack`); they are not inductive, for a call
  counts its slots back from the size: so `InStep` says that every frame has exactly as many
  cells as its map says of its place, that each ends at the function the next one
  executes, and that cells above slot 0 are *clean*, no script and no native a
  program cannot read. Once a native is called the array keeps the values it
  took; then only `Enough` holds, at least as many cells as the map says, which is
  what keeps `v.stack_top` behind until the script returns; and `Stocked`: `v.stack_top` still stands above as many cells as the last
  frame's map says, all cells above the script's are clean, and the slots of every function's frame point into the
  block that `v.stack_top` points into. So a callee is found wherever the pointer stands, a return
  subtracts pointers into one block, and what remains is `Unchecked`; one lemma per instruction (`CallLasts`,
  `ReturnLasts`, ...). From it follow `UndefinedOnlyAt` and, as long as
  the two views agree, `CallBinding`, `FramesNested` and `Balanced`; for programs that do not
  read the native's name they follow outright, with `ReturnRestores`. If besides the stack does
  not move and every function returns, only `Overflows` is undefined; and without
  arithmetic, nothing (`NeverUndefined`).
- `SessionProofs`. `Exhaustion`: a session at the frame limit stays there.
  `SessionsSound` is `SoundUntilStale` for sessions of any length: `InterpretInStep` needs of
  the lines before nothing but `Grounded`, which errors and halts leave true, and the steps of a
  line touch nothing below `floor` until `stale`.
- `CompilerProofs`. `CInv` (in `Compiler`) is inductive for all names, limits and
  orders of statements and errors. `OneCellShortPerSet` needs to know of each Compiler whether
  it is `Settled` or `Awaiting` the function inside it, whose name is a local that is not
  ready; `InnermostFound` that locals are `Ordered` by depth; `ScriptConstantsResolve` that
  every remembered index is a constant's (`InternedResolve`), or a later line would use a
  wrong one; `ScopesNeverRecover` that each open function has its own Compiler (`Owner`,
  `OpenInStep`), so that only the script's own scopes are closed on it.
- `CodegenProofs`. For every size of a byte: forward and backward jumps land
  where they should, and an operand is read back as it was written. And that the
  compiler's code has maps. A `Phrase` is a piece of code that leads from n cells to m wherever it
  stands: an `Expression` adds one, a `Statement` keeps, code that `Ends` does not come
  out. There is a lemma for each construct of `Codegen`: a map of the whole is the
  maps of its parts, joined where they meet (`Joined`) and closed by the jumps, of which each has to
  be shown to land at a place of the map with the right number of cells (`ForLoopShape` for the
  three of a `for`). `Composed` collects them: the script and each function are statements
  over the script's constants. `ComposedIsMapped` gives `Mapped`, `Returns` and `Calm`,
  `ComposedSound` and `ComposedCalm` the theorems on maps for all such programs, and
  `RecursionComposed` shows that the hypotheses can be met. They ask of the parts that
  operands index constants of the right kind and jumps fit in 16 bits (beyond either the
  compiler reports an error), and of a `for` that it has a condition. `set` of a
  global is no statement: it takes one cell more than it makes (`VarDeclTakesACell`).

- `LexerProofs`. `LInv` (in `Lexer`) is inductive for all alphabets, lines, files, sizes and limits.
  `StaysInLine` needs the line to be in the array (`SourceHeld`), the lexer to stand in it
  (`Standing`) and, in a line that does not run on, a quote or comment to have the newline still before
  it (`WithinLine`). `TextIsLexeme` needs what is saved to stand right before the lexer, from where a word
  can begin (`Begun`, `Saved`). `KindByMagnitude` needs of a set errno that its cause was read
  (`ErangeExplained`), and hence that digits in a row in the array were: a shorter line's terminator
  parts what it wrote from what an earlier one left (`RunsRead`). One lemma per branch of
  `lex`; `GotoKeeps` says what each has to show. `Magnitude` and `Decoded` are recursive
  functions; `MagnitudeOfDigits` and `DecodedCharacters` say what they are of every
  sequence, by least counterexample (`LeastOf`), for want of induction.

- `ParserProofs`, `PhraseProofs`. `EmitsTree` is `EmitsItsTree` for all alphabets, numbers of tokens,
  names, limits of arguments and sizes of a byte, of a script and of a REPL, and for every language that
  is closed under the rules of `Grammar`, so for the smallest. Accepting is the last
  step of a long descent: the invariant has to say what every
  unfinished call has done and has still to do. It puts a *mark* between any two calls of `todo`:
  a token, a byte of the code, and the kind of phrase that is to begin there, with
  its level. A *link* ties each call to the marks above and below it (`Link`; one definition per
  place of the C code): if the calls above have parsed what the upper mark
  wants, the call goes on to what the lower one wants. So the link of `for_body` holds the head of the `for`, its
  condition, the jump out of the loop that waits for its patch and the jump over the increment. At the top
  the mark says what has been parsed so far (`Holds`). One lemma per action shows that
  it takes the marks of its call to those of the calls it leaves (`MarkPrec` to
  `MarkForEndPatched`). `PhraseProofs` has what these need: a lemma per rule of the grammar
  on *adjacent* stretches of the tokens read and the bytes emitted (`BinaryOperand`,
  `IfElseStatement`, `GuardedFor`, ...); that a phrase, a link, the marks of a whole stack stay when
  tokens are read or bytes are emitted behind it (`Later`, `UnderKept`); that a patch in the middle of
  emitted code leaves all but its jump as it was (`PatchedSegs`, `AfterPatch`). An operator's operands: `Operand` and
  `Value` carry the two levels of an expression, its lowest operator and its open
  edge, and differ in the token that follows: that no operator of its level can follow a
  value is what ends the loop of `prec`. Where a source ends before the brace of a body, the parser
  takes its end for that brace and then misses the closing one (`parser.c:463-476`): such a stack is
  `Doomed` to fail and needs no marks. `TypeCorrect` is `TypeOK`; the descent's
  proof rests on it.

What these theorems assume of programs (`Mapped`, `Returns`, `Calm`, `Readable`) TLC evaluates for
the programs of the runs: `NativesAssumption` and `ProgramsAssumption` in
`MCNatives`, `LinesAssumption` in `MCSession`; `CodegenProofs` proves them of all programs
composed of `Codegen`'s constructs, the wide forms included. `set` is not among them, its code has
no map: the cell it takes too many is what `test_globalvars` shows. Integers are those of any
width (`IntMax`), doubles anything.

Only model-checked: `RejectsOnlyNonSentences` and `UndefinedOnlyAtBang`, which say of all
sentences that none begins so, and would need induction over the phrases of the smallest language (the
theorem holds of larger ones, too); that the grammar is unambiguous (`Unambiguous`); and what the violating
runs show. `SetCompletes`, `Terminates`, `LexEnds` and
`ParseEnds` are liveness, beyond the proof system's reach, and so are recursive operators. That
`NeverUndefined` also holds of the programs of `vm` that add small integers is TLC's result: for the
theorem an addition may overflow.

## Not modelled

Printing, the disassembler, the texts of errors and line numbers (output); flags. Signals inside
library calls, and what automatic variables hold after `longjmp`, are left out. No
caller have `table_copy`, `array_print`, `String_append`, `String_take_value`, `make_String`,
`make_Stringl`, `make_str`, `str_eq`, `check_next2` and `isneg`. `Parser` leaves `set`, `fun` and locals to `Compiler`,
and constants' indices, too. Outside `Strings` a string is its identity, as interning allows. Doubles
are identities, their operations open. Sizes near 2^31 and exhausted memory are not considered.

## Plan

1. (done) Table with its refinement; machine, code generation, sessions; the
   compiler's names; the proofs above.
2. (done) Strings over the table, with their refinement of interning; the lexer with
   its buffer and the REPL's lines; the descent and the language.
3. (done) Stack maps: `CallBinding`, `FramesNested`, `ReturnRestores` and what is undefined, for
   every program that has them; `SoundUntilStale` for every session; `Compiler`'s invariant.
4. (done) Every construct of `Codegen` has a map if its parts have, `set` excepted.
5. (done) The lexer's invariant, for every session.
6. `Compiler` and `Vm` composed: programs whose operands are the ones the
   compiler computes, function constants included.
7. (done) `Parser`: its type invariant, and that what it emits is the code of the grammar. Left: that
   this code is `Composed`, so that the theorems on maps hold of every accepted
   source; it needs induction over the phrases.
