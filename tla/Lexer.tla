------------------------------- MODULE Lexer --------------------------------
(***************************************************************************)
(* lexer.c with the character buffer of string.c, and where its characters *)
(* come from: the line array of the REPL, or the block of a file (main.c). *)
(* The array keeps what earlier, longer lines left behind the terminator   *)
(* of a shorter one.  The parser is external here: after each token it     *)
(* asks for the next, reports an error, or ends at EOF.                    *)
(*                                                                         *)
(* A byte is named by what lex distinguishes.  "EOF" is the byte 255, which*)
(* a signed char cannot tell from EOF, "HIGH" any other byte from 128 on.  *)
(* "UNSET" is what reading outside an array, or a byte never written,      *)
(* yields; the session is undefined from then on.  Line numbers, used for  *)
(* display only, are left out; so are signals inside library calls, and    *)
(* what calls other than strtoll, strtod, pow and fmod do to errno.        *)
(***************************************************************************)
EXTENDS Integers, Sequences, SequencesExt

CONSTANTS
  Letters,       \* the characters of isalpha
  DigitValue,    \* the characters of isdigit, with their values
  Others,        \* further characters that lines may consist of
  Typed,         \* [1 .. n -> sets of lines]: what may be typed as each line
  Files,         \* what a file may hold
  BUFFER_SIZE,   \* of the line array
  CAP_INITIAL,   \* of a String
  HAW_INT_MAX,
  LLONG_MAX,
  OutOfRange     \* the literals that strtod cannot represent

Digits == DOMAIN DigitValue
Chars  == Letters \cup Digits \cup Others \cup {"NL"}
Source == Chars \cup {"NUL", "UNSET"}

(* What read_escape makes of a letter; r stands for a line feed, too. *)
Escapes == {<<"a", "BEL">>, <<"b", "BS">>, <<"f", "FF">>, <<"e", "ESC">>,
            <<"r", "NL">>, <<"n", "NL">>, <<"t", "TAB">>, <<"v", "VT">>}
Stored  == Source \cup {e[2] : e \in Escapes}

ASSUME LexerAssumption ==
  /\ DigitValue \in [Digits -> 0 .. 9]
  /\ Typed \in Seq(SUBSET Seq(Chars \ {"NL"}))
  /\ Files \subseteq Seq(Chars)
  /\ BUFFER_SIZE \in Nat /\ BUFFER_SIZE >= 2
  /\ CAP_INITIAL \in Nat /\ CAP_INITIAL >= 2
  /\ HAW_INT_MAX \in Nat /\ LLONG_MAX \in Nat /\ HAW_INT_MAX <= LLONG_MAX

VARIABLES
  repl,      \* reading lines, or one file
  status,    \* starting, prompt, parsing, exited or undefined
  buffer,    \* the source array, by index from 0
  rest,      \* what fgets left of the line being typed
  ended,     \* the last line typed had no newline
  opened,    \* lex_init has been called
  ls,        \* LexState: pos, current, the buffer's text and capacity
  at,        \* where lex stands; "between" calls the parser is at work
  semi,      \* the SemInfo that all tokens of a line share
  erange,    \* errno = ERANGE; lex never resets it
  token,     \* the last token
  chunks     \* what has been read so far, one entry per call of fgets

input == <<repl, buffer, rest, ended, opened, chunks>>
vars  == <<input, status, ls, at, semi, erange, token>>

-----------------------------------------------------------------------------
(* The lexer's state and its small steps. *)

ReadByte(b, i) == IF i \in DOMAIN b THEN b[i] ELSE "UNSET"

(* advance: not past the byte 255, but past a terminator. *)
AdvanceIn(b, s) ==
  LET c == ReadByte(b, s.pos)
  IN  [s EXCEPT !.current = c, !.pos = IF c = "EOF" THEN @ ELSE @ + 1]
Advance(s) == AdvanceIn(buffer, s)

(* Mutant: no room is kept for the terminator. *)
SaveTight(s, c) ==
  [s EXCEPT !.text = Append(@, c),
            !.cap  = IF Len(s.text) >= @ THEN 2 * @ ELSE @]

(* String_appendc keeps room for the terminator it writes. *)
Save(s, c) ==
  [s EXCEPT !.text = Append(@, c),
            !.cap  = IF Len(s.text) + 1 >= @ THEN 2 * @ ELSE @]

SaveAndNext(s) == Advance(Save(s, s.current))

Escaped(c) ==
  IF \E e \in Escapes : e[1] = c THEN (CHOOSE e \in Escapes : e[1] = c)[2]
                                 ELSE c

(* read_escape, at the backslash: any other character stands for itself. *)
Escape(s) ==
  LET t == Advance(s)
  IN  IF t.current = "EOF" THEN t ELSE Save(Advance(t), Escaped(t.current))

(* String_init, behind the first advance of lex_init. *)
LexInit(b) ==
  AdvanceIn(b, [pos |-> 0, current |-> "UNSET", text |-> <<>>, cap |-> CAP_INITIAL])

(* Mutant: the text of the last token stays. *)
NotCleared(s) == s

(* String_clear keeps the capacity. *)
Cleared(s) == [s EXCEPT !.text = <<>>]

-----------------------------------------------------------------------------
(* Classes of characters and words. *)

EndMarks  == {"EOF", "NUL"}
NewLines  == {"NL", "CR"}
Blanks    == NewLines \cup {" ", "TAB", "FF", "VT"}
NameStart == Letters \cup {"_"}
NamePart  == NameStart \cup Digits
Quote     == "\""
Backslash == "\\"

(* The symbols of two characters. *)
Pairs == {<<"+", "+", "INC">>, <<"-", "-", "DEC">>, <<"&", "&", "AND">>,
          <<"|", "|", "OR">>, <<">", "=", "GE">>, <<"/", "/", "IDIV">>,
          <<"!", "=", "NOTEQ">>, <<"=", "=", "EQ">>, <<"=", ">", "FATARROW">>,
          <<"<", "=", "LE">>, <<"<", ">", "CONCAT">>}

Keywords == {<<"AND", <<"a","n","d">>>>, <<"BIND", <<"b","i","n","d">>>>,
  <<"ELSE", <<"e","l","s","e">>>>, <<"FOR", <<"f","o","r">>>>,
  <<"BOOL", <<"f","a","l","s","e">>>>, <<"FUN", <<"f","u","n">>>>,
  <<"INT", <<"i","n","t">>>>, <<"OR", <<"o","r">>>>,
  <<"RETURN", <<"r","e","t","u","r","n">>>>, <<"VOID", <<"v","o","i","d">>>>,
  <<"WHILE", <<"w","h","i","l","e">>>>, <<"BOOL", <<"t","r","u","e">>>>,
  <<"SET", <<"s","e","t">>>>, <<"PRINT", <<"p","r","i","n","t">>>>}

(* Mutant: no keyword is no token. *)
ReservedOrNone(word) ==
  IF \E k \in Keywords : k[2] = word THEN (CHOOSE k \in Keywords : k[2] = word)[1]
                                     ELSE "none"

(* The classes of ctype.h do not overlap, and no byte is a token's name. *)
Punctuation == Blanks \cup {"EOF", "_", ".", Quote, Backslash, "'"}
                      \cup {p[1] : p \in Pairs}
ASSUME CharactersAssumption ==
  /\ Letters \cap Digits = {}
  /\ (Letters \cup Digits) \cap Punctuation = {}
  /\ Chars \cap {"NUL", "UNSET"} = {}
  /\ Chars \cap ({"NAME", "IF", "STRING", "CHAR", "NUMBER"} \cup {k[1] : k \in Keywords}) = {}

(* is_reserved: every name that begins with "if" is the keyword. *)
Reserved(word) ==
  CASE Len(word) >= 2 /\ SubSeq(word, 1, 2) = <<"i", "f">> -> "IF"
    [] \E k \in Keywords : k[2] = word -> (CHOOSE k \in Keywords : k[2] = word)[1]
    [] OTHER -> "NAME"

Magnitude(digits) ==
  LET value[n \in 0 .. Len(digits)] ==
        IF n = 0 THEN 0 ELSE 10 * value[n - 1] + DigitValue[digits[n]]
  IN  value[Len(digits)]

Dots(text) == {i \in DOMAIN text : text[i] = "."}

(* strtoll fails on an integer that is too long, strtod, called for what   *)
(* is no integer, on a literal too large or too small for a double.        *)
TooLong(text)    == Dots(text) = {} /\ Magnitude(text) > LLONG_MAX
SetsErange(text) == TooLong(text) \/ text \in OutOfRange

ASSUME RangeAssumption ==
  /\ OutOfRange \subseteq Seq(Digits \cup {"."})
  /\ \A text \in OutOfRange : Dots(text) = {} => TooLong(text)

(* Mutant: the limit itself is taken for too large. *)
IntegerBelow(text, err) == Dots(text) = {} /\ ~err /\ Magnitude(text) < HAW_INT_MAX

(* str_2num: an integer that fits, unless errno still says ERANGE. *)
IsInteger(text, err) == Dots(text) = {} /\ ~err /\ Magnitude(text) <= HAW_INT_MAX

(* The SemInfo written for a word. *)
StrValue(text) == [kind |-> "str", text |-> text, int |-> 0]
IntValue(n)    == [kind |-> "int", text |-> <<>>, int |-> n]
NumValue(text) == [kind |-> "num", text |-> text, int |-> 0]
NoSemInfo      == [kind |-> "unset", text |-> <<>>, int |-> 0]

(* Mutant: false leaves the union as it was. *)
WordValueTrueOnly(word, old) ==
  CASE Reserved(word) = "NAME" -> StrValue(word)
    [] Reserved(word) = "BOOL" /\ word[1] = "t" -> IntValue(1)
    [] OTHER -> old

WordValue(word, old) ==
  CASE Reserved(word) = "NAME" -> StrValue(word)
    [] Reserved(word) = "BOOL" -> IntValue(IF word[1] = "t" THEN 1 ELSE 0)
    [] OTHER -> old

-----------------------------------------------------------------------------
(* lex. *)

Running(place) == status = "parsing" /\ at = place

(* A step of lex to the state s; reading what is not there is undefined. *)
Goto(place, s) ==
  /\ ls' = s
  /\ IF s.current = "UNSET" THEN status' = "undefined" /\ UNCHANGED at
                            ELSE at' = place /\ UNCHANGED status

Stay(place, s) == Goto(place, s) /\ UNCHANGED <<input, semi, erange, token>>

(* lex returns a token with a copy of the shared SemInfo. *)
Return(type, value, s) ==
  /\ Goto("between", s)
  /\ semi' = value
  /\ token' = [type |-> type, value |-> value]
  /\ UNCHANGED input

(* An error ends a script, in a REPL longjmp leads to the prompt. *)
LeaveWith(err) ==
  /\ status' = IF repl THEN "prompt" ELSE "exited"
  /\ at' = "between"
  /\ erange' = err
  /\ UNCHANGED <<input, ls, semi, token>>
Leave == LeaveWith(erange)

Lex ==
  /\ Running("between")
  /\ Stay("start", Cleared(ls))

End ==
  /\ Running("start")
  /\ ls.current \in EndMarks
  /\ Return("EOF", semi, ls)
  /\ UNCHANGED erange

Blank ==
  /\ Running("start")
  /\ ls.current \in Blanks
  /\ Stay("start", Advance(ls))

(* Two backslashes begin a comment. *)
BeginComment ==
  /\ Running("start")
  /\ ls.current = Backslash
  /\ LET s == Advance(ls) IN
       IF s.current = Backslash
       THEN Stay("comment", Advance(s))
       ELSE Return(Backslash, semi, s) /\ UNCHANGED erange

(* Mutants: the comment's loop knows no EOF; it goes on in the next line. *)
CommentWithoutEOF ==
  /\ Running("comment")
  /\ IF ls.current \in NewLines THEN Stay("start", ls)
                                ELSE Stay("comment", Advance(ls))
CommentPastNewLine ==
  /\ Running("comment")
  /\ IF ls.current = "EOF" THEN Stay("start", ls)
                           ELSE Stay("comment", Advance(ls))

(* It ends at a newline or EOF; a terminator does not end it. *)
Comment ==
  /\ Running("comment")
  /\ IF ls.current \in NewLines \cup {"EOF"}
     THEN Stay("start", ls)
     ELSE Stay("comment", Advance(ls))

BeginString ==
  /\ Running("start")
  /\ ls.current = Quote
  /\ Stay("string", Advance(ls))

(* Mutant: a string may span lines. *)
StringPastNewLine ==
  /\ Running("string")
  /\ \/ /\ ls.current = "EOF"
        /\ Leave
     \/ /\ ls.current = Backslash
        /\ Stay("string", Escape(ls))
     \/ /\ ls.current = Quote
        /\ Return("STRING", StrValue(ls.text), Advance(ls))
        /\ UNCHANGED erange
     \/ /\ ls.current \notin {"EOF", Backslash, Quote}
        /\ Stay("string", SaveAndNext(ls))

InString ==
  /\ Running("string")
  /\ \/ /\ ls.current \in NewLines \cup {"EOF"}
        /\ Leave
     \/ /\ ls.current = Backslash
        /\ Stay("string", Escape(ls))
     \/ /\ ls.current = Quote
        /\ Return("STRING", StrValue(ls.text), Advance(ls))
        /\ UNCHANGED erange
     \/ /\ ls.current \notin NewLines \cup {"EOF", Backslash, Quote}
        /\ Stay("string", SaveAndNext(ls))

(* A character between apostrophes: not empty, escaped or as it is. *)
CharLiteral ==
  /\ Running("start")
  /\ ls.current = "'"
  /\ LET s == Advance(ls)
         t == IF s.current = Backslash THEN Escape(s) ELSE SaveAndNext(s)
     IN  IF s.current = "UNSET" THEN Stay("start", s)
         ELSE IF s.current = "'" THEN Leave
         ELSE IF t.current = "UNSET" THEN Stay("start", t)
         ELSE IF t.current = "'" THEN /\ Return("CHAR", StrValue(t.text), Advance(t))
                                      /\ UNCHANGED erange
         ELSE Leave

BeginNumeral ==
  /\ Running("start")
  /\ ls.current \in Digits
  /\ Stay("numeral", SaveAndNext(ls))

(* read_numeral, str_2num *)
Numeral ==
  /\ Running("numeral")
  /\ \/ /\ ls.current \in Digits \cup {"."}
        /\ Stay("numeral", SaveAndNext(ls))
     \/ /\ ls.current \notin Digits \cup {"."}
        /\ ls.current \in Letters \/ \E i, j \in Dots(ls.text) : i # j
        /\ Leave
     \/ /\ ls.current \notin Digits \cup Letters \cup {"."}
        /\ \A i, j \in Dots(ls.text) : i = j
        /\ erange' = (erange \/ SetsErange(ls.text))
        /\ IF IsInteger(ls.text, erange')
           THEN Return("INT", IntValue(Magnitude(ls.text)), ls)
           ELSE Return("NUMBER", NumValue(ls.text), ls)

BeginName ==
  /\ Running("start")
  /\ ls.current \in NameStart
  /\ Stay("name", SaveAndNext(ls))

Name ==
  /\ Running("name")
  /\ IF ls.current \in NamePart
     THEN Stay("name", SaveAndNext(ls))
     ELSE /\ Return(Reserved(ls.text), WordValue(ls.text, semi), ls)
          /\ UNCHANGED erange

(* A symbol of two characters, or any other byte as its own token. *)
Symbol ==
  /\ Running("start")
  /\ ls.current \notin EndMarks \cup Blanks \cup NamePart \cup {Backslash, Quote, "'"}
  /\ LET s      == Advance(ls)
         double == {p \in Pairs : p[1] = ls.current /\ p[2] = s.current}
     IN  IF double # {}
         THEN Return((CHOOSE p \in double : TRUE)[3], semi, Advance(s))
         ELSE Return(ls.current, semi, s)
  /\ UNCHANGED erange

LexStep == \/ End \/ Blank \/ BeginComment \/ Comment \/ BeginString \/ InString
           \/ CharLiteral \/ BeginNumeral \/ Numeral \/ BeginName \/ Name \/ Symbol

-----------------------------------------------------------------------------
(* The parser, as far as the lexer sees it. *)

(* Any token may be a syntax error, EOF may end the source. *)
EndParse == Running("between") /\ Leave

Holds(c, char) == \E i \in DOMAIN c : c[i] = char

(* A source that has been parsed is run, and with it functions of earlier  *)
(* lines: pow (operator ^) may leave ERANGE in errno, fmod (%) EDOM.       *)
Interpret ==
  /\ Running("between")
  /\ token.type = "EOF"
  /\ \/ (\E n \in DOMAIN chunks : Holds(chunks[n], "^")) /\ LeaveWith(TRUE)
     \/ (\E n \in DOMAIN chunks : Holds(chunks[n], "%")) /\ LeaveWith(FALSE)

(* A byte from 128 on is a negative token type, an index before rules[0]. *)
IndexRules ==
  /\ Running("between")
  /\ token.type = "HIGH"
  /\ status' = "undefined"
  /\ UNCHANGED <<input, ls, at, semi, erange, token>>

-----------------------------------------------------------------------------
(* main.c *)

(* The one line that is not parsed; "clear" stands for its letters. *)
ClearScreen == <<":", "clear", "NL">>

(* What fgets makes of the array. *)
Filled(chunk) ==
  [i \in 0 .. BUFFER_SIZE - 1 |->
     IF i < Len(chunk) THEN chunk[i + 1]
     ELSE IF i = Len(chunk) THEN "NUL"
     ELSE buffer[i]]

(* parse: lex_init with a SemInfo on the stack, then the first token. *)
Parse(source) ==
  /\ opened' = TRUE
  /\ semi' = NoSemInfo
  /\ token' = [type |-> "UNSET", value |-> NoSemInfo]
  /\ ls' = LexInit(source)
  /\ at' = "start"
  /\ status' = IF ls'.current = "UNSET" THEN "undefined" ELSE "parsing"

Smaller(m, n) == IF m < n THEN m ELSE n

(* fgets reads at most one byte less than the array holds. *)
Chunk(text) == SubSeq(text, 1, Smaller(Len(text), BUFFER_SIZE - 1))

(* A prompt takes a line, or what is left of an over-long one. *)
ReadChunk(text) ==
  LET chunk == Chunk(text) IN
    /\ buffer' = Filled(chunk)
    /\ rest' = SubSeq(text, Len(chunk) + 1, Len(text))
    /\ chunks' = Append(chunks, chunk)
    /\ IF chunk = ClearScreen
       THEN UNCHANGED <<status, opened, ls, at, semi, token>>
       ELSE Parse(buffer')
    /\ UNCHANGED <<repl, erange>>

NextLine == Len(SelectSeq(chunks, LAMBDA c : Last(c) = "NL")) + 1

ReadLine ==
  /\ status = "prompt" /\ rest = <<>> /\ ~ended
  /\ NextLine \in DOMAIN Typed
  /\ \E line \in Typed[NextLine] :
       \/ ReadChunk(Append(line, "NL")) /\ UNCHANGED ended
       \/ line # <<>> /\ ReadChunk(line) /\ ended' = TRUE

ReadRest ==
  /\ status = "prompt" /\ rest # <<>>
  /\ ReadChunk(rest)
  /\ UNCHANGED ended

(* lex_destroy frees the text's block, or whatever an uninitialised        *)
(* LexState points to.                                                     *)
Quit ==
  /\ status' = IF opened THEN "exited" ELSE "undefined"
  /\ at' = "between"
  /\ UNCHANGED <<input, ls, semi, erange, token>>

EndOfInput == status = "prompt" /\ rest = <<>> /\ Quit

StartRepl ==
  /\ repl /\ status = "starting"
  /\ status' = "prompt"
  /\ UNCHANGED <<input, ls, at, semi, erange, token>>

(* stop_repl, installed before the first setjmp: a jump to nowhere, or out *)
(* of whatever the REPL is doing.                                          *)
Interrupt ==
  /\ repl /\ status \in {"starting", "prompt", "parsing"}
  /\ Quit

(* readfile: the byte behind the text is never written; the terminator is  *)
(* stored behind the block instead, which is undefined and may go well.    *)
RunFile ==
  /\ ~repl /\ status = "starting"
  /\ \E text \in Files :
       /\ buffer' = [i \in 0 .. Len(text) |-> IF i < Len(text) THEN text[i + 1] ELSE "UNSET"]
       /\ chunks' = <<text>>
       /\ \/ status' = "undefined" /\ UNCHANGED <<opened, ls, at, semi, token>>
          \/ Parse(buffer')
  /\ UNCHANGED <<repl, rest, ended, erange>>

Init ==
  /\ repl \in BOOLEAN
  /\ status = "starting"
  /\ buffer = [i \in 0 .. BUFFER_SIZE - 1 |-> "UNSET"]
  /\ rest = <<>> /\ ended = FALSE /\ opened = FALSE /\ chunks = <<>>
  /\ ls = [pos |-> 0, current |-> "UNSET", text |-> <<>>, cap |-> CAP_INITIAL]
  /\ at = "between"
  /\ semi = NoSemInfo
  /\ erange = FALSE
  /\ token = [type |-> "UNSET", value |-> NoSemInfo]

Next ==
  \/ Lex \/ LexStep
  \/ EndParse \/ Interpret \/ IndexRules
  \/ StartRepl \/ ReadLine \/ ReadRest \/ EndOfInput \/ Interrupt
  \/ RunFile

(* lex runs on until it returns: the program is sequential. *)
Spec == Init /\ [][Next]_vars /\ WF_vars(LexStep)

-----------------------------------------------------------------------------
(* Properties. *)

SemInfos == [kind : {"str", "int", "num", "unset"}, text : Seq(Stored), int : Nat]

TokenTypes == Source \cup {"EOF", "NAME", "IF", "STRING", "CHAR", "NUMBER"}
                     \cup {k[1] : k \in Keywords} \cup {p[3] : p \in Pairs}

TypeOK ==
  /\ repl \in BOOLEAN /\ ended \in BOOLEAN /\ opened \in BOOLEAN
  /\ status \in {"starting", "prompt", "parsing", "exited", "undefined"}
  /\ DOMAIN buffer \subseteq Nat /\ buffer \in [DOMAIN buffer -> Source]
  /\ rest \in Seq(Chars)
  /\ ls \in [pos : Nat, current : Source, text : Seq(Stored), cap : Nat]
  /\ at \in {"between", "start", "comment", "string", "name", "numeral"}
  /\ semi \in SemInfos
  /\ erange \in BOOLEAN
  /\ token \in [type : TokenTypes, value : SemInfos]
  /\ chunks \in Seq(Seq(Chars))

(* The characters saved and their terminator fit into the block, whatever  *)
(* its first size and however it grew (string.c:111-131, 142-149).         *)
BufferFits == Len(ls.text) + 1 <= ls.cap

Delivered == Running("between") /\ token.type # "UNSET"

(* The index of the current character: one behind, except at byte 255.     *)
Here == IF ls.current = "EOF" THEN ls.pos ELSE ls.pos - 1

Slice(i, j) == [k \in 1 .. j - i |-> buffer[i + k - 1]]

(* What a stretch of source means between quotes. *)
Decode(d, c) ==
  IF d.esc THEN [esc |-> FALSE, out |-> Append(d.out, Escaped(c))]
  ELSE IF c = Backslash THEN [esc |-> TRUE, out |-> d.out]
  ELSE [esc |-> FALSE, out |-> Append(d.out, c)]

Decoded(source) ==
  LET sofar[n \in 0 .. Len(source)] ==
        IF n = 0 THEN [esc |-> FALSE, out |-> <<>>]
                 ELSE Decode(sofar[n - 1], source[n])
  IN  sofar[Len(source)]

(* The text of a token is what stands before the lexer's position: of a    *)
(* name or numeral the longest run of its characters, nothing of an        *)
(* earlier token; of a string or character the decoded stretch between its *)
(* marks (lexer.c:326-353, 355-363, 404, 497-522, 539-547).                *)
TextIsLexeme ==
  Delivered =>
    LET word  == ls.text
        start == Here - Len(word)
    IN  CASE token.type \in {"STRING", "CHAR"} ->
               \E i \in 0 .. Here - 2 :
                 /\ buffer[i] = (IF token.type = "CHAR" THEN "'" ELSE Quote)
                 /\ buffer[Here - 1] = buffer[i]
                 /\ Decoded(Slice(i + 1, Here - 1)) = [esc |-> FALSE, out |-> word]
                 /\ token.type = "CHAR" => Len(word) = 1
          [] token.type \notin {"STRING", "CHAR"} /\ word # <<>> ->
               /\ word = Slice(start, Here)
               /\ ls.current \notin (IF word[1] \in Digits THEN Digits \cup Letters
                                                           ELSE NamePart)
               /\ start > 0 => buffer[start - 1] \notin NameStart
          [] OTHER -> TRUE

(* A token's value is its own, although all tokens of a line write the     *)
(* same union and a token without value copies what the last one left      *)
(* (lexer.c:104, 144, 181, 351, 375-380, 520, 562).  Except the word "int",*)
(* taken for an integer literal whose value nobody writes (lexer.c:121).   *)
OwnValue ==
  Delivered =>
    LET v == token.value IN
      CASE token.type \in {"NAME", "STRING", "CHAR"} -> v = StrValue(ls.text)
        [] token.type = "BOOL"   -> v = IntValue(IF Len(ls.text) = 4 THEN 1 ELSE 0)
        [] token.type = "NUMBER" -> v = NumValue(ls.text)
        [] token.type = "INT"    -> \/ ls.text = <<"i", "n", "t">>
                                    \/ v = IntValue(Magnitude(ls.text))
        [] OTHER -> TRUE

(* A literal that strtoll or strtod has to report stands in c.             *)
Overlong(c) ==
  \E i, j \in DOMAIN c : /\ i <= j /\ \A k \in i .. j : c[k] \in Digits \cup {"."}
                         /\ SetsErange(SubSeq(c, i, j))

(* A numeral is an integer exactly if it has no dot and fits, unless errno *)
(* has been left at ERANGE: by a literal of this line or an earlier one    *)
(* that is too long for strtoll or too large or small for strtod, or by an *)
(* earlier line with the operator ^.  Integers are then numbers.           *)
(* (lexer.c:239-266, vm.c:434; no call resets errno.)                      *)
KindByMagnitude ==
  Delivered /\ ls.text # <<>> /\ ls.text[1] \in Digits /\ token.type \in {"INT", "NUMBER"} =>
    \/ token.type = "INT" <=> Dots(ls.text) = {} /\ Magnitude(ls.text) <= HAW_INT_MAX
    \/ /\ token.type = "NUMBER"
       /\ \E n \in DOMAIN chunks :
            Overlong(chunks[n]) \/ (Holds(chunks[n], "^") /\ n < Len(chunks))

(* The REPL's lines in which lex may pass the terminator: a comment, string*)
(* or character runs to the end of an unfinished line; a string escapes    *)
(* the newline.                                                            *)
MayRunOn(c) ==
  \/ /\ \E i \in DOMAIN c : c[i] \in {Backslash, Quote, "'"}
     /\ c[Len(c)] # "NL"
  \/ \E i, j \in DOMAIN c : /\ i < j /\ j < Len(c)
                            /\ c[i] = Quote /\ c[j] = Backslash /\ c[j + 1] = "NL"

(* In every other line nothing behind the terminator is read: neither what *)
(* an earlier line left in the array nor what lies behind it               *)
(* (lexer.c:38-48, 326-353, 416-418, 451-460, 497-518).                    *)
StaysInLine ==
  status = "parsing" /\ chunks # <<>> =>
    ls.pos <= Len(Last(chunks)) + 1 \/ (repl /\ MayRunOn(Last(chunks)))

(* A REPL session's state is undefined only if it ended before a line was  *)
(* parsed (lex_destroy of an unset LexState, a jump before setjmp), in a   *)
(* line that runs on, or at a byte from 128 on; that of a file by the store*)
(* behind the block, before anything is parsed, at a byte from 128 on, or  *)
(* by reading the byte behind the text, which nobody wrote: no file is     *)
(* read to its end otherwise (main.c:67-80, 117-121, 173; lexer.c:552-555).*)
UndefinedExplained ==
  status = "undefined" =>
    \/ /\ repl
       /\ \/ \A n \in DOMAIN chunks : chunks[n] = ClearScreen
          \/ MayRunOn(Last(chunks))
    \/ ~repl /\ (~opened \/ ls.pos > Len(Last(chunks)))
    \/ Holds(Last(chunks), "HIGH")

-----------------------------------------------------------------------------
(* Why the properties hold: an inductive invariant. *)

(* The array holds the line that is parsed, the lexer stands in it.        *)
Line == Last(chunks)

SourceHeld ==
  /\ status = "starting" => chunks = <<>> /\ ~erange /\ ~opened
  /\ status = "prompt" => repl
  /\ repl => DOMAIN buffer = 0 .. BUFFER_SIZE - 1
  /\ repl /\ ~opened => \A n \in DOMAIN chunks : chunks[n] = ClearScreen
  /\ status = "parsing" =>
       /\ opened /\ chunks # <<>>
       /\ Len(Line) \in DOMAIN buffer
       /\ \A i \in 0 .. Len(Line) - 1 : i \in DOMAIN buffer /\ buffer[i] = Line[i + 1]
       /\ repl => buffer[Len(Line)] = "NUL"
       /\ ~repl => DOMAIN buffer = 0 .. Len(Line) /\ buffer[Len(Line)] = "UNSET"

Standing ==
  status = "parsing" =>
    Here \in DOMAIN buffer /\ ls.current = buffer[Here] /\ ls.current # "UNSET"

(* What has been saved, by the place in lex.                               *)
Saved ==
  status = "parsing" =>
    /\ at \in {"start", "comment"} => ls.text = <<>>
    /\ at = "name" => /\ ls.text \in Seq(NamePart) /\ ls.text # <<>>
                      /\ ls.text[1] \in NameStart
    /\ at = "numeral" => /\ ls.text \in Seq(Digits \cup {"."}) /\ ls.text # <<>>
                         /\ ls.text[1] \in Digits

(* Names and numerals are saved from where they begin, and a name begins   *)
(* where no other ends.                                                    *)
Begun ==
  status = "parsing" =>
    /\ at \in {"start", "between"} /\ ls.current \in NamePart /\ Here > 0 =>
         buffer[Here - 1] \notin NameStart
    /\ at \in {"name", "numeral"} =>
         LET start == Here - Len(ls.text)
         IN  /\ start >= 0
             /\ ls.text = Slice(start, Here)
             /\ start > 0 => buffer[start - 1] \notin NameStart
    /\ at = "string" /\ ls.current # "EOF" =>
         \E i \in 0 .. Here - 1 :
           /\ buffer[i] = Quote
           /\ Decoded(Slice(i + 1, Here)) = [esc |-> FALSE, out |-> ls.text]

(* Digits and dots in a row in the REPL's array were read in a row, once.  *)
RunsRead ==
  repl =>
    \A i, j \in DOMAIN buffer :
      i <= j /\ (\A k \in i .. j : buffer[k] \in Digits \cup {"."}) =>
        \E n \in DOMAIN chunks : \E a \in DOMAIN chunks[n] :
          /\ a + (j - i) <= Len(chunks[n])
          /\ \A k \in 0 .. j - i : chunks[n][a + k] = buffer[i + k]

(* errno is set by a literal that was read, or by a line that was run.     *)
ErangeExplained ==
  erange =>
    \E n \in DOMAIN chunks :
      \/ Overlong(chunks[n])
      \/ Holds(chunks[n], "^") /\ (status = "parsing" => n < Len(chunks))

(* A line of the REPL that does not run on.                                *)
Bounded == repl /\ ~MayRunOn(Line)

WithinLine ==
  status = "parsing" =>
    /\ Bounded =>
         /\ Here <= Len(Line)
         /\ at \in {"comment", "string"} => Here < Len(Line) /\ Line[Len(Line)] = "NL"
         /\ at = "string" => \E i \in 1 .. Here : Line[i] = Quote
    /\ token.type = "HIGH" /\ (Bounded \/ ~repl) => Holds(Line, "HIGH")

LInv == /\ TypeOK /\ BufferFits /\ OwnValue /\ TextIsLexeme /\ KindByMagnitude
        /\ UndefinedExplained /\ SourceHeld /\ Standing /\ Saved /\ Begun
        /\ RunsRead /\ ErangeExplained /\ WithinLine

-----------------------------------------------------------------------------
(* Every call of lex returns a token, raises an error, or becomes          *)
(* undefined; no loop of it goes round for ever, not at the byte 255       *)
(* behind which advance does not move.                                     *)
LexEnds == (at # "between") ~> (at = "between" \/ status = "undefined")
=============================================================================
