---------------------------- MODULE SessionProofs ----------------------------
(***************************************************************************)
(* Proofs about Session, for every frame limit and every choice of lines.  *)
(***************************************************************************)
EXTENDS Session, VmProofs

(* Once errors and halted lines have used up the frames, no line of the    *)
(* session is ever executed again (vm.c:86-89, 149-153, error.c:12-21).    *)
THEOREM Exhaustion == SessionSpec => StaysExhausted
<1>1. ASSUME Exhausted, Step  PROVE FALSE
  <2>1. status # "run"  BY <1>1 DEF Exhausted, Rested
  <2>. QED
    BY <1>1, <2>1
       DEF Step, Constant, ConstantBy, BinaryOperator, UnaryOperator, PrintValue,
           PopValue, SetGlobal, LoadGlobal, SetLocal, LoadLocal, Jump, Call,
           ReturnFromScript, Return, Wide, Halt, Overrun, Fetched
<1>2. ASSUME Exhausted, Line  PROVE Exhausted'
  <2>1. PICK fs : InterpretFunction(fs)  BY <1>2 DEF Line
  <2>2. Len(frames) = FrameLimit  BY <1>2 DEF Exhausted
  <2>. QED  BY <2>1, <2>2 DEF InterpretFunction, Exhausted, Rested
<1>3. ASSUME Exhausted, FailedLine \/ UNCHANGED sessionVars  PROVE Exhausted'
  BY <1>3 DEF FailedLine, Exhausted, sessionVars, vars
<1>4. [SessionNext]_sessionVars => (Exhausted => Exhausted')
  BY <1>1, <1>2, <1>3 DEF SessionNext, Execute
<1>. QED  BY <1>4, PTL DEF SessionSpec, StaysExhausted

-----------------------------------------------------------------------------
(* Lines that run their own code only.                                     *)

(* The line that runs is in step with its code above the frames that were  *)
(* there before it; those below it are never touched.                      *)
LineMaps(hs) ==
  InStep(hs, floor) /\ \A f \in FunctionIds : IsCalm(functions, f, hs[f])

SessionInv ==
  stale \/ (/\ TypeOK /\ Grounded
            /\ stack.gen = 0 /\ status # "undefined"
            /\ status = "run" => \E hs : LineMaps(hs))

(* A prompt before the first line.                                         *)
LEMMA SessionStarts == SessionInit => SessionInv
<1>. SUFFICES ASSUME SessionInit  PROVE SessionInv
  OBVIOUS
<1>1. Init  BY DEF SessionInit
<1>2. stack.gen = 0 /\ status = "idle" /\ OneStack
  BY <1>1 DEF Init, NewStack, NewArray, OneStack
<1>3. TypeOK /\ Grounded  BY <1>1, <1>2, MappedInit DEF MappedInv
<1>. QED  BY <1>2, <1>3 DEF SessionInv

(* A line that no failed line has left code to is interpreted as it is.    *)
LEMMA OwnCode ==
  ASSUME Line, leftover = <<>>
  PROVE  \E fs \in Programs : InterpretFunction(fs)
<1>1. PICK fs \in Programs : InterpretFunction([fs EXCEPT ![Script].code = leftover \o @])
  BY DEF Line
<1>2. fs \in [FunctionIds -> FunctionObject] /\ Script \in FunctionIds
  BY VmAssumption
<1>3. fs[Script] \in FunctionObject  BY <1>2
<1>4. <<>> \o fs[Script].code = fs[Script].code
  <2>1. \A S : \A c \in Seq(S) : <<>> \o c = c  OBVIOUS
  <2>2. fs[Script].code \in Seq(0 .. MaxByte)  BY <1>3 DEF FunctionObject
  <2>. QED  BY <2>1, <2>2, Zenon
<1>5. [fs[Script] EXCEPT !.code = fs[Script].code] = fs[Script]
  BY <1>3 DEF FunctionObject
<1>6. [fs EXCEPT ![Script].code = leftover \o @]
        = [fs EXCEPT ![Script] = [fs[Script] EXCEPT !.code = fs[Script].code]]
  BY <1>4
<1>7. [fs EXCEPT ![Script] = fs[Script]] = fs  BY <1>2
<1>8. [fs EXCEPT ![Script].code = leftover \o @] = fs
  BY <1>5, <1>6, <1>7, Zenon
<1>. QED  BY <1>1, <1>8, Zenon

(* A line is interpreted.                                                  *)
LEMMA LineStarts ==
  ASSUME SessionInv, Line, Moves = {FALSE}, \A fs \in Programs : Calm(fs)
  PROVE  SessionInv'
<1>. SUFFICES ASSUME ~stale'  PROVE SessionInv'
  BY DEF SessionInv
<1>1. ~stale /\ leftover = <<>> /\ floor' = Len(frames)  BY DEF Line
<1>2. TypeOK /\ Grounded /\ stack.gen = 0  BY <1>1 DEF SessionInv
<1>3. PICK fs \in Programs : InterpretFunction(fs)  BY <1>1, OwnCode
<1>4. PICK hs : \A f \in FunctionIds : IsMap(fs, f, hs[f]) /\ IsCalm(fs, f, hs[f])
  BY <1>3 DEF Calm
<1>5. PICK low : low = Len(frames)  OBVIOUS
<1>6. /\ Grounded' /\ status' \in {"run", "error"} /\ stack'.gen = stack.gen
      /\ status' = "run" => InStep(hs, low)'
  BY <1>2, <1>3, <1>4, <1>5, InterpretInStep
<1>7. TypeOK'  BY <1>2, <1>3, InterpretKeeps DEF Interpret
<1>8. functions' = fs  BY <1>3 DEF InterpretFunction
<1>9. status' = "run" => LineMaps(hs)'
  <2>1. InStep(hs, floor)' = InStep(hs, low)'
    BY <1>1, <1>5, Zenon DEF InStep, Place, End, Cell
  <2>. QED  BY <1>4, <1>6, <1>8, <2>1 DEF LineMaps
<1>. QED  BY <1>2, <1>6, <1>7, <1>9 DEF SessionInv

(* The line runs.                                                          *)
LEMMA LineRuns ==
  ASSUME SessionInv, Execute, Moves = {FALSE}, Clock \notin Readable
  PROVE  SessionInv'
<1>. SUFFICES ASSUME ~stale'  PROVE SessionInv'
  BY DEF SessionInv
<1>1. Step /\ ~stale /\ Len(frames') \notin 1 .. floor /\ floor' = floor
  BY DEF Execute
<1>2. TypeOK /\ Grounded /\ stack.gen = 0  BY <1>1 DEF SessionInv
<1>3. status = "run"
  BY <1>1 DEF Step, Constant, ConstantBy, BinaryOperator, UnaryOperator, PrintValue,
         PopValue, SetGlobal, LoadGlobal, SetLocal, LoadLocal, Jump, Call,
         ReturnFromScript, Return, Wide, Halt, Overrun, Fetched
<1>4. PICK hs : LineMaps(hs)  BY <1>1, <1>3 DEF SessionInv
<1>5. PICK low : low = floor  OBVIOUS
<1>6. Running(hs, low)  BY <1>2, <1>3, <1>4, <1>5 DEF Running, LineMaps
<1>7. Kept(hs, low)  BY <1>1, <1>6, StepInStep
<1>8. Grounded' /\ stack'.gen = 0  BY <1>2, <1>7 DEF Kept
<1>9. TypeOK'  BY <1>1, <1>2, StepKeeps
<1>10. status' # "undefined"
  <2>1. \A f \in FunctionIds : Returning(functions, f, hs[f]) /\ IsCalm(functions, f, hs[f])
    BY <1>4 DEF LineMaps, IsCalm
  <2>. QED  BY <1>1, <1>2, <1>6, <2>1, OnlyOverflow
<1>11. status' = "run" => LineMaps(hs)'
  <2>. SUFFICES ASSUME status' = "run"  PROVE LineMaps(hs)'
    OBVIOUS
  <2>1. frames' # <<>> /\ frames' \in Seq(FrameType)  BY <1>9 DEF TypeOK
  <2>2. Len(frames') > low
    <3>1. Len(frames') \in Nat \ {0}  BY <2>1
    <3>2. low \in Nat  BY <1>6, RunningTop
    <3>. QED  BY <1>1, <1>5, <3>1, <3>2
  <2>3. InStep(hs, low)'  BY <1>7, <2>2 DEF Kept
  <2>4. InStep(hs, floor)' = InStep(hs, low)'
    BY <1>1, <1>5, Zenon DEF InStep, Place, End, Cell
  <2>5. functions' = functions  BY <1>1, StepCode
  <2>. QED  BY <1>4, <2>3, <2>4, <2>5 DEF LineMaps
<1>. QED  BY <1>8, <1>9, <1>10, <1>11 DEF SessionInv

(* A line fails to compile, or nothing happens.                            *)
LEMMA SessionWaits ==
  ASSUME SessionInv, FailedLine \/ UNCHANGED sessionVars
  PROVE  SessionInv'
<1>1. UNCHANGED vars /\ floor' = floor /\ stale' = stale
  BY DEF FailedLine, sessionVars
<1>2. functions' = functions /\ stack' = stack /\ status' = status
      /\ frames' = frames /\ wide' = wide
  BY <1>1 DEF vars
<1>3. TypeOK' = TypeOK /\ Grounded' = Grounded  BY <1>1, Stutters
<1>4. \A hs : LineMaps(hs)' = LineMaps(hs)
  BY <1>1, <1>2, Zenon DEF LineMaps, InStep, Place, End, Cell
<1>. QED  BY <1>1, <1>2, <1>3, <1>4 DEF SessionInv

(* However many lines end in errors or leave their frame behind, the next  *)
(* line runs with its calls bound, its stack in one piece and nothing      *)
(* undefined, for as long as every line runs its own code only: for every  *)
(* session of lines without natives and arithmetic whose functions return, *)
(* on a stack that does not move (main.c:144-152, vm.c:66-112, 149-199).   *)
THEOREM SessionsSound ==
  ASSUME Moves = {FALSE}, Clock \notin Readable, \A fs \in Programs : Calm(fs)
  PROVE  SessionSpec => []SoundUntilStale
<1>1. SessionInv /\ [SessionNext]_sessionVars => SessionInv'
  BY LineStarts, LineRuns, SessionWaits DEF SessionNext
<1>2. SessionInv => SoundUntilStale
  BY DEF SessionInv, SoundUntilStale, Grounded, NeverUndefined
<1>. QED  BY <1>1, <1>2, SessionStarts, PTL DEF SessionSpec
=============================================================================
