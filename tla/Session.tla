------------------------------ MODULE Session -------------------------------
(***************************************************************************)
(* A REPL session (repl_cycle in main.c): one line after another is        *)
(* compiled and interpreted, always with the same script function, stack,  *)
(* frames and globals.  Errors leave all of them as they are (longjmp):    *)
(* also the code a line has emitted before a syntax error stays in the     *)
(* script's chunk, where the next line's code follows it; only parse()     *)
(* itself clears the chunk when a line has compiled.                       *)
(***************************************************************************)
EXTENDS Vm

CONSTANTS
  FailedCode,   \* what a line may have emitted when a syntax error ends it
  LeftoverSize  \* bound: no line fails when this many bytes are left over

VARIABLES
  leftover, \* the code of failed lines in the script's chunk
  floor,    \* history: the frames that were there before the line began
  stale     \* history: code that was not compiled for the line has run

sessionVars == <<vars, leftover, floor, stale>>

SessionInit == Init /\ leftover = <<>> /\ floor = 0 /\ stale = FALSE

(* A line compiles and is interpreted. *)
Line ==
  /\ \E fs \in Programs :
       InterpretFunction([fs EXCEPT ![Script].code = leftover \o @])
  /\ leftover' = <<>>
  /\ floor' = Len(frames)
  /\ stale' = (stale \/ leftover # <<>>)

(* A line has a syntax error. *)
FailedLine ==
  /\ MayInterpret
  /\ Len(leftover) < LeftoverSize
  /\ \E code \in FailedCode : leftover' = leftover \o code
  /\ UNCHANGED <<vars, floor, stale>>

Execute ==
  /\ Step
  /\ stale' = (stale \/ Len(frames') \in 1 .. floor)
  /\ UNCHANGED <<leftover, floor>>

SessionNext == Line \/ FailedLine \/ Execute

SessionSpec == SessionInit /\ [][SessionNext]_sessionVars

-----------------------------------------------------------------------------
(* However many lines end in errors or leave their frame behind, the next  *)
(* line runs with its calls bound and its stack in one piece -- as long as *)
(* every line runs its own code only.  There are two ways to run other     *)
(* code: a `return` outside functions resumes the frame of an earlier line *)
(* (vm.c:149-153, 180-199), and what a line with a syntax error has        *)
(* emitted runs before the next line (parser.c:916-952, main.c:144-152).   *)
SoundUntilStale ==
  stale \/ (CallBinding /\ FramesNested /\ OneStack /\ NeverUndefined)

(* A session in which errors and halted lines have used up the frames is   *)
(* over, although the prompt comes back: no later line is executed again   *)
(* (vm.c:86-89, 149-153, error.c:12-21).                                   *)
Exhausted == status \in Rested /\ Len(frames) = FrameLimit
StaysExhausted == [][Exhausted => Exhausted']_sessionVars
=============================================================================
