------------------------------ MODULE MCNatives -----------------------------
(***************************************************************************)
(* The programs of MCVm have stack maps: what VmProofs assumes of          *)
(* programs is true of them.  Those that call the native may read every    *)
(* global; the others do not read its name, and return from every          *)
(* function.                                                               *)
(***************************************************************************)
EXTENDS MCVm, MapSearch

EveryProgram == NativePrograms \cup StrayPrograms

WithoutClock == INSTANCE MapSearch WITH Readable <- MCStrings \ {MCClock}

ASSUME NativesAssumption  == AllMapped(NativePrograms)
ASSUME ProgramsAssumption == WithoutClock!AllReturn(MCPrograms)
=============================================================================
