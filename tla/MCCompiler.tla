----------------------------- MODULE MCCompiler -----------------------------
(* Names are interchangeable: no definition of Compiler tells them apart.  *)
EXTENDS Compiler, TLC

NameSymmetry == Permutations(Names)
=============================================================================
