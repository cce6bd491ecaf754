----------------------------- MODULE MapSearch ------------------------------
(***************************************************************************)
(* Finds the map of a function's code, for TLC: from the function's entry, *)
(* place by place.  Whether what it finds is a map is left to IsMap.       *)
(***************************************************************************)
EXTENDS StackMaps, TLC

(* Where the instruction at p may lead, if the frame has n cells there.    *)
Successors(code, p, n) ==
  LET op   == OpAt(code, p[1])
      next == NextAt(code, p)
  IN  CASE op \in {"CONSTANT", "CONSTANT_LONG", "LOADGLOBAL", "LOADLOCAL"} ->
             {<<<<next, FALSE>>, n + 1>>}
        [] op \in BinaryOps \cup {"PRINT", "POP"} -> {<<<<next, FALSE>>, n - 1>>}
        [] op \in {"NEG", "NOT", "SETGLOBAL", "SETLOCAL"} -> {<<<<next, FALSE>>, n>>}
        [] op = "JMP"  -> {<<<<next + DistAt(code, p), FALSE>>, n>>}
        [] op = "NJMP" -> {<<<<next - DistAt(code, p), FALSE>>, n>>}
        [] op = "JMPF" -> {<<<<next + d, FALSE>>, n - 1>> : d \in {0, DistAt(code, p)}}
        [] op = "CALL" -> {<<<<next, FALSE>>, n - ArgAt(code, p)>>}
        [] op = "WIDE" -> {<<<<next, TRUE>>, n>>}
        [] OTHER -> {}

RECURSIVE Explore(_, _, _)
Explore(code, h, todo) ==
  IF todo = {}
  THEN h
  ELSE LET t == CHOOSE t \in todo : TRUE
           left == todo \ {t}
       IN  IF t[1] \in DOMAIN h
           THEN Explore(code, h, left)
           ELSE Explore(code, h @@ (t[1] :> t[2]),
                        left \cup (IF t[1][1] >= Len(code) \/ t[1][1] < 0 THEN {}
                                   ELSE Successors(code, t[1], t[2])))

MapOf(fs, f) ==
  Explore(fs[f].code, <<>>, {<<<<0, FALSE>>, fs[f].argc + 1>>})

(* What is found for every program that is given.                          *)
AllMapped(programs) ==
  \A fs \in programs : \A f \in FunctionIds : IsMap(fs, f, MapOf(fs, f))
AllReturn(programs) ==
  \A fs \in programs : \A f \in FunctionIds :
    IsMap(fs, f, MapOf(fs, f)) /\ Returning(fs, f, MapOf(fs, f))
AllCalm(programs) ==
  \A fs \in programs : \A f \in FunctionIds :
    IsMap(fs, f, MapOf(fs, f)) /\ IsCalm(fs, f, MapOf(fs, f))
=============================================================================
