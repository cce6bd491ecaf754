------------------------------ MODULE MCTable -------------------------------
(* Five keys whose chains collide and wrap in tables of 2, 6 and 14 slots; *)
(* c and d differ, but not in their hash.                                  *)
EXTENDS Table

MCKeys == {"a", "b", "c", "d", "e"}
MCHash == [k \in MCKeys |->
             CASE k = "a" -> 5
               [] k = "b" -> 11
               [] k = "c" -> 13
               [] k = "d" -> 13
               [] k = "e" -> 0]
MCContent == [k \in MCKeys |-> k]
=============================================================================
