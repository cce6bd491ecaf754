----------------------------- MODULE AbstractMap -----------------------------
(***************************************************************************)
(* What a hash table promises its callers: a finite map that Set updates   *)
(* at one key and Get reads, while Search answers a key by its content.  A *)
(* Set is called first and takes effect later; no other call begins in     *)
(* between, and it cannot end without having taken effect.  Nothing here   *)
(* knows of slots, probing, growth or capacity.                            *)
(***************************************************************************)
CONSTANTS
  Keys,      \* the interned strings used as keys
  Content,   \* what each key consists of
  Vals,      \* the values stored under them
  Missing    \* what a lookup of an absent key answers

VARIABLES
  map,       \* the value stored under each key, or Missing
  call,      \* key and value of the Set under way
  got        \* the last lookup: how, for which key, and its answer

vars == <<map, call, got>>

NoCall == <<Missing, Missing>>

TypeOK ==
  /\ map \in [Keys -> Vals \cup {Missing}]
  /\ call \in (Keys \X Vals) \cup {NoCall}
  /\ got \in {Missing} \cup ({"get"} \X Keys \X (Vals \cup {Missing}))
                      \cup ({"find"} \X Keys \X (Keys \cup {Missing}))

Init ==
  /\ map = [k \in Keys |-> Missing]
  /\ call = NoCall
  /\ got = Missing

Get(k) ==
  /\ call = NoCall
  /\ got' = <<"get", k, map[k]>>
  /\ UNCHANGED <<map, call>>

(* A key present with the content of k. *)
Search(k) ==
  /\ call = NoCall
  /\ \/ /\ got' = <<"find", k, Missing>>
        /\ \A l \in Keys : Content[l] = Content[k] => map[l] = Missing
     \/ \E l \in Keys : /\ got' = <<"find", k, l>>
                        /\ Content[l] = Content[k] /\ map[l] # Missing
  /\ UNCHANGED <<map, call>>

Set(k, v) ==
  /\ call = NoCall
  /\ call' = <<k, v>>
  /\ got' = Missing
  /\ UNCHANGED map

(* The Set under way takes effect and ends. *)
Apply ==
  /\ call # NoCall
  /\ call' = NoCall
  /\ map' = [map EXCEPT ![call[1]] = call[2]]
  /\ UNCHANGED got

Next ==
  \/ \E k \in Keys : Get(k) \/ Search(k) \/ \E v \in Vals : Set(k, v)
  \/ Apply

Spec == Init /\ [][Next]_vars
=============================================================================
