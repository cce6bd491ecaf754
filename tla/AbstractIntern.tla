--------------------------- MODULE AbstractIntern ---------------------------
(***************************************************************************)
(* What interning promises: whoever asks for a string of given characters  *)
(* gets the same string every time, and nobody who asks for others gets    *)
(* it.  So strings may be compared by their addresses.                     *)
(***************************************************************************)
CONSTANTS
  Strings,   \* all the strings there may be
  Content,   \* [Strings -> their characters]
  None       \* no string

VARIABLES
  interned,  \* the strings handed out so far
  asked,     \* a string like the one asked for, or None
  answer     \* the string just handed out, or None

vars == <<interned, asked, answer>>

Init ==
  /\ interned = {}
  /\ asked = None
  /\ answer = None

Ask(k) ==
  /\ asked = None
  /\ asked' = k
  /\ answer' = None
  /\ UNCHANGED interned

Like(k, set) == {s \in set : Content[s] = Content[k]}

Return ==
  /\ asked # None
  /\ \E s \in IF Like(asked, interned) = {} THEN Like(asked, Strings)
                                            ELSE Like(asked, interned) :
       /\ interned' = interned \cup {s}
       /\ answer' = s
  /\ asked' = None

Next == (\E k \in Strings : Ask(k)) \/ Return

Spec == Init /\ [][Next]_vars
=============================================================================
