------------------------------ MODULE DynArray ------------------------------
(***************************************************************************)
(* The growable array of share/array.c.  A header {capacity, size} sits in *)
(* front of the items; every macro of array.h finds it from the item       *)
(* pointer.  An array is a record here:                                    *)
(*   items  the allocated cells, a function on 0 .. cap - 1 (cells at or   *)
(*          above size keep what was last written there);                  *)
(*   size, cap   the header;                                               *)
(*   gen    the number of times realloc moved the block: a C pointer taken *)
(*          while gen had another value points into a freed block.         *)
(* Operators take any record that has these four fields, so that a         *)
(* component may keep fields of its own beside them.                       *)
(***************************************************************************)
EXTENDS Integers

CONSTANT INITIAL_CAPACITY    \* ARRAY_INITIAL_CAPACITY

ASSUME InitialCapacityAssumption ==
  INITIAL_CAPACITY \in Nat /\ INITIAL_CAPACITY >= 2

(* array(T): calloc zeroes every cell. *)
NewArray(zero) ==
  [items |-> [i \in 0 .. INITIAL_CAPACITY - 1 |-> zero],
   size  |-> 0,
   cap   |-> INITIAL_CAPACITY,
   gen   |-> 0]

(* The doubling loop of array_ensure_capacity: the first capacity above    *)
(* `needed` among start, 2 * start, 4 * start, ...                         *)
Doubled(start, needed) ==
  IF start > needed
  THEN start
  ELSE CHOOSE c \in needed + 1 .. 2 * needed :
         \E k \in 1 .. needed : c = start * 2^k

(* The capacity array_ensure_capacity asks realloc for. *)
GrownCapacity(cap, needed) ==
  Doubled(IF cap = 0 THEN 8 ELSE cap * 2, needed)

(* realloc to `cap` cells: old cells are kept, the new ones hold `fresh`,  *)
(* and the block may move.                                                 *)
Realloc(a, cap, fresh, moved) ==
  [a EXCEPT !.items = [i \in 0 .. cap - 1 |->
                         IF i < a.cap THEN a.items[i] ELSE fresh],
            !.cap   = cap,
            !.gen   = IF moved THEN @ + 1 ELSE @]

EnsureCapacity(a, count, fresh, moved) ==
  IF a.cap < a.size + count
  THEN Realloc(a, GrownCapacity(a.cap, a.size + count), fresh, moved)
  ELSE a

(* array_push, whose capacity has been ensured. *)
Stored(a, v) == [a EXCEPT !.items[a.size] = v, !.size = @ + 1]

Last(a) == a.items[a.size - 1]
=============================================================================
