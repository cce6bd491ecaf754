------------------------------- MODULE Table --------------------------------
(***************************************************************************)
(* The open-addressing hash table of share/table.c, keyed by interned      *)
(* strings (compared by pointer) with linear probing.  table_set may first *)
(* rebuild the table, one old slot at a time, before it stores.            *)
(*                                                                         *)
(* adjust_capacity asks for array(Entry) and then reserves new_capacity    *)
(* cells on top of it, so the new table has INITIAL_CAPACITY more slots    *)
(* than it clears: the tail holds whatever realloc returned.  Fresh is the *)
(* set of keys such a slot may hold: {NULL} when the allocator returns     *)
(* zeroed memory, {NULL, Junk} in general.  A Junk slot is neither empty   *)
(* nor any key; following the pointer it holds is undefined.               *)
(***************************************************************************)
EXTENDS Integers, FiniteSets

CONSTANTS
  Keys,              \* interned strings
  Vals,              \* values
  Hash,              \* [Keys -> Nat], the FNV hash stored in each string
  Content,           \* [Keys -> ...], the characters of each string
  NULL,              \* the key of an empty slot, and the answer "not found"
  Junk,              \* the key of a slot nobody wrote
  Fresh,             \* keys an uncleared slot may hold
  INITIAL_CAPACITY   \* ARRAY_INITIAL_CAPACITY

ASSUME TableAssumption ==
  /\ Hash \in [Keys -> Nat]
  /\ \A k, l \in Keys : Content[k] = Content[l] => Hash[k] = Hash[l]
  /\ NULL \notin Keys /\ NULL \notin Vals
  /\ Junk \notin Keys /\ Junk # NULL
  /\ Fresh \subseteq {NULL, Junk} /\ Fresh # {}
  /\ INITIAL_CAPACITY \in Nat /\ INITIAL_CAPACITY >= 2

VARIABLES
  keys, vals,    \* the entries of the table, by slot: 0 .. cap - 1
  cap, size,     \* the array header in front of them
  pc,            \* where table_set stands; "hang", "undefined": see below
  pending,       \* its key and value
  newKeys, newVals, newCap, newSize,   \* the table adjust_capacity builds
  cursor,        \* the old slot it copies next
  got            \* the last lookup: how, for which key, and its answer

table   == <<keys, vals, cap, size>>
rebuilt == <<newKeys, newVals, newCap, newSize, cursor>>
vars    == <<table, pc, pending, rebuilt, got>>

NoValue  == NULL
NoLookup == NULL

-----------------------------------------------------------------------------
(* Probing.  A table of c slots with keys ks: (ks, c).                     *)

Home(k, c) == Hash[k] % c

(* The slot reached from k's home after d steps of (index + 1) % capacity. *)
Probe(k, c, d) ==
  IF Home(k, c) + d < c THEN Home(k, c) + d ELSE Home(k, c) + d - c

Stops(ks, c, k, d) == ks[Probe(k, c, d)] \in {k, NULL}

(* Does find_entry return?  Otherwise its loop goes round for ever.        *)
Finds(ks, c, k) == \E d \in 0 .. c - 1 : Stops(ks, c, k, d)

(* Mutant: probing begins behind the home slot. *)
FindBehindHome(ks, c, k) ==
  LET d == CHOOSE d \in 0 .. c - 1 :
             /\ ks[(Home(k, c) + 1 + d) % c] \in {k, NULL}
             /\ \A e \in 0 .. d - 1 : ks[(Home(k, c) + 1 + e) % c] \notin {k, NULL}
  IN  (Home(k, c) + 1 + d) % c

FindEntry(ks, c, k) ==
  Probe(k, c, CHOOSE d \in 0 .. c - 1 :
                /\ Stops(ks, c, k, d)
                /\ \A e \in 0 .. d - 1 : ~Stops(ks, c, k, e))

(* table_find_string compares characters: it stops at a string like k, at  *)
(* an empty slot, and at a junk key, whose length it cannot read.          *)
Like(k) == {l \in Keys : Content[l] = Content[k]}

Meets(ks, c, k, d) == ks[Probe(k, c, d)] \in Like(k) \cup {NULL, Junk}

FirstMet(ks, c, k) ==
  Probe(k, c, CHOOSE d \in 0 .. c - 1 :
                /\ Meets(ks, c, k, d)
                /\ \A e \in 0 .. d - 1 : ~Meets(ks, c, k, e))

-----------------------------------------------------------------------------
EmptySlots(c) == [i \in 0 .. c - 1 |-> NULL]

(* Mutants: the table may become full; it is grown when it is too late. *)
OverloadedWhenFull == size + 1 > cap
OverloadedTooLate  == size > cap

Overloaded == 4 * (size + 1) > 3 * cap     \* TABLE_MAX_LOAD is 0.75

NoCall   == <<NULL, NoValue>>

Init ==
  /\ cap = INITIAL_CAPACITY
  /\ keys = EmptySlots(cap)
  /\ vals = EmptySlots(cap)
  /\ size = 0
  /\ pc = "idle"
  /\ pending = NoCall
  /\ newKeys = EmptySlots(0)
  /\ newVals = EmptySlots(0)
  /\ newCap = 0
  /\ newSize = 0
  /\ cursor = 0
  /\ got = NoLookup

(* table_get *)
Get(k) ==
  /\ pc = "idle"
  /\ IF size = 0
     THEN got' = <<"get", k, NoValue>> /\ UNCHANGED pc
     ELSE IF Finds(keys, cap, k)
          THEN LET e == FindEntry(keys, cap, k)
               IN  /\ got' = <<"get", k, IF keys[e] = k THEN vals[e] ELSE NoValue>>
                   /\ UNCHANGED pc
          ELSE pc' = "hang" /\ UNCHANGED got
  /\ UNCHANGED <<table, pending, rebuilt>>

(* Mutant: a slot of the same hash is taken for the string. *)
SearchByHash(k) ==
  /\ pc = "idle"
  /\ LET Met(d) == LET l == keys[Probe(k, cap, d)]
                   IN  l \in {NULL, Junk} \/ (l \in Keys /\ Hash[l] = Hash[k])
     IN  \E d \in 0 .. cap - 1 :
           /\ Met(d)
           /\ \A e \in 0 .. d - 1 : ~Met(e)
           /\ keys[Probe(k, cap, d)] # Junk
           /\ got' = <<"find", k, keys[Probe(k, cap, d)]>>
  /\ UNCHANGED <<table, pending, rebuilt, pc>>

(* table_find_string, with the length, hash and characters of k; k itself  *)
(* need not be stored, nor exist yet.                                      *)
Search(k) ==
  /\ pc = "idle"
  /\ \/ /\ size = 0
        /\ got' = <<"find", k, NULL>> /\ UNCHANGED pc
     \/ /\ size # 0
        /\ \E d \in 0 .. cap - 1 : Meets(keys, cap, k, d)
        /\ LET met == keys[FirstMet(keys, cap, k)] IN
             IF met = Junk
             THEN pc' = "undefined" /\ UNCHANGED got
             ELSE got' = <<"find", k, met>> /\ UNCHANGED pc
     \/ /\ size # 0
        /\ \A d \in 0 .. cap - 1 : ~Meets(keys, cap, k, d)
        /\ pc' = "hang" /\ UNCHANGED got
  /\ UNCHANGED <<table, pending, rebuilt>>

(* table_set, up to the store: there is room, or the table is rebuilt.     *)
Set(k, v) ==
  /\ pc = "idle"
  /\ ~Overloaded
  /\ pc' = "store"
  /\ pending' = <<k, v>>
  /\ got' = NoLookup
  /\ UNCHANGED <<table, rebuilt>>

(* Mutant: no more slots are cleared than the old table has. *)
GrowClearsOldCapacity(k, v) ==
  /\ pc = "idle" /\ Overloaded
  /\ pc' = "rehash" /\ pending' = <<k, v>> /\ newCap' = INITIAL_CAPACITY + 2 * cap
  /\ \E rest \in [cap .. newCap' - 1 -> Fresh] :
       newKeys' = [i \in 0 .. newCap' - 1 |-> IF i < cap THEN NULL ELSE rest[i]]
  /\ newVals' = EmptySlots(newCap') /\ newSize' = 0 /\ cursor' = 0 /\ got' = NoLookup
  /\ UNCHANGED table

(* adjust_capacity: the new table, its first 2 * cap slots cleared.        *)
Grow(k, v) ==
  /\ pc = "idle"
  /\ Overloaded
  /\ pc' = "rehash"
  /\ pending' = <<k, v>>
  /\ newCap' = INITIAL_CAPACITY + 2 * cap
  /\ \E tail \in [2 * cap .. newCap' - 1 -> Fresh] :
       newKeys' = [i \in 0 .. newCap' - 1 |->
                     IF i < 2 * cap THEN NULL ELSE tail[i]]
  /\ newVals' = EmptySlots(newCap')
  /\ newSize' = 0
  /\ cursor' = 0
  /\ got' = NoLookup
  /\ UNCHANGED table

(* One round of its loop: a key is copied; an empty slot is skipped; the   *)
(* hash of a junk key is read through a pointer that points nowhere.       *)
Rehash ==
  /\ pc = "rehash"
  /\ cursor < cap
  /\ cursor' = cursor + 1
  /\ LET k == keys[cursor] IN
       \/ /\ k \in Keys
          /\ LET e == FindEntry(newKeys, newCap, k) IN
               /\ newKeys' = [newKeys EXCEPT ![e] = k]
               /\ newVals' = [newVals EXCEPT ![e] = vals[cursor]]
          /\ newSize' = newSize + 1
          /\ UNCHANGED pc
       \/ /\ k = NULL
          /\ UNCHANGED <<newKeys, newVals, newSize, pc>>
       \/ /\ k = Junk
          /\ pc' = "undefined"
          /\ UNCHANGED <<newKeys, newVals, newSize>>
  /\ UNCHANGED <<table, newCap, pending, got>>

(* Mutant: the new entries under the old header. *)
AdoptOldCapacity ==
  /\ pc = "rehash" /\ cursor = cap /\ pc' = "store"
  /\ keys' = newKeys /\ vals' = newVals /\ cap' = cap /\ size' = newSize
  /\ newKeys' = EmptySlots(0) /\ newVals' = EmptySlots(0)
  /\ newCap' = 0 /\ newSize' = 0 /\ cursor' = 0
  /\ UNCHANGED <<pending, got>>

(* The old entries are freed and the new ones take their place.            *)
Adopt ==
  /\ pc = "rehash"
  /\ cursor = cap
  /\ pc' = "store"
  /\ keys' = newKeys
  /\ vals' = newVals
  /\ cap' = newCap
  /\ size' = newSize
  /\ newKeys' = EmptySlots(0)
  /\ newVals' = EmptySlots(0)
  /\ newCap' = 0
  /\ newSize' = 0
  /\ cursor' = 0
  /\ UNCHANGED <<pending, got>>

(* Mutant: a store of a key that is there counts, too. *)
StoreCountsAlways ==
  /\ pc = "store"
  /\ Finds(keys, cap, pending[1])
  /\ LET e == FindEntry(keys, cap, pending[1]) IN
       /\ size' = size + 1
       /\ keys' = [keys EXCEPT ![e] = pending[1]]
       /\ vals' = [vals EXCEPT ![e] = pending[2]]
  /\ pc' = "idle"
  /\ pending' = NoCall
  /\ UNCHANGED <<cap, rebuilt, got>>

(* The rest of table_set. *)
Store ==
  /\ pc = "store"
  /\ LET k == pending[1] IN
       \/ /\ Finds(keys, cap, k)
          /\ LET e == FindEntry(keys, cap, k) IN
               /\ size' = IF keys[e] = NULL THEN size + 1 ELSE size
               /\ keys' = [keys EXCEPT ![e] = k]
               /\ vals' = [vals EXCEPT ![e] = pending[2]]
          /\ pc' = "idle"
          /\ pending' = NoCall
       \/ /\ ~Finds(keys, cap, k)
          /\ pc' = "hang"
          /\ UNCHANGED <<keys, vals, size, pending>>
  /\ UNCHANGED <<cap, rebuilt, got>>

Next ==
  \/ \E k \in Keys : Get(k) \/ Search(k) \/ \E v \in Vals : Set(k, v) \/ Grow(k, v)
  \/ Rehash
  \/ Adopt
  \/ Store

(* A call that has started runs on: the program is sequential.             *)
Spec == Init /\ [][Next]_vars /\ WF_vars(Rehash \/ Adopt \/ Store)

-----------------------------------------------------------------------------
(* Properties.                                                             *)

Slots(c) == 0 .. c - 1

Entries(ks, c) ==
  ks \in [Slots(c) -> Keys \cup {NULL, Junk}]

Lookups == ({"get"} \X Keys \X (Vals \cup {NoValue}))
           \cup ({"find"} \X Keys \X (Keys \cup {NULL}))

TypeOK ==
  /\ cap \in Nat /\ cap >= INITIAL_CAPACITY
  /\ Entries(keys, cap)
  /\ vals \in [Slots(cap) -> Vals \cup {NoValue}]
  /\ size \in Nat
  /\ pc \in {"idle", "store", "rehash", "undefined", "hang"}
  /\ pending \in (Keys \cup {NULL}) \X (Vals \cup {NoValue})
  /\ newCap \in Nat
  /\ Entries(newKeys, newCap)
  /\ newVals \in [Slots(newCap) -> Vals \cup {NoValue}]
  /\ newSize \in Nat
  /\ cursor \in 0 .. cap
  /\ got \in Lookups \cup {NoLookup}

(* No slot before a stored key on its probe chain is empty or holds the    *)
(* key itself: find_entry meets the key before it would give up, and no    *)
(* key is stored twice.                                                    *)
Reachable(ks, c) ==
  \A k \in Keys : \A d \in Slots(c) :
    ks[Probe(k, c, d)] = k =>
      \A e \in 0 .. d - 1 : ks[Probe(k, c, e)] \notin {k, NULL}

(* Every key that was stored is found again by find_entry, at any moment,  *)
(* also in the half-built table of adjust_capacity (table.c:12-54).        *)
Findable == Reachable(keys, cap) /\ Reachable(newKeys, newCap)

(* The header's size is the number of stored keys; the shortcut of         *)
(* table_get on an empty table and the load test of table_set rely on it   *)
(* (table.c:58, 66-69, 100).                                               *)
Stored(ks, c) == {i \in Slots(c) : ks[i] \in Keys}
SizeCounts == size = Cardinality(Stored(keys, cap))

(* As long as no slot holds a key nobody wrote, no search goes round a full *)
(* table for ever and none follows such a key, in a rebuild neither: the   *)
(* load factor leaves a slot empty (table.c:16-25, 30-51, 58-66, 139-156). *)
Clean == \A i \in Slots(cap) : keys[i] # Junk

NeverLost == Clean => pc \notin {"undefined", "hang"}

(* The cells adjust_capacity reserves and does not clear: the last ones of *)
(* every table but the first.                                              *)
InTail(i) == cap > INITIAL_CAPACITY /\ i >= cap - INITIAL_CAPACITY

(* What the uncleared tail can do, and where.  A search by characters      *)
(* follows a key nobody wrote if its chain enters the tail, in the first   *)
(* rebuilt table as in any later one; a rebuild does when it has copied    *)
(* the cleared slots and comes to the tail.  No other slot ever holds such *)
(* a key.  An endless probe needs every cleared slot in use: only the      *)
(* first rebuilt table, three times the initial one, can be that full      *)
(* under its load factor (table.c:16-25, 30-51, 58-66, 139-156).           *)
LostInTail ==
  /\ pc = "hang" => cap = 3 * INITIAL_CAPACITY /\ size >= 2 * INITIAL_CAPACITY
  /\ pc = "undefined" =>
       \/ /\ newCap > 0 /\ cursor > 0
          /\ keys[cursor - 1] = Junk /\ InTail(cursor - 1)
       \/ /\ newCap = 0
          /\ \E k \in Keys, d \in 0 .. cap - 1 :
               /\ keys[Probe(k, cap, d)] = Junk /\ InTail(Probe(k, cap, d))
               /\ \A e \in 0 .. d - 1 : ~Meets(keys, cap, k, e)

(* A store that has begun ends, also when it rebuilds the table, unless    *)
(* the rebuilt table begins with such a key (table.c:12-80).               *)
SetCompletes == (pc \in {"rehash", "store"}) ~> (pc = "idle" \/ ~Clean)

(* The table implements a map: a rebuild in progress is invisible, a store *)
(* that ends has taken effect, every lookup answers the last value stored  *)
(* under the key, and a search by characters answers a stored key that has *)
(* them, if there is one (table.c:12-157).                                 *)
Holds(k) == {i \in Slots(cap) : keys[i] = k}

Map ==
  INSTANCE AbstractMap WITH
    Missing <- NoValue,
    map <- [k \in Keys |->
              IF Holds(k) = {} THEN NoValue
              ELSE vals[CHOOSE i \in Holds(k) : TRUE]],
    call <- pending,
    got <- got

RefinesMap == Map!Spec

-----------------------------------------------------------------------------
(* The inductive invariant behind these properties.                        *)

Valued(ks, vs, c) == \A i \in Slots(c) : ks[i] \in Keys => vs[i] \in Vals

Used(ks, n) == {i \in 0 .. n - 1 : ks[i] # NULL}

(* What the rebuilt table holds when `cursor` old slots have been copied:  *)
(* their keys with their values and no other key, in at most one of the    *)
(* cleared slots for each.                                                 *)
Copied ==
  /\ newCap = INITIAL_CAPACITY + 2 * cap
  /\ newSize <= cursor
  /\ Cardinality(Used(newKeys, 2 * cap)) <= cursor
  /\ \A i \in 0 .. cursor - 1 : keys[i] \in Keys =>
       \E j \in Slots(newCap) : newKeys[j] = keys[i] /\ newVals[j] = vals[i]
  /\ \A j \in Slots(newCap) : newKeys[j] \in Keys =>
       \E i \in 0 .. cursor - 1 : keys[i] = newKeys[j]

Calling == pending \in Keys \X Vals

IInv ==
  /\ TypeOK
  /\ Findable
  /\ SizeCounts
  /\ newSize = Cardinality(Stored(newKeys, newCap))
  /\ Valued(keys, vals, cap) /\ Valued(newKeys, newVals, newCap)
  /\ pc = "idle"   => pending = NoCall /\ 4 * size <= 3 * cap
  /\ pc = "store"  => Calling /\ 4 * (size + 1) <= 3 * cap
  /\ pc = "rehash" => Calling /\ Copied
  /\ NeverLost

(* And behind LostInTail: how tables grow, and where junk can be.          *)
Capacity ==
  \/ cap = INITIAL_CAPACITY
  \/ cap = 3 * INITIAL_CAPACITY
  \/ cap >= 7 * INITIAL_CAPACITY

TailInv ==
  /\ Capacity
  /\ \A i \in Slots(cap) : keys[i] = Junk => InTail(i)
  /\ \A i \in Slots(newCap) : newKeys[i] = Junk => i >= newCap - INITIAL_CAPACITY
  /\ pc \in {"idle", "store"} => newCap = 0
  /\ LostInTail
=============================================================================
