---------------------------- MODULE TableProofs -----------------------------
(***************************************************************************)
(* Proofs about Table, for every set of keys, every hash function, every   *)
(* initial capacity and whatever the uncleared slots of a rebuilt table    *)
(* hold.  First the arithmetic of a probe chain, then find_entry, then one *)
(* insertion, then the steps of the specification.                         *)
(*                                                                         *)
(* Then about Strings: strings of equal characters are one string, however *)
(* often the table was rebuilt, and every block of characters is freed     *)
(* once.  The table's own invariant holds there too, as every step of      *)
(* Strings is one of the table or leaves it alone.                         *)
(***************************************************************************)
EXTENDS Strings, TLAPS, FiniteSetTheorems, WellFoundedInduction


-----------------------------------------------------------------------------
(* The probe chain of a key visits every slot of the table exactly once.   *)

(* A key's home is a slot of the table.                                    *)
LEMMA HomeInTable ==
  ASSUME NEW c \in Nat \ {0}, NEW k \in Keys
  PROVE  Home(k, c) \in 0 .. c - 1
<1>1. Hash[k] \in Nat  BY TableAssumption
<1>. QED  BY <1>1 DEF Home

(* Every slot that probing reaches is a slot of the table.                 *)
LEMMA ProbeInTable ==
  ASSUME NEW c \in Nat \ {0}, NEW k \in Keys, NEW d \in 0 .. c - 1
  PROVE  Probe(k, c, d) \in 0 .. c - 1
BY HomeInTable DEF Probe

(* Within one round probing meets no slot twice.                           *)
LEMMA ProbeOnce ==
  ASSUME NEW c \in Nat \ {0}, NEW k \in Keys,
         NEW d \in 0 .. c - 1, NEW e \in 0 .. c - 1,
         Probe(k, c, d) = Probe(k, c, e)
  PROVE  d = e
BY HomeInTable DEF Probe

(* Within one round probing meets every slot.                              *)
LEMMA ProbeAll ==
  ASSUME NEW c \in Nat \ {0}, NEW k \in Keys, NEW i \in 0 .. c - 1
  PROVE  \E d \in 0 .. c - 1 : Probe(k, c, d) = i
<1>. DEFINE h == Home(k, c)
            d == IF h <= i THEN i - h ELSE i - h + c
<1>1. h \in 0 .. c - 1  BY HomeInTable
<1>2. d \in 0 .. c - 1  BY <1>1
<1>3. Probe(k, c, d) = i  BY <1>1 DEF Probe
<1>. QED  BY <1>2, <1>3

-----------------------------------------------------------------------------
(* A set of natural numbers has a least element. *)
LEMMA LeastOf ==
  ASSUME NEW T, T \subseteq Nat, T # {}
  PROVE  \E x \in T : \A y \in T : x <= y
<1>. DEFINE Less == {p \in Nat \X Nat : p[1] < p[2]}
<1>1. IsWellFoundedOn(Less, Nat)
  BY NatLessThanWellFounded DEF OpToRel
<1>2. \E x \in T : \A y \in T : <<y, x>> \notin Less
  <2>. HIDE DEF Less
  <2>. QED  BY <1>1, WFMin
<1>3. PICK x \in T : \A y \in T : <<y, x>> \notin Less
  BY <1>2
<1>4. \A y \in T : x \in Nat /\ y \in Nat /\ (<<y, x>> \notin Less => x <= y)
  OBVIOUS
<1>. QED  BY <1>3, <1>4

(* find_entry stops at the first slot of the chain that is empty or holds  *)
(* the key.                                                                *)
LEMMA FindEntryIsFirst ==
  ASSUME NEW c \in Nat \ {0}, NEW k \in Keys, NEW ks, Finds(ks, c, k)
  PROVE  \E d \in 0 .. c - 1 :
           /\ FindEntry(ks, c, k) = Probe(k, c, d)
           /\ Stops(ks, c, k, d)
           /\ \A e \in 0 .. d - 1 : ~Stops(ks, c, k, e)
<1>. DEFINE First(d) == /\ Stops(ks, c, k, d)
                        /\ \A e \in 0 .. d - 1 : ~Stops(ks, c, k, e)
            T == {d \in 0 .. c - 1 : Stops(ks, c, k, d)}
<1>1. T # {} /\ T \subseteq Nat  BY DEF Finds
<1>2. PICK d \in T : \A e \in T : d <= e  BY <1>1, LeastOf
<1>3. \A e \in 0 .. d - 1 : e \in 0 .. c - 1 /\ ~(d <= e)  BY <1>2
<1>4. d \in 0 .. c - 1 /\ First(d)  BY <1>2, <1>3
<1>5. FindEntry(ks, c, k) = Probe(k, c, CHOOSE x \in 0 .. c - 1 : First(x))
  BY DEF FindEntry
<1>6. (CHOOSE x \in 0 .. c - 1 : First(x)) \in 0 .. c - 1
      /\ First(CHOOSE x \in 0 .. c - 1 : First(x))
  <2>. HIDE DEF First
  <2>. QED  BY <1>4
<1>. QED  BY <1>5, <1>6

(* In a table where chains are unbroken, find_entry tells whether the key  *)
(* is stored, and where.                                                   *)
LEMMA FindEntryDecides ==
  ASSUME NEW c \in Nat \ {0}, NEW k \in Keys, NEW ks,
         Reachable(ks, c), Finds(ks, c, k),
         NEW i \in 0 .. c - 1, ks[i] = k
  PROVE  FindEntry(ks, c, k) = i
<1>1. PICK j \in 0 .. c - 1 : Probe(k, c, j) = i  BY ProbeAll
<1>2. PICK d \in 0 .. c - 1 :
           /\ FindEntry(ks, c, k) = Probe(k, c, d)
           /\ Stops(ks, c, k, d)
           /\ \A e \in 0 .. d - 1 : ~Stops(ks, c, k, e)
  BY FindEntryIsFirst
<1>3. \A e \in 0 .. j - 1 : ks[Probe(k, c, e)] \notin {k, NULL}
  BY <1>1 DEF Reachable, Slots
<1>4. ~(d < j)
  <2>1. d < j => d \in 0 .. j - 1  OBVIOUS
  <2>. QED  BY <1>2, <1>3, <2>1 DEF Stops
<1>5. ~(j < d)
  <2>1. j < d => j \in 0 .. d - 1  OBVIOUS
  <2>. QED  BY <1>1, <1>2, <2>1 DEF Stops
<1>6. d = j  BY <1>4, <1>5
<1>. QED  BY <1>1, <1>2, <1>6

(* No key is stored twice. *)
LEMMA StoredOnce ==
  ASSUME NEW c \in Nat \ {0}, NEW k \in Keys, NEW ks, Reachable(ks, c),
         NEW i \in 0 .. c - 1, NEW j \in 0 .. c - 1, ks[i] = k, ks[j] = k
  PROVE  i = j
<1>1. PICK d \in 0 .. c - 1 : Probe(k, c, d) = i  BY ProbeAll
<1>2. Stops(ks, c, k, d)  BY <1>1 DEF Stops
<1>3. Finds(ks, c, k)  BY <1>2 DEF Finds
<1>. QED  BY <1>3, FindEntryDecides

(* Writing the key where find_entry stopped keeps every chain unbroken.    *)
LEMMA InsertKeepsReachable ==
  ASSUME NEW c \in Nat \ {0}, NEW k \in Keys,
         NEW ks, Entries(ks, c), Reachable(ks, c), Finds(ks, c, k)
  PROVE  LET e == FindEntry(ks, c, k) IN
         /\ e \in 0 .. c - 1
         /\ ks[e] \in {k, NULL}
         /\ Entries([ks EXCEPT ![e] = k], c)
         /\ Reachable([ks EXCEPT ![e] = k], c)
<1>. DEFINE e == FindEntry(ks, c, k)
            new == [ks EXCEPT ![e] = k]
<1>1. PICK d \in 0 .. c - 1 :
           /\ e = Probe(k, c, d)
           /\ Stops(ks, c, k, d)
           /\ \A x \in 0 .. d - 1 : ~Stops(ks, c, k, x)
  BY FindEntryIsFirst
<1>2. e \in 0 .. c - 1 /\ ks[e] \in {k, NULL}
  BY <1>1, ProbeInTable DEF Stops
<1>. HIDE DEF e
<1>3. ks \in [0 .. c - 1 -> Keys \cup {NULL, Junk}]
  BY DEF Entries, Slots
<1>4. /\ Entries(new, c)
      /\ \A i \in 0 .. c - 1 : new[i] = IF i = e THEN k ELSE ks[i]
  BY <1>2, <1>3 DEF Entries, Slots
<1>. HIDE DEF new
<1>5. ASSUME NEW m \in Keys, NEW x \in 0 .. c - 1,
             new[Probe(m, c, x)] = m, NEW y \in 0 .. x - 1
      PROVE  new[Probe(m, c, y)] \notin {m, NULL}
  <2>1. y \in 0 .. c - 1 /\ y # x  OBVIOUS
  <2>2. Probe(m, c, x) \in 0 .. c - 1 /\ Probe(m, c, y) \in 0 .. c - 1
    BY <2>1, ProbeInTable
  <2>3. CASE m # k
    <3>1. ks[Probe(m, c, x)] = m  BY <1>4, <1>5, <2>2, <2>3
    <3>2. ks[Probe(m, c, y)] \notin {m, NULL}
      BY <3>1 DEF Reachable, Slots
    <3>. QED  BY <1>4, <2>2, <2>3, <3>2, TableAssumption
  <2>4. CASE m = k /\ Probe(k, c, x) = e
    <3>1. x = d  BY <1>1, <2>4, ProbeOnce
    <3>2. ~Stops(ks, c, k, y)  BY <1>1, <3>1
    <3>3. Probe(k, c, y) # e  BY <2>1, <2>4, ProbeOnce
    <3>. QED  BY <1>4, <2>2, <2>4, <3>2, <3>3 DEF Stops
  <2>5. CASE m = k /\ Probe(k, c, x) # e
    <3>1. ks[Probe(k, c, x)] = k  BY <1>4, <1>5, <2>2, <2>5
    <3>2. Probe(k, c, x) \in 0 .. c - 1
      BY <2>2, <2>5
    <3>3. FindEntry(ks, c, k) = Probe(k, c, x)
      BY <3>1, <3>2, FindEntryDecides
    <3>. QED  BY <2>5, <3>3 DEF e
  <2>. QED  BY <2>3, <2>4, <2>5
<1>6. Reachable(new, c)
  BY <1>5 DEF Reachable, Slots
<1>. QED  BY <1>2, <1>4, <1>6 DEF e, new

-----------------------------------------------------------------------------
(* Counting slots. *)

(* The stored keys can be counted.                                         *)
LEMMA CountStored ==
  ASSUME NEW c \in Nat, NEW ks
  PROVE  IsFiniteSet(Stored(ks, c)) /\ Cardinality(Stored(ks, c)) \in Nat
<1>1. IsFiniteSet(0 .. c - 1)  BY FS_Interval
<1>2. Stored(ks, c) \in SUBSET (0 .. c - 1)  BY DEF Stored, Slots
<1>. QED  BY <1>1, <1>2, FS_Subset, FS_CardinalityType

(* One insertion adds one stored key, or none when the key was there.      *)
LEMMA InsertCounts ==
  ASSUME NEW c \in Nat, NEW k \in Keys, NEW ks, Entries(ks, c),
         NEW e \in 0 .. c - 1, ks[e] \in {k, NULL}
  PROVE  Cardinality(Stored([ks EXCEPT ![e] = k], c)) =
           Cardinality(Stored(ks, c)) + (IF ks[e] = NULL THEN 1 ELSE 0)
<1>1. Stored([ks EXCEPT ![e] = k], c) = Stored(ks, c) \cup {e}
  BY DEF Stored, Entries, Slots
<1>2. e \in Stored(ks, c) <=> ks[e] # NULL
  BY TableAssumption DEF Stored, Slots
<1>. DEFINE S == Stored(ks, c)
<1>3. IsFiniteSet(S) /\ Cardinality(S) \in Nat  BY CountStored
<1>. HIDE DEF S
<1>4. Cardinality(S \cup {e}) =
        IF e \in S THEN Cardinality(S) ELSE Cardinality(S) + 1
  BY <1>3, FS_AddElement
<1>5. Cardinality(S \cup {e}) =
        Cardinality(S) + (IF ks[e] = NULL THEN 1 ELSE 0)
  BY <1>2, <1>3, <1>4 DEF S
<1>. QED  BY <1>1, <1>5 DEF S

(* Fewer used slots than slots leave an empty one. *)
LEMMA EmptySlotExists ==
  ASSUME NEW n \in Nat, NEW ks,
         Cardinality(Used(ks, n)) < n
  PROVE  \E i \in 0 .. n - 1 : ks[i] = NULL
<1>1. SUFFICES ASSUME \A i \in 0 .. n - 1 : ks[i] # NULL  PROVE FALSE
  OBVIOUS
<1>2. Used(ks, n) = 0 .. n - 1  BY <1>1 DEF Used
<1>3. Cardinality(0 .. n - 1) = n  BY FS_Interval
<1>. QED  BY <1>2, <1>3

(* find_entry returns in a table that has an empty slot. *)
LEMMA EmptySlotStops ==
  ASSUME NEW c \in Nat \ {0}, NEW k \in Keys, NEW ks,
         NEW i \in 0 .. c - 1, ks[i] = NULL
  PROVE  Finds(ks, c, k)
<1>1. PICK d \in 0 .. c - 1 : Probe(k, c, d) = i  BY ProbeAll
<1>. QED  BY <1>1 DEF Finds, Stops

(* A table has at least two slots.                                         *)
LEMMA CapacityPositive ==
  ASSUME TypeOK  PROVE cap \in Nat \ {0} /\ cap >= 2
BY TableAssumption DEF TypeOK

-----------------------------------------------------------------------------
(* The initial table. *)

(* An empty table satisfies the invariant.                                 *)
LEMMA InitIInv == Init => IInv
<1>. SUFFICES ASSUME Init  PROVE IInv  OBVIOUS
<1>1. cap = INITIAL_CAPACITY /\ cap \in Nat /\ cap >= 2
  BY TableAssumption DEF Init
<1>2. keys = [i \in 0 .. cap - 1 |-> NULL] /\ vals = [i \in 0 .. cap - 1 |-> NULL]
  BY DEF Init, EmptySlots, NoLookup, NoValue
<1>3. /\ newKeys = [i \in 0 .. 0 - 1 |-> NULL]
      /\ newVals = [i \in 0 .. 0 - 1 |-> NULL]
      /\ newCap = 0 /\ newSize = 0
  BY DEF Init, EmptySlots, NoLookup, NoValue
<1>4. TypeOK
  BY <1>1, <1>2, <1>3 DEF Init, TypeOK, Entries, Slots, NoValue, NoCall
<1>5. Findable
  <2>1. Reachable(keys, cap)
    <3>1. ASSUME NEW k \in Keys, NEW d \in 0 .. cap - 1
          PROVE  keys[Probe(k, cap, d)] # k
      <4>1. Probe(k, cap, d) \in 0 .. cap - 1  BY <1>1, ProbeInTable
      <4>. QED  BY <4>1, <1>2, TableAssumption
    <3>. QED  BY <3>1 DEF Reachable, Slots
  <2>2. Reachable(newKeys, newCap)
    BY <1>3 DEF Reachable, Slots
  <2>. QED  BY <2>1, <2>2 DEF Findable
<1>6. Stored(keys, cap) = {} /\ Stored(newKeys, newCap) = {}
  BY <1>2, <1>3, TableAssumption DEF Stored, Slots
<1>7. SizeCounts /\ newSize = Cardinality(Stored(newKeys, newCap))
  BY <1>6, <1>3, FS_EmptySet DEF SizeCounts, Init
<1>8. Valued(keys, vals, cap) /\ Valued(newKeys, newVals, newCap)
  BY <1>2, <1>3, TableAssumption DEF Valued, Slots
<1>9. NeverLost  BY DEF NeverLost, Init
<1>. QED  BY <1>1, <1>4, <1>5, <1>7, <1>8, <1>9 DEF IInv, Init

-----------------------------------------------------------------------------
(* In a clean table some slot is empty whenever table_set or table_get     *)
(* probes it.                                                              *)
LEMMA CleanFinds ==
  ASSUME IInv, Clean, NEW k \in Keys, pc \in {"idle", "store"}
  PROVE  Finds(keys, cap, k)
<1>1. cap \in Nat \ {0} /\ cap >= 2 /\ size \in Nat
  BY CapacityPositive DEF IInv, TypeOK
<1>2. keys \in [0 .. cap - 1 -> Keys \cup {NULL, Junk}]
  BY DEF IInv, TypeOK, Entries, Slots
<1>3. \A i \in 0 .. cap - 1 : keys[i] # Junk
  BY DEF Clean, Slots
<1>4. Used(keys, cap) = Stored(keys, cap)
  BY <1>2, <1>3, TableAssumption DEF Used, Stored, Slots
<1>5. 4 * size <= 3 * cap  BY <1>1 DEF IInv
<1>6. Cardinality(Used(keys, cap)) < cap
  BY <1>1, <1>4, <1>5 DEF IInv, SizeCounts
<1>7. \E i \in 0 .. cap - 1 : keys[i] = NULL
  BY <1>1, <1>6, EmptySlotExists
<1>. QED  BY <1>1, <1>7, EmptySlotStops

(* A lookup changes no table; it cannot hang in a clean one.               *)
LEMMA GetIInv ==
  ASSUME IInv, NEW k \in Keys, Get(k)  PROVE IInv'
<1>1. /\ UNCHANGED <<keys, vals, cap, size, pending, newKeys, newVals>>
      /\ UNCHANGED <<newCap, newSize, cursor>>
  BY DEF Get, table, rebuilt
<1>2. pc' \in {"idle", "hang"} /\ pc = "idle"
  BY DEF Get
<1>3. got' \in Lookups \cup {NoLookup}
  <2>1. CASE got' = got  BY <2>1 DEF IInv, TypeOK
  <2>2. CASE got' = <<"get", k, NoValue>>  BY <2>2 DEF Lookups
  <2>3. CASE got' # got /\ got' # <<"get", k, NoValue>>
    <3>1. /\ Finds(keys, cap, k)
          /\ got' = <<"get", k, vals[FindEntry(keys, cap, k)]>>
      BY <2>3 DEF Get
    <3>2. FindEntry(keys, cap, k) \in 0 .. cap - 1
      <4>1. PICK d \in 0 .. cap - 1 :
                 FindEntry(keys, cap, k) = Probe(k, cap, d)
        BY <3>1, CapacityPositive, FindEntryIsFirst DEF IInv
      <4>. QED  BY <4>1, CapacityPositive, ProbeInTable DEF IInv
    <3>3. vals[FindEntry(keys, cap, k)] \in Vals \cup {NoValue}
      BY <3>2 DEF IInv, TypeOK, Slots
    <3>. QED  BY <3>1, <3>3 DEF Lookups
  <2>. QED  BY <2>1, <2>2, <2>3
<1>4. Clean => pc' = "idle"
  BY <1>2, CleanFinds DEF Get
<1>5. TypeOK'
  BY <1>1, <1>2, <1>3 DEF IInv, TypeOK, Entries, Slots
<1>6. Clean' <=> Clean  BY <1>1 DEF Clean, Slots
<1>7. NeverLost'  BY <1>4, <1>6 DEF NeverLost
<1>8. Findable' /\ SizeCounts'
  BY <1>1 DEF IInv, Findable, SizeCounts, Reachable, Probe, Home, Stored, Slots
<1>. QED
  BY <1>1, <1>2, <1>5, <1>6, <1>7, <1>8
     DEF IInv, Valued, Stored, Slots

(* table_find_string answers what stands in the first slot of the chain    *)
(* that is empty, junk or like the string.                                 *)
LEMMA FirstMetIsFirst ==
  ASSUME NEW c \in Nat \ {0}, NEW k \in Keys, NEW ks,
         \E d \in 0 .. c - 1 : Meets(ks, c, k, d)
  PROVE  \E d \in 0 .. c - 1 :
           /\ FirstMet(ks, c, k) = Probe(k, c, d)
           /\ Meets(ks, c, k, d)
           /\ \A e \in 0 .. d - 1 : ~Meets(ks, c, k, e)
<1>. DEFINE First(d) == /\ Meets(ks, c, k, d)
                        /\ \A e \in 0 .. d - 1 : ~Meets(ks, c, k, e)
            T == {d \in 0 .. c - 1 : Meets(ks, c, k, d)}
<1>1. T # {} /\ T \subseteq Nat  OBVIOUS
<1>2. PICK d \in T : \A e \in T : d <= e  BY <1>1, LeastOf
<1>3. \A e \in 0 .. d - 1 : e \in 0 .. c - 1 /\ ~(d <= e)  BY <1>2
<1>4. d \in 0 .. c - 1 /\ First(d)  BY <1>2, <1>3
<1>5. FirstMet(ks, c, k) = Probe(k, c, CHOOSE x \in 0 .. c - 1 : First(x))
  BY DEF FirstMet
<1>6. (CHOOSE x \in 0 .. c - 1 : First(x)) \in 0 .. c - 1
      /\ First(CHOOSE x \in 0 .. c - 1 : First(x))
  <2>. HIDE DEF First
  <2>. QED  BY <1>4
<1>. QED  BY <1>5, <1>6

(* A search changes no table, and neither hangs nor reads a junk key in a  *)
(* clean one.                                                              *)
LEMMA SearchIInv ==
  ASSUME IInv, NEW k \in Keys, Search(k)  PROVE IInv'
<1>1. /\ UNCHANGED <<keys, vals, cap, size, pending, newKeys, newVals>>
      /\ UNCHANGED <<newCap, newSize, cursor>>
  BY DEF Search, table, rebuilt
<1>2. pc' \in {"idle", "hang", "undefined"} /\ pc = "idle"
  BY DEF Search
<1>. DEFINE met == keys[FirstMet(keys, cap, k)]
<1>3. ASSUME \E d \in 0 .. cap - 1 : Meets(keys, cap, k, d)
      PROVE  met \in Keys \cup {NULL, Junk} /\ (Clean => met # Junk)
  <2>1. PICK d \in 0 .. cap - 1 : FirstMet(keys, cap, k) = Probe(k, cap, d)
    BY <1>3, CapacityPositive, FirstMetIsFirst DEF IInv
  <2>2. FirstMet(keys, cap, k) \in 0 .. cap - 1
    BY <2>1, CapacityPositive, ProbeInTable DEF IInv
  <2>. QED  BY <2>2 DEF IInv, TypeOK, Entries, Slots, Clean
<1>. HIDE DEF met
<1>4. /\ got' \in {got, <<"find", k, NULL>>, <<"find", k, met>>}
      /\ got' = <<"find", k, met>> =>
           met \in Keys \cup {NULL} \/ got' = <<"find", k, NULL>> \/ got' = got
  <2>1. CASE size = 0
    BY <2>1 DEF Search
  <2>2. CASE size # 0 /\ \E d \in 0 .. cap - 1 : Meets(keys, cap, k, d)
    BY <2>2, <1>3 DEF Search, met
  <2>3. CASE size # 0 /\ \A d \in 0 .. cap - 1 : ~Meets(keys, cap, k, d)
    BY <2>3 DEF Search
  <2>. QED  BY <2>1, <2>2, <2>3
<1>5. got' \in Lookups \cup {NoLookup}
  BY <1>4 DEF Lookups, IInv, TypeOK
<1>6. Clean => pc' = "idle"
  <2>1. SUFFICES ASSUME Clean  PROVE pc' = "idle"  OBVIOUS
  <2>2. Finds(keys, cap, k)  BY <1>2, <2>1, CleanFinds
  <2>3. \E d \in 0 .. cap - 1 : Meets(keys, cap, k, d)
    BY <2>2 DEF Finds, Stops, Meets, Like
  <2>4. met # Junk  BY <1>3, <2>1, <2>3
  <2>. QED  BY <1>2, <2>3, <2>4 DEF Search, met
<1>7. TypeOK'
  BY <1>1, <1>2, <1>5 DEF IInv, TypeOK, Entries, Slots, Lookups
<1>8. Clean' <=> Clean  BY <1>1 DEF Clean, Slots
<1>9. NeverLost'  BY <1>6, <1>8 DEF NeverLost
<1>10. Findable' /\ SizeCounts'
  BY <1>1 DEF IInv, Findable, SizeCounts, Reachable, Probe, Home, Stored, Slots
<1>. QED
  BY <1>1, <1>2, <1>7, <1>8, <1>9, <1>10
     DEF IInv, Valued, Stored, Slots

(* A store that finds room leaves one slot empty for probing to stop.      *)
LEMMA SetIInv ==
  ASSUME IInv, NEW k \in Keys, NEW v \in Vals, Set(k, v)  PROVE IInv'
<1>1. /\ UNCHANGED <<keys, vals, cap, size, newKeys, newVals>>
      /\ UNCHANGED <<newCap, newSize, cursor>> /\ got' = NoLookup
  BY DEF Set, table, rebuilt
<1>2. pc = "idle" /\ pc' = "store" /\ pending' = <<k, v>> /\ ~Overloaded
  BY DEF Set
<1>3. TypeOK'
  BY <1>1, <1>2 DEF IInv, TypeOK, Entries, Slots
<1>4. 4 * (size + 1) <= 3 * cap
  BY <1>2 DEF Overloaded, IInv, TypeOK
<1>5. Findable' /\ SizeCounts'
  BY <1>1 DEF IInv, Findable, SizeCounts, Reachable, Probe, Home, Stored, Slots
<1>6. Calling'  BY <1>2 DEF Calling
<1>7. NeverLost'  BY <1>2 DEF NeverLost
<1>. QED
  BY <1>1, <1>2, <1>3, <1>4, <1>5, <1>6, <1>7
     DEF IInv, Valued, Stored, Slots

(* The new table: its first n slots are empty, and it holds no key.        *)
LEMMA NewTable ==
  ASSUME NEW n \in Nat, NEW c \in Nat \ {0}, n <= c,
         NEW tail \in [n .. c - 1 -> Fresh],
         NEW ks, ks = [i \in 0 .. c - 1 |-> IF i < n THEN NULL ELSE tail[i]]
  PROVE  /\ Entries(ks, c)
         /\ Reachable(ks, c)
         /\ Stored(ks, c) = {}
         /\ Used(ks, n) = {}
         /\ \A i \in 0 .. c - 1 : ks[i] \notin Keys
<1>1. \A i \in 0 .. n - 1 : ks[i] = NULL  OBVIOUS
<1>2. ASSUME NEW i \in 0 .. c - 1  PROVE  ks[i] \in {NULL} \cup Fresh
  <2>1. CASE i < n  BY <2>1
  <2>2. CASE ~(i < n)
    <3>1. i \in n .. c - 1 /\ ks[i] = tail[i]  BY <2>2
    <3>2. tail[i] \in Fresh  BY <3>1
    <3>. QED  BY <3>1, <3>2
  <2>. QED  BY <2>1, <2>2
<1>3. \A i \in 0 .. c - 1 : ks[i] \notin Keys /\ ks[i] \in {NULL, Junk}
  BY <1>2, TableAssumption
<1>4. Entries(ks, c)  BY <1>3 DEF Entries, Slots
<1>5. Reachable(ks, c)
  <2>1. ASSUME NEW m \in Keys, NEW d \in 0 .. c - 1
        PROVE  ks[Probe(m, c, d)] # m
    BY <1>3, ProbeInTable
  <2>. QED  BY <2>1 DEF Reachable, Slots
<1>6. Stored(ks, c) = {} /\ Used(ks, n) = {}
  BY <1>1, <1>3 DEF Stored, Used, Slots
<1>. QED  BY <1>2, <1>3, <1>4, <1>5, <1>6, TableAssumption

(* An empty table twice as large satisfies the invariant.                  *)
LEMMA GrowIInv ==
  ASSUME IInv, NEW k \in Keys, NEW v \in Vals, Grow(k, v)  PROVE IInv'
<1>1. /\ UNCHANGED <<keys, vals, cap, size>> /\ got' = NoLookup
      /\ pc = "idle" /\ pc' = "rehash" /\ pending' = <<k, v>>
      /\ newCap' = INITIAL_CAPACITY + 2 * cap
      /\ newSize' = 0 /\ cursor' = 0
  BY DEF Grow, table
<1>2. cap \in Nat \ {0} /\ newCap' \in Nat /\ newCap' > 2 * cap
  BY <1>1, CapacityPositive, TableAssumption DEF IInv
<1>3. PICK tail \in [2 * cap .. newCap' - 1 -> Fresh] :
        newKeys' = [i \in 0 .. newCap' - 1 |->
                      IF i < 2 * cap THEN NULL ELSE tail[i]]
  BY DEF Grow
<1>4. 2 * cap \in Nat /\ newCap' \in Nat \ {0} /\ 2 * cap <= newCap'
  BY <1>2
<1>5. /\ Entries(newKeys', newCap')
      /\ Reachable(newKeys', newCap')
      /\ Stored(newKeys', newCap') = {}
      /\ Used(newKeys', 2 * cap) = {}
      /\ \A i \in 0 .. newCap' - 1 : newKeys'[i] \notin Keys
  BY <1>3, <1>4, NewTable
<1>6. \A i \in 0 .. newCap' - 1 : newKeys'[i] \notin Keys
  BY <1>5
<1>7. newVals' = [i \in 0 .. newCap' - 1 |-> NULL]
  BY DEF Grow, EmptySlots
<1>8. TypeOK'
  <2>1. newKeys' \in [0 .. newCap' - 1 -> Keys \cup {NULL, Junk}]
    BY <1>5 DEF Entries, Slots
  <2>2. newVals' \in [0 .. newCap' - 1 -> Vals \cup {NULL}]
    BY <1>7
  <2>. QED
    BY <1>1, <1>2, <2>1, <2>2 DEF IInv, TypeOK, Entries, Slots, NoValue
<1>9. Findable'
  <2>1. Reachable(keys, cap)'
    BY <1>1 DEF IInv, Findable, Reachable, Probe, Home, Slots
  <2>. QED  BY <1>5, <2>1 DEF Findable, Reachable, Probe, Home, Slots
<1>10. SizeCounts' /\ (newSize = Cardinality(Stored(newKeys, newCap)))'
  <2>1. Stored(newKeys, newCap)' = {}  BY <1>5 DEF Stored, Slots
  <2>2. SizeCounts'
    BY <1>1 DEF IInv, SizeCounts, Stored, Slots
  <2>. QED  BY <1>1, <2>1, <2>2, FS_EmptySet
<1>11. Copied'
  <2>1. Cardinality(Used(newKeys', 2 * cap)) = 0
    BY <1>5, FS_EmptySet
  <2>. QED
    BY <1>1, <1>6, <2>1 DEF Copied, Used, Slots
<1>12. Calling'  BY <1>1 DEF Calling
<1>13. NeverLost'  BY <1>1 DEF NeverLost
<1>14. (Valued(keys, vals, cap) /\ Valued(newKeys, newVals, newCap))'
  BY <1>1, <1>6 DEF IInv, Valued, Slots
<1>. QED
  BY <1>1, <1>8, <1>9, <1>10, <1>11, <1>12, <1>13, <1>14
     DEF IInv, Slots

(* The copy of one old slot. *)
LEMMA RehashFinds ==
  ASSUME IInv, pc = "rehash", cursor < cap, NEW k \in Keys
  PROVE  newCap \in Nat \ {0} /\ Finds(newKeys, newCap, k)
<1>1. /\ cap \in Nat \ {0} /\ cursor \in Nat
      /\ newCap = INITIAL_CAPACITY + 2 * cap
      /\ Cardinality(Used(newKeys, 2 * cap)) <= cursor
  BY CapacityPositive DEF IInv, Copied, TypeOK
<1>2. IsFiniteSet(Used(newKeys, 2 * cap))
  <2>1. IsFiniteSet(0 .. 2 * cap - 1)  BY <1>1, FS_Interval
  <2>2. Used(newKeys, 2 * cap) \in SUBSET (0 .. 2 * cap - 1)  BY DEF Used
  <2>. QED  BY <2>1, <2>2, FS_Subset
<1>3. Cardinality(Used(newKeys, 2 * cap)) \in Nat
  BY <1>2, FS_CardinalityType
<1>4. Cardinality(Used(newKeys, 2 * cap)) < 2 * cap
  BY <1>1, <1>3
<1>5. PICK i \in 0 .. 2 * cap - 1 : newKeys[i] = NULL
  BY <1>1, <1>4, EmptySlotExists
<1>6. newCap \in Nat \ {0} /\ i \in 0 .. newCap - 1
  BY <1>1, TableAssumption
<1>. QED  BY <1>5, <1>6, EmptySlotStops

(* Copying a key keeps what has been copied, and keeps it reachable.       *)
LEMMA CopyKeyIInv ==
  ASSUME IInv, Rehash, keys[cursor] \in Keys  PROVE IInv'
<1>. DEFINE k == keys[cursor]
            e == FindEntry(newKeys, newCap, k)
<1>1. /\ pc = "rehash" /\ cursor < cap /\ cursor' = cursor + 1
      /\ UNCHANGED <<keys, vals, cap, size, newCap, pending, got, pc>>
      /\ newKeys' = [newKeys EXCEPT ![e] = k]
      /\ newVals' = [newVals EXCEPT ![e] = vals[cursor]]
      /\ newSize' = newSize + 1
  BY TableAssumption DEF Rehash, table
<1>2. /\ cap \in Nat \ {0} /\ cursor \in Nat /\ cursor \in 0 .. cap - 1
      /\ newCap \in Nat \ {0} /\ newSize \in Nat
      /\ newCap = INITIAL_CAPACITY + 2 * cap
  BY <1>1, CapacityPositive, TableAssumption DEF IInv, TypeOK, Copied
<1>3. k \in Keys /\ Finds(newKeys, newCap, k)
  BY <1>1, RehashFinds
<1>4. /\ Entries(newKeys, newCap) /\ Reachable(newKeys, newCap)
      /\ Reachable(keys, cap)
  BY DEF IInv, TypeOK, Findable
<1>. HIDE DEF k, e
<1>5. /\ e \in 0 .. newCap - 1
      /\ newKeys[e] \in {k, NULL}
      /\ Entries(newKeys', newCap')
      /\ Reachable(newKeys', newCap')
  BY <1>1, <1>2, <1>3, <1>4, InsertKeepsReachable DEF e
<1>6. \A i \in 0 .. newCap - 1 :
        /\ newKeys'[i] = IF i = e THEN k ELSE newKeys[i]
        /\ newVals'[i] = IF i = e THEN vals[cursor] ELSE newVals[i]
  BY <1>1, <1>4, <1>5 DEF IInv, TypeOK, Entries, Slots
<1>7. newKeys[e] = NULL
  <2>1. SUFFICES ASSUME newKeys[e] = k  PROVE FALSE  BY <1>5
  <2>2. PICK i \in 0 .. cursor - 1 : keys[i] = k
    BY <1>1, <1>3, <1>5, <2>1 DEF IInv, Copied, Slots
  <2>3. i \in 0 .. cap - 1 /\ i # cursor  BY <1>2
  <2>. QED  BY <1>2, <1>3, <1>4, <2>2, <2>3, StoredOnce DEF k
<1>8. TypeOK'
  <2>1. vals[cursor] \in Vals \cup {NoValue}
    BY <1>2 DEF IInv, TypeOK, Slots
  <2>2. newVals' \in [0 .. newCap - 1 -> Vals \cup {NoValue}]
    BY <1>1, <1>5, <2>1 DEF IInv, TypeOK, Slots
  <2>. QED
    BY <1>1, <1>2, <1>5, <2>2 DEF IInv, TypeOK, Entries, Slots
<1>9. Findable' /\ SizeCounts'
  BY <1>1, <1>5
     DEF IInv, Findable, SizeCounts, Reachable, Probe, Home, Stored, Slots
<1>10. (newSize = Cardinality(Stored(newKeys, newCap)))'
  <2>1. Cardinality(Stored([newKeys EXCEPT ![e] = k], newCap)) =
          Cardinality(Stored(newKeys, newCap))
            + (IF newKeys[e] = NULL THEN 1 ELSE 0)
    BY <1>2, <1>3, <1>4, <1>5, InsertCounts
  <2>2. Stored(newKeys, newCap)' = Stored([newKeys EXCEPT ![e] = k], newCap)
    BY <1>1 DEF Stored, Slots
  <2>. QED  BY <1>1, <1>7, <2>1, <2>2 DEF IInv
<1>11. (Valued(keys, vals, cap) /\ Valued(newKeys, newVals, newCap))'
  <2>1. vals[cursor] \in Vals
    BY <1>2, <1>3 DEF IInv, Valued, Slots, k
  <2>. QED  BY <1>1, <1>6, <2>1 DEF IInv, Valued, Slots
<1>12. Copied'
  <2>. DEFINE U == Used(newKeys, 2 * cap)
  <2>1. IsFiniteSet(U) /\ Cardinality(U) <= cursor
    <3>1. IsFiniteSet(0 .. 2 * cap - 1)  BY <1>2, FS_Interval
    <3>2. U \in SUBSET (0 .. 2 * cap - 1)  BY DEF Used
    <3>. QED  BY <1>1, <3>1, <3>2, FS_Subset DEF IInv, Copied
  <2>2. Used(newKeys', 2 * cap) \in SUBSET (U \cup {e})
    BY <1>2, <1>6, TableAssumption DEF Used
  <2>. HIDE DEF U
  <2>3. /\ IsFiniteSet(U \cup {e})
        /\ Cardinality(U \cup {e}) \in Nat /\ Cardinality(U) \in Nat
        /\ Cardinality(U \cup {e}) <= cursor + 1
    <3>1. /\ IsFiniteSet(U \cup {e})
          /\ Cardinality(U \cup {e}) =
               IF e \in U THEN Cardinality(U) ELSE Cardinality(U) + 1
      BY <2>1, FS_AddElement
    <3>2. Cardinality(U) \in Nat /\ Cardinality(U \cup {e}) \in Nat
      BY <2>1, <3>1, FS_CardinalityType
    <3>. QED  BY <1>2, <2>1, <3>1, <3>2
  <2>4. Cardinality(Used(newKeys', 2 * cap)) <= cursor + 1
    <3>1. /\ IsFiniteSet(Used(newKeys', 2 * cap))
          /\ Cardinality(Used(newKeys', 2 * cap)) <= Cardinality(U \cup {e})
      BY <2>2, <2>3, FS_Subset
    <3>2. Cardinality(Used(newKeys', 2 * cap)) \in Nat
      BY <3>1, FS_CardinalityType
    <3>. QED  BY <1>2, <2>3, <3>1, <3>2
  <2>5. ASSUME NEW i \in 0 .. cursor, keys[i] \in Keys
        PROVE  \E j \in 0 .. newCap - 1 :
                 newKeys'[j] = keys[i] /\ newVals'[j] = vals[i]
    <3>1. CASE i = cursor  BY <1>5, <1>6, <3>1 DEF k
    <3>2. CASE i # cursor
      <4>1. i \in 0 .. cursor - 1  BY <1>2, <3>2
      <4>2. PICK j \in 0 .. newCap - 1 :
                 newKeys[j] = keys[i] /\ newVals[j] = vals[i]
        BY <1>1, <2>5, <4>1 DEF IInv, Copied, Slots
      <4>3. j # e  BY <1>7, <2>5, <4>2, TableAssumption
      <4>. QED  BY <1>6, <4>2, <4>3
    <3>. QED  BY <3>1, <3>2
  <2>6. ASSUME NEW j \in 0 .. newCap - 1, newKeys'[j] \in Keys
        PROVE  \E i \in 0 .. cursor : keys[i] = newKeys'[j]
    <3>1. CASE j = e  BY <1>2, <1>6, <3>1 DEF k
    <3>2. CASE j # e
      <4>1. newKeys'[j] = newKeys[j]  BY <1>6, <3>2
      <4>2. PICK i \in 0 .. cursor - 1 : keys[i] = newKeys[j]
        BY <1>1, <2>6, <4>1 DEF IInv, Copied, Slots
      <4>. QED  BY <1>2, <4>1, <4>2
    <3>. QED  BY <3>1, <3>2
  <2>7. newSize' <= cursor'  BY <1>1, <1>2 DEF IInv, Copied
  <2>8. 0 .. cursor' - 1 = 0 .. cursor  BY <1>1, <1>2
  <2>. QED  BY <1>1, <1>2, <2>4, <2>5, <2>6, <2>7, <2>8 DEF Copied, Used, Slots
<1>13. (Calling /\ NeverLost)'  BY <1>1 DEF IInv, Calling, NeverLost
<1>. QED
  BY <1>1, <1>8, <1>9, <1>10, <1>11, <1>12, <1>13 DEF IInv

(* An empty slot adds nothing; a junk one ends the program.                *)
LEMMA SkipSlotIInv ==
  ASSUME IInv, Rehash, keys[cursor] \notin Keys  PROVE IInv'
<1>1. /\ pc = "rehash" /\ cursor < cap /\ cursor' = cursor + 1
      /\ UNCHANGED <<keys, vals, cap, size, newCap, pending, got>>
      /\ UNCHANGED <<newKeys, newVals, newSize>>
  BY DEF Rehash, table
<1>2. \/ pc' = pc
      \/ pc' = "undefined" /\ keys[cursor] = Junk
  BY DEF Rehash
<1>3. cap \in Nat \ {0} /\ cursor \in 0 .. cap - 1 /\ newSize \in Nat
  BY <1>1, CapacityPositive DEF IInv, TypeOK
<1>4. TypeOK'
  BY <1>1, <1>2, <1>3 DEF IInv, TypeOK, Entries, Slots
<1>5. Findable' /\ SizeCounts'
  BY <1>1
     DEF IInv, Findable, SizeCounts, Reachable, Probe, Home, Stored, Slots
<1>6. Copied'
  <2>1. \A i \in 0 .. cursor : keys[i] \in Keys => i \in 0 .. cursor - 1
    BY <1>3
  <2>2. 0 .. cursor' - 1 = 0 .. cursor  BY <1>1, <1>3
  <2>3. \A i \in 0 .. cursor - 1 : i \in 0 .. cursor  BY <1>3
  <2>4. newSize <= cursor + 1  BY <1>1, <1>3 DEF IInv, Copied
  <2>5. Cardinality(Used(newKeys, 2 * cap)) <= cursor + 1
    <3>1. IsFiniteSet(0 .. 2 * cap - 1)  BY <1>3, FS_Interval
    <3>2. Used(newKeys, 2 * cap) \in SUBSET (0 .. 2 * cap - 1)  BY DEF Used
    <3>3. Cardinality(Used(newKeys, 2 * cap)) \in Nat
      BY <3>1, <3>2, FS_Subset, FS_CardinalityType
    <3>. QED  BY <1>1, <1>3, <3>3 DEF IInv, Copied
  <2>. QED
    BY <1>1, <2>1, <2>2, <2>3, <2>4, <2>5 DEF IInv, Copied, Used, Slots
<1>7. NeverLost'
  <2>1. Clean => keys[cursor] # Junk  BY <1>3 DEF Clean, Slots
  <2>2. Clean' <=> Clean  BY <1>1 DEF Clean, Slots
  <2>. QED  BY <1>1, <1>2, <2>1, <2>2 DEF NeverLost
<1>8. Calling'  BY <1>1 DEF IInv, Calling
<1>. QED
  BY <1>1, <1>2, <1>4, <1>5, <1>6, <1>7, <1>8
     DEF IInv, Valued, Stored, Slots

(* The rebuilt table has room for the key that made table_set rebuild it.  *)
LEMMA AdoptIInv ==
  ASSUME IInv, Adopt  PROVE IInv'
<1>1. /\ pc = "rehash" /\ cursor = cap /\ pc' = "store"
      /\ keys' = newKeys /\ vals' = newVals
      /\ cap' = newCap /\ size' = newSize
      /\ UNCHANGED <<pending, got>>
      /\ newKeys' = [i \in 0 .. 0 - 1 |-> NULL]
      /\ newVals' = [i \in 0 .. 0 - 1 |-> NULL]
      /\ newCap' = 0 /\ newSize' = 0 /\ cursor' = 0
  BY DEF Adopt, EmptySlots
<1>2. /\ cap \in Nat \ {0} /\ newCap = INITIAL_CAPACITY + 2 * cap
      /\ newSize \in Nat /\ newSize <= cap
      /\ newCap \in Nat /\ newCap > INITIAL_CAPACITY
  BY <1>1, CapacityPositive, TableAssumption DEF IInv, TypeOK, Copied
<1>3. TypeOK'
  <2>1. /\ Entries(newKeys, newCap)
        /\ newVals \in [Slots(newCap) -> Vals \cup {NoValue}]
        /\ got \in Lookups \cup {NoLookup}
        /\ pending \in (Keys \cup {NULL}) \X (Vals \cup {NoValue})
    BY DEF IInv, TypeOK
  <2>2. /\ Entries(newKeys', newCap')
        /\ newVals' \in [Slots(newCap') -> Vals \cup {NoValue}]
    BY <1>1 DEF Entries, Slots, NoValue
  <2>3. cap' \in Nat /\ cap' >= INITIAL_CAPACITY /\ cursor' \in 0 .. cap'
    BY <1>1, <1>2, TableAssumption
  <2>. QED
    BY <1>1, <1>2, <2>1, <2>2, <2>3 DEF TypeOK, Entries, Slots
<1>4. Findable'
  <2>1. Reachable(newKeys', newCap')  BY <1>1 DEF Reachable, Slots
  <2>2. Reachable(keys', cap')  BY <1>1 DEF IInv, Findable
  <2>. QED
    BY <2>1, <2>2 DEF Findable, Reachable, Probe, Home, Slots
<1>5. Stored(keys, cap)' = Stored(newKeys, newCap)
  BY <1>1 DEF Stored, Slots
<1>6. Stored(newKeys, newCap)' = {}  BY <1>1 DEF Stored, Slots
<1>7. SizeCounts' /\ (newSize = Cardinality(Stored(newKeys, newCap)))'
  BY <1>1, <1>5, <1>6, FS_EmptySet DEF IInv, SizeCounts
<1>8. (Valued(keys, vals, cap) /\ Valued(newKeys, newVals, newCap))'
  BY <1>1 DEF IInv, Valued, Slots
<1>9. 4 * (newSize + 1) <= 3 * newCap
  BY <1>2, CapacityPositive, TableAssumption
<1>10. Calling'  BY <1>1 DEF IInv, Calling
<1>11. NeverLost'  BY <1>1 DEF NeverLost
<1>. QED
  BY <1>1, <1>3, <1>4, <1>7, <1>8, <1>9, <1>10, <1>11 DEF IInv

(* table_set's store, where find_entry stopped. *)
LEMMA StoreKeyIInv ==
  ASSUME IInv, Store, Finds(keys, cap, pending[1])  PROVE IInv'
<1>. DEFINE k == pending[1]
            e == FindEntry(keys, cap, k)
<1>1. /\ pc = "store" /\ pc' = "idle" /\ pending' = NoCall
      /\ UNCHANGED <<cap, newKeys, newVals, newCap, newSize, cursor, got>>
      /\ keys' = [keys EXCEPT ![e] = k]
      /\ vals' = [vals EXCEPT ![e] = pending[2]]
      /\ size' = IF keys[e] = NULL THEN size + 1 ELSE size
  BY DEF Store, rebuilt
<1>2. /\ cap \in Nat \ {0} /\ size \in Nat
      /\ k \in Keys /\ pending[2] \in Vals
      /\ 4 * (size + 1) <= 3 * cap
  BY <1>1, CapacityPositive DEF IInv, TypeOK, Calling
<1>3. Entries(keys, cap) /\ Reachable(keys, cap)
  BY DEF IInv, TypeOK, Findable
<1>4. Finds(keys, cap, k)  OBVIOUS
<1>. HIDE DEF k, e
<1>5. /\ e \in 0 .. cap - 1
      /\ keys[e] \in {k, NULL}
      /\ Entries(keys', cap')
      /\ Reachable(keys', cap')
  BY <1>1, <1>2, <1>3, <1>4, InsertKeepsReachable DEF e
<1>6. \A i \in 0 .. cap - 1 :
        /\ keys'[i] = IF i = e THEN k ELSE keys[i]
        /\ vals'[i] = IF i = e THEN pending[2] ELSE vals[i]
  BY <1>1, <1>3, <1>5 DEF IInv, TypeOK, Entries, Slots
<1>7. TypeOK'
  <2>1. vals' \in [0 .. cap - 1 -> Vals \cup {NoValue}]
    BY <1>1, <1>2, <1>5 DEF IInv, TypeOK, Slots
  <2>2. size' \in Nat  BY <1>1, <1>2
  <2>3. pending' \in (Keys \cup {NULL}) \X (Vals \cup {NoValue})
    BY <1>1 DEF NoCall, NoValue
  <2>. QED
    BY <1>1, <1>2, <1>5, <2>1, <2>2, <2>3 DEF IInv, TypeOK, Entries, Slots
<1>8. Findable'
  BY <1>1, <1>5 DEF IInv, Findable, Reachable, Probe, Home, Slots
<1>9. SizeCounts'
  <2>1. Cardinality(Stored([keys EXCEPT ![e] = k], cap)) =
          Cardinality(Stored(keys, cap)) + (IF keys[e] = NULL THEN 1 ELSE 0)
    BY <1>2, <1>3, <1>5, InsertCounts
  <2>2. Stored(keys, cap)' = Stored([keys EXCEPT ![e] = k], cap)
    BY <1>1 DEF Stored, Slots
  <2>. QED  BY <1>1, <1>2, <2>1, <2>2 DEF IInv, SizeCounts
<1>10. (newSize = Cardinality(Stored(newKeys, newCap)))'
  BY <1>1 DEF IInv, Stored, Slots
<1>11. (Valued(keys, vals, cap) /\ Valued(newKeys, newVals, newCap))'
  BY <1>1, <1>2, <1>6 DEF IInv, Valued, Slots
<1>12. 4 * size' <= 3 * cap'  BY <1>1, <1>2
<1>13. NeverLost'  BY <1>1 DEF NeverLost
<1>. QED
  BY <1>1, <1>7, <1>8, <1>9, <1>10, <1>11, <1>12, <1>13 DEF IInv

(* A store that finds no slot leaves the table as it is.                   *)
LEMMA StoreHangIInv ==
  ASSUME IInv, Store, ~Finds(keys, cap, pending[1])  PROVE IInv'
<1>1. /\ pc = "store" /\ pc' = "hang"
      /\ UNCHANGED <<keys, vals, cap, size, pending, newKeys, newVals>>
      /\ UNCHANGED <<newCap, newSize, cursor, got>>
  BY DEF Store, rebuilt
<1>2. ~Clean
  BY <1>1, CleanFinds DEF IInv, Calling
<1>3. TypeOK'
  BY <1>1 DEF IInv, TypeOK, Entries, Slots
<1>4. Findable' /\ SizeCounts'
  BY <1>1
     DEF IInv, Findable, SizeCounts, Reachable, Probe, Home, Stored, Slots
<1>. QED
  BY <1>1, <1>2, <1>3, <1>4 DEF IInv, Valued, Stored, Slots, Clean, NeverLost

(* Every step preserves the invariant.                                     *)
LEMMA NextIInv == IInv /\ [Next]_vars => IInv'
<1>. SUFFICES ASSUME IInv, [Next]_vars  PROVE IInv'
  OBVIOUS
<1>1. ASSUME NEW k \in Keys, Get(k)  PROVE IInv'
  BY <1>1, GetIInv
<1>2. ASSUME NEW k \in Keys, NEW v \in Vals, Set(k, v)  PROVE IInv'
  BY <1>2, SetIInv
<1>3. ASSUME NEW k \in Keys, NEW v \in Vals, Grow(k, v)  PROVE IInv'
  BY <1>3, GrowIInv
<1>4. CASE Rehash   BY <1>4, CopyKeyIInv, SkipSlotIInv
<1>5. CASE Adopt    BY <1>5, AdoptIInv
<1>6. CASE Store    BY <1>6, StoreKeyIInv, StoreHangIInv
<1>8. ASSUME NEW k \in Keys, Search(k)  PROVE IInv'
  BY <1>8, SearchIInv
<1>7. CASE UNCHANGED vars
  <2>1. /\ UNCHANGED <<keys, vals, cap, size, pc, pending>>
        /\ UNCHANGED <<newKeys, newVals, newCap, newSize, cursor, got>>
    BY <1>7 DEF vars, table, rebuilt
  <2>. QED
    BY <2>1
       DEF IInv, TypeOK, Entries, Findable, Reachable, Probe, Home, SizeCounts,
           Stored, Slots, Valued, Calling, Copied, Used, Clean, NeverLost
<1>. QED  BY <1>1, <1>2, <1>3, <1>4, <1>5, <1>6, <1>7, <1>8 DEF Next

(* The inductive invariant holds in every reachable state. *)
THEOREM Invariance == Spec => []IInv
BY InitIInv, NextIInv, PTL DEF Spec

(* Every state is of its type. *)
THEOREM TypeCorrect == Spec => []TypeOK
<1>1. IInv => TypeOK  BY DEF IInv
<1>. QED  BY <1>1, Invariance, PTL

(* Whatever is stored is found, in the table and in the one under          *)
(* construction (find_entry, adjust_capacity).                             *)
THEOREM AlwaysFindable == Spec => []Findable
<1>1. IInv => Findable  BY DEF IInv
<1>. QED  BY <1>1, Invariance, PTL

(* The header's size is the number of stored keys. *)
THEOREM SizeIsExact == Spec => []SizeCounts
<1>1. IInv => SizeCounts  BY DEF IInv
<1>. QED  BY <1>1, Invariance, PTL

(* As long as no slot holds a key nobody wrote, on zeroed memory for ever,  *)
(* no probe goes round for ever and no such key is followed.               *)
THEOREM CleanIsNeverLost == Spec => []NeverLost
<1>1. IInv => NeverLost  BY DEF IInv
<1>. QED  BY <1>1, Invariance, PTL

-----------------------------------------------------------------------------
(* Junk stays in the tail.  TailInv is inductive beside IInv.              *)

(* A table without an empty slot whose load factor holds is the first      *)
(* rebuilt one, with a key in every cleared slot.                          *)
LEMMA FullIsFirstRebuilt ==
  ASSUME IInv, TailInv, pc \in {"idle", "store"},
         \A i \in 0 .. cap - 1 : keys[i] # NULL
  PROVE  cap = 3 * INITIAL_CAPACITY /\ size >= 2 * INITIAL_CAPACITY
<1>1. /\ cap \in Nat \ {0} /\ size \in Nat /\ INITIAL_CAPACITY \in Nat /\ INITIAL_CAPACITY >= 2
      /\ cap >= INITIAL_CAPACITY
  BY CapacityPositive, TableAssumption DEF IInv, TypeOK
<1>2. 4 * size <= 3 * cap  BY <1>1 DEF IInv
<1>. DEFINE C == 0 .. (IF cap = INITIAL_CAPACITY THEN cap ELSE cap - INITIAL_CAPACITY) - 1
            S == Stored(keys, cap)
<1>3. ASSUME NEW i \in C  PROVE i \in S
  <2>1. i \in 0 .. cap - 1 /\ ~InTail(i)  BY <1>1 DEF InTail
  <2>2. keys[i] \in Keys \cup {NULL, Junk}  BY <2>1 DEF IInv, TypeOK, Entries, Slots
  <2>3. keys[i] # Junk  BY <2>1 DEF TailInv, Slots
  <2>. QED  BY <2>1, <2>2, <2>3 DEF Stored, Slots
<1>4. Cardinality(C) = IF cap = INITIAL_CAPACITY THEN cap ELSE cap - INITIAL_CAPACITY
  BY <1>1, FS_Interval
<1>5. IsFiniteSet(S) /\ size = Cardinality(S)
  BY <1>1, CountStored DEF IInv, SizeCounts
<1>6. Cardinality(C) <= size
  <2>. HIDE DEF C, S
  <2>1. C \subseteq S  BY <1>3
  <2>. QED  BY <1>5, <2>1, FS_Subset
<1>. HIDE DEF C, S
<1>7. CASE cap = INITIAL_CAPACITY  BY <1>1, <1>2, <1>4, <1>6, <1>7
<1>8. CASE cap = 3 * INITIAL_CAPACITY  BY <1>1, <1>4, <1>6, <1>8
<1>9. CASE cap >= 7 * INITIAL_CAPACITY  BY <1>1, <1>2, <1>4, <1>6, <1>9
<1>. QED  BY <1>7, <1>8, <1>9 DEF TailInv, Capacity

(* So no other table makes find_entry go round for ever.                   *)
LEMMA HangsWhenFull ==
  ASSUME IInv, TailInv, pc \in {"idle", "store"}, NEW k \in Keys, ~Finds(keys, cap, k)
  PROVE  cap = 3 * INITIAL_CAPACITY /\ size >= 2 * INITIAL_CAPACITY
<1>1. cap \in Nat \ {0}  BY CapacityPositive DEF IInv
<1>2. \A i \in 0 .. cap - 1 : keys[i] # NULL  BY <1>1, EmptySlotStops
<1>. QED  BY <1>2, FullIsFirstRebuilt

(* Steps that change no table, as far as the tail is concerned.            *)
LEMMA TablesStay ==
  ASSUME TailInv, UNCHANGED <<keys, cap, newKeys, newCap>>, LostInTail',
         pc' \in {"idle", "store"} => newCap = 0
  PROVE  TailInv'
BY DEF TailInv, Capacity, InTail, Slots

LEMMA InitTail == Init => TailInv
<1>. SUFFICES ASSUME Init  PROVE TailInv  OBVIOUS
<1>1. /\ cap = INITIAL_CAPACITY /\ newCap = 0 /\ pc = "idle"
      /\ \A i \in 0 .. cap - 1 : keys[i] = NULL
  BY DEF Init, EmptySlots
<1>. QED  BY <1>1, TableAssumption DEF TailInv, Capacity, Slots, LostInTail

LEMMA GetTail ==
  ASSUME IInv, TailInv, NEW k \in Keys, Get(k)  PROVE TailInv'
<1>1. /\ UNCHANGED <<keys, cap, size, newKeys, newCap>>
      /\ pc = "idle" /\ pc' \in {"idle", "hang"}
      /\ pc' = "hang" => ~Finds(keys, cap, k)
  BY DEF Get, table, rebuilt
<1>2. LostInTail'  BY <1>1, HangsWhenFull DEF LostInTail
<1>. QED  BY <1>1, <1>2, TablesStay DEF TailInv

LEMMA SearchTail ==
  ASSUME IInv, TailInv, NEW k \in Keys, Search(k)  PROVE TailInv'
<1>1. /\ UNCHANGED <<keys, cap, size, newKeys, newCap, cursor>>
      /\ pc = "idle" /\ pc' \in {"idle", "hang", "undefined"}
  BY DEF Search, table, rebuilt
<1>2. cap \in Nat \ {0} /\ newCap = 0  BY <1>1, CapacityPositive DEF IInv, TailInv
<1>3. pc' = "hang" => cap = 3 * INITIAL_CAPACITY /\ size >= 2 * INITIAL_CAPACITY
  <2>. SUFFICES ASSUME pc' = "hang"
                PROVE  cap = 3 * INITIAL_CAPACITY /\ size >= 2 * INITIAL_CAPACITY
    OBVIOUS
  <2>1. \A d \in 0 .. cap - 1 : ~Meets(keys, cap, k, d)  BY <1>1 DEF Search
  <2>2. ~Finds(keys, cap, k)  BY <2>1 DEF Finds, Stops, Meets, Like
  <2>. QED  BY <1>1, <2>2, HangsWhenFull
<1>4. ASSUME pc' = "undefined"
      PROVE  \E d \in 0 .. cap - 1 :
               /\ keys[Probe(k, cap, d)] = Junk /\ InTail(Probe(k, cap, d))
               /\ \A e \in 0 .. d - 1 : ~Meets(keys, cap, k, e)
  <2>1. /\ \E d \in 0 .. cap - 1 : Meets(keys, cap, k, d)
        /\ keys[FirstMet(keys, cap, k)] = Junk
    BY <1>1, <1>4 DEF Search
  <2>2. PICK d \in 0 .. cap - 1 :
          /\ FirstMet(keys, cap, k) = Probe(k, cap, d)
          /\ \A e \in 0 .. d - 1 : ~Meets(keys, cap, k, e)
    BY <1>2, <2>1, FirstMetIsFirst
  <2>3. Probe(k, cap, d) \in 0 .. cap - 1  BY <1>2, ProbeInTable
  <2>. QED  BY <2>1, <2>2, <2>3 DEF TailInv, Slots
<1>5. LostInTail'
  <2>1. ASSUME pc' = "undefined"
        PROVE  (\E l \in Keys, d \in 0 .. cap - 1 :
                  /\ keys[Probe(l, cap, d)] = Junk /\ InTail(Probe(l, cap, d))
                  /\ \A e \in 0 .. d - 1 : ~Meets(keys, cap, l, e))'
    <3>1. PICK d \in 0 .. cap - 1 :
            /\ keys[Probe(k, cap, d)] = Junk /\ InTail(Probe(k, cap, d))
            /\ \A e \in 0 .. d - 1 : ~Meets(keys, cap, k, e)
      BY <1>4, <2>1
    <3>2. Probe(k, cap, d)' = Probe(k, cap, d)  BY <1>1 DEF Probe, Home
    <3>3. InTail(Probe(k, cap, d))'  BY <1>1, <3>1, <3>2 DEF InTail
    <3>4. \A e \in 0 .. d - 1 : ~Meets(keys, cap, k, e)'
      BY <1>1, <3>1 DEF Meets, Probe, Home
    <3>. QED  BY <1>1, <3>1, <3>2, <3>3, <3>4
  <2>2. (pc = "hang" => cap = 3 * INITIAL_CAPACITY /\ size >= 2 * INITIAL_CAPACITY)'
    BY <1>1, <1>3
  <2>. QED  BY <1>1, <1>2, <2>1, <2>2 DEF LostInTail
<1>. QED  BY <1>1, <1>2, <1>5, TablesStay

LEMMA SetTail ==
  ASSUME TailInv, NEW k \in Keys, NEW v \in Vals, Set(k, v)  PROVE TailInv'
<1>1. UNCHANGED <<keys, cap, newKeys, newCap>> /\ pc = "idle" /\ pc' = "store"
  BY DEF Set, table, rebuilt
<1>. QED  BY <1>1, TablesStay DEF TailInv, LostInTail

(* The only junk of a new table is in the cells behind those cleared.      *)
LEMMA GrowTail ==
  ASSUME IInv, TailInv, NEW k \in Keys, NEW v \in Vals, Grow(k, v)  PROVE TailInv'
<1>1. /\ UNCHANGED <<keys, cap>> /\ pc' = "rehash"
      /\ newCap' = INITIAL_CAPACITY + 2 * cap
  BY DEF Grow, table
<1>2. cap \in Nat /\ INITIAL_CAPACITY \in Nat
  BY CapacityPositive, TableAssumption DEF IInv
<1>3. ASSUME NEW i \in 0 .. newCap' - 1, newKeys'[i] = Junk
      PROVE  i >= newCap' - INITIAL_CAPACITY
  <2>1. PICK tail : newKeys' = [j \in 0 .. newCap' - 1 |->
                                  IF j < 2 * cap THEN NULL ELSE tail[j]]
    BY DEF Grow
  <2>2. ~(i < 2 * cap)  BY <1>3, <2>1, TableAssumption
  <2>. QED  BY <1>1, <1>2, <2>2
<1>. QED  BY <1>1, <1>3 DEF TailInv, Capacity, InTail, Slots, LostInTail

LEMMA RehashTail ==
  ASSUME IInv, TailInv, Rehash  PROVE TailInv'
<1>1. /\ UNCHANGED <<keys, cap, newCap>> /\ pc = "rehash" /\ cursor' = cursor + 1
      /\ cursor < cap
  BY DEF Rehash, table
<1>2. /\ cap \in Nat \ {0} /\ cursor \in 0 .. cap - 1 /\ INITIAL_CAPACITY \in Nat
      /\ newCap = INITIAL_CAPACITY + 2 * cap /\ newCap \in Nat \ {0}
  BY <1>1, CapacityPositive, TableAssumption DEF IInv, TypeOK, Copied
<1>3. CASE keys[cursor] \in Keys
  <2>. DEFINE e == FindEntry(newKeys, newCap, keys[cursor])
  <2>1. pc' = pc /\ newKeys' = [newKeys EXCEPT ![e] = keys[cursor]]
    BY <1>3, TableAssumption DEF Rehash
  <2>. HIDE DEF e
  <2>2. \A i \in 0 .. newCap - 1 :
          newKeys'[i] = IF i = e THEN keys[cursor] ELSE newKeys[i]
    BY <2>1 DEF IInv, TypeOK, Entries, Slots
  <2>3. \A i \in 0 .. newCap - 1 : newKeys'[i] = Junk => newKeys[i] = Junk
    BY <1>3, <2>2, TableAssumption
  <2>. QED  BY <1>1, <2>1, <2>3 DEF TailInv, Capacity, InTail, Slots, LostInTail
<1>4. CASE keys[cursor] = NULL
  <2>1. pc' = pc /\ newKeys' = newKeys  BY <1>4, TableAssumption DEF Rehash
  <2>. QED  BY <1>1, <2>1 DEF TailInv, Capacity, InTail, Slots, LostInTail
<1>5. CASE keys[cursor] = Junk
  <2>1. pc' = "undefined" /\ newKeys' = newKeys  BY <1>5, TableAssumption DEF Rehash
  <2>2. InTail(cursor)  BY <1>2, <1>5 DEF TailInv, Slots
  <2>3. cursor' > 0 /\ cursor' - 1 = cursor  BY <1>1, <1>2
  <2>4. LostInTail'  BY <1>1, <1>2, <1>5, <2>1, <2>2, <2>3 DEF LostInTail, InTail
  <2>. QED  BY <1>1, <2>1, <2>4, TablesStay
<1>. QED  BY <1>2, <1>3, <1>4, <1>5 DEF IInv, TypeOK, Entries, Slots

(* The table adopted is of the next capacity.                              *)
LEMMA AdoptTail ==
  ASSUME IInv, TailInv, Adopt  PROVE TailInv'
<1>1. /\ pc = "rehash" /\ pc' = "store" /\ keys' = newKeys /\ cap' = newCap
      /\ newCap' = 0
  BY DEF Adopt
<1>2. /\ cap \in Nat /\ INITIAL_CAPACITY \in Nat /\ INITIAL_CAPACITY >= 2
      /\ newCap = INITIAL_CAPACITY + 2 * cap
  BY <1>1, CapacityPositive, TableAssumption DEF IInv, Copied
<1>3. Capacity' /\ cap' > INITIAL_CAPACITY
  <2>1. CASE cap = INITIAL_CAPACITY  BY <1>1, <1>2, <2>1 DEF Capacity
  <2>2. CASE cap = 3 * INITIAL_CAPACITY  BY <1>1, <1>2, <2>2 DEF Capacity
  <2>3. CASE cap >= 7 * INITIAL_CAPACITY  BY <1>1, <1>2, <2>3 DEF Capacity
  <2>. QED  BY <2>1, <2>2, <2>3 DEF TailInv, Capacity
<1>4. \A i \in 0 .. cap' - 1 : keys'[i] = Junk => InTail(i)'
  BY <1>1, <1>3 DEF TailInv, InTail, Slots
<1>. QED  BY <1>1, <1>3, <1>4 DEF TailInv, Slots, LostInTail

LEMMA StoreTail ==
  ASSUME IInv, TailInv, Store  PROVE TailInv'
<1>. DEFINE k == pending[1]
            e == FindEntry(keys, cap, k)
<1>1. /\ pc = "store" /\ UNCHANGED <<cap, newKeys, newCap>> /\ k \in Keys
  BY DEF Store, rebuilt, IInv, Calling
<1>2. CASE Finds(keys, cap, k)
  <2>1. pc' = "idle" /\ keys' = [keys EXCEPT ![e] = k]  BY <1>2 DEF Store
  <2>. HIDE DEF e, k
  <2>2. \A i \in 0 .. cap - 1 : keys'[i] = IF i = e THEN k ELSE keys[i]
    BY <2>1 DEF IInv, TypeOK, Entries, Slots
  <2>3. \A i \in 0 .. cap - 1 : keys'[i] = Junk => keys[i] = Junk
    BY <1>1, <2>2, TableAssumption
  <2>. QED  BY <1>1, <2>1, <2>3 DEF TailInv, Capacity, InTail, Slots, LostInTail
<1>3. CASE ~Finds(keys, cap, k)
  <2>1. pc' = "hang" /\ UNCHANGED <<keys, size>>  BY <1>3 DEF Store
  <2>2. cap = 3 * INITIAL_CAPACITY /\ size >= 2 * INITIAL_CAPACITY
    BY <1>1, <1>3, HangsWhenFull
  <2>3. LostInTail'  BY <1>1, <2>1, <2>2 DEF LostInTail
  <2>. QED  BY <1>1, <2>1, <2>3, TablesStay
<1>. QED  BY <1>2, <1>3

LEMMA NextTail == IInv /\ TailInv /\ [Next]_vars => TailInv'
<1>. SUFFICES ASSUME IInv, TailInv, [Next]_vars  PROVE TailInv'  OBVIOUS
<1>1. ASSUME NEW k \in Keys, Get(k) \/ Search(k)  PROVE TailInv'
  BY <1>1, GetTail, SearchTail
<1>2. ASSUME NEW k \in Keys, NEW v \in Vals, Set(k, v) \/ Grow(k, v)  PROVE TailInv'
  BY <1>2, SetTail, GrowTail
<1>3. CASE Rehash \/ Adopt \/ Store  BY <1>3, RehashTail, AdoptTail, StoreTail
<1>4. CASE UNCHANGED vars
  BY <1>4 DEF vars, table, rebuilt, TailInv, Capacity, InTail, Slots, LostInTail,
              Probe, Home, Meets, Like
<1>. QED  BY <1>1, <1>2, <1>3, <1>4 DEF Next

(* Whatever the allocator returns: an uninitialised key is followed by a   *)
(* search whose chain enters the tail, or by a rebuild that has come to    *)
(* it, and only the first rebuilt table can be probed for ever             *)
(* (table.c:16-25, 30-51, 139-156).                                        *)
THEOREM TailIsWhatIsLost == Spec => []LostInTail
<1>1. Init => TailInv  BY InitTail
<1>2. TailInv => LostInTail  BY DEF TailInv
<1>. QED  BY <1>1, <1>2, NextTail, Invariance, PTL DEF Spec

-----------------------------------------------------------------------------
(* The table implements a map. *)

MapValue(k) == IF Holds(k) = {} THEN NoValue
               ELSE vals[CHOOSE i \in Holds(k) : TRUE]

(* The map's value at k, for a key that is stored at slot i. *)
LEMMA MapValueAt ==
  ASSUME IInv, NEW k \in Keys, NEW i \in 0 .. cap - 1, keys[i] = k
  PROVE  MapValue(k) = vals[i]
<1>1. i \in Holds(k)  BY DEF Holds, Slots
<1>2. \A j \in Holds(k) : j = i
  BY StoredOnce, CapacityPositive DEF Holds, Slots, IInv, Findable
<1>. QED  BY <1>1, <1>2 DEF MapValue

(* A key in no slot has no value.                                          *)
LEMMA MapValueNowhere ==
  ASSUME NEW k, \A i \in 0 .. cap - 1 : keys[i] # k
  PROVE  MapValue(k) = NoValue
BY DEF MapValue, Holds, Slots

(* A lookup answers the key's value in the map.                            *)
LEMMA GetImplementsGet ==
  ASSUME IInv, NEW k \in Keys, Get(k)
  PROVE  got' = <<"get", k, MapValue(k)>> \/ got' = got
<1>1. CASE size = 0
  <2>1. IsFiniteSet(Stored(keys, cap)) /\ Cardinality(Stored(keys, cap)) = 0
    BY <1>1, CountStored DEF IInv, SizeCounts, TypeOK
  <2>2. Stored(keys, cap) = {}  BY <2>1, FS_EmptySet
  <2>3. \A i \in 0 .. cap - 1 : keys[i] # k
    BY <2>2 DEF Stored, Slots
  <2>. QED  BY <1>1, <2>3, MapValueNowhere DEF Get
<1>2. CASE size # 0 /\ Finds(keys, cap, k)
  <2>. DEFINE e == FindEntry(keys, cap, k)
  <2>1. got' = <<"get", k, IF keys[e] = k THEN vals[e] ELSE NoValue>>
    BY <1>2 DEF Get
  <2>2. e \in 0 .. cap - 1 /\ keys[e] \in {k, NULL}
    BY <1>2, CapacityPositive, InsertKeepsReachable
       DEF IInv, TypeOK, Findable
  <2>3. CASE keys[e] = k
    BY <2>1, <2>2, <2>3, MapValueAt
  <2>4. CASE keys[e] # k
    <3>1. \A i \in 0 .. cap - 1 : keys[i] # k
      BY <1>2, <2>4, FindEntryDecides, CapacityPositive DEF IInv, Findable
    <3>. QED  BY <2>1, <2>4, <3>1, MapValueNowhere
  <2>. QED  BY <2>3, <2>4
<1>3. CASE size # 0 /\ ~Finds(keys, cap, k)
  BY <1>3 DEF Get
<1>. QED  BY <1>1, <1>2, <1>3

(* A search answers a stored string of the same characters, if any.        *)
LEMMA SearchImplementsSearch ==
  ASSUME IInv, NEW k \in Keys, Search(k)
  PROVE  LET Twins == {l \in Keys : MapValue(l) # NoValue /\ Content[l] = Content[k]}
         IN  \/ /\ pc' = "idle"
                /\ \E l \in IF Twins = {} THEN {NoValue} ELSE Twins :
                     got' = <<"find", k, l>>
             \/ pc' \in {"undefined", "hang"} /\ got' = got
<1>. DEFINE Twins == {l \in Keys : MapValue(l) # NoValue /\ Content[l] = Content[k]}
<1>1. ASSUME NEW l \in Keys, MapValue(l) # NoValue
      PROVE  \E i \in 0 .. cap - 1 : keys[i] = l
  BY <1>1, MapValueNowhere
<1>2. CASE size = 0
  <2>1. IsFiniteSet(Stored(keys, cap)) /\ Cardinality(Stored(keys, cap)) = 0
    BY <1>2, CountStored DEF IInv, SizeCounts, TypeOK
  <2>2. Stored(keys, cap) = {}  BY <2>1, FS_EmptySet
  <2>3. \A l \in Keys : \A i \in 0 .. cap - 1 : keys[i] # l
    BY <2>2 DEF Stored, Slots
  <2>4. Twins = {}  BY <1>1, <2>3
  <2>5. got' = <<"find", k, NoValue>> /\ pc' = "idle"  BY <1>2 DEF Search, NoValue
  <2>. QED  BY <2>4, <2>5
<1>3. CASE size # 0 /\ \E d \in 0 .. cap - 1 : Meets(keys, cap, k, d)
  <2>. DEFINE met == keys[FirstMet(keys, cap, k)]
  <2>1. PICK d \in 0 .. cap - 1 :
             /\ FirstMet(keys, cap, k) = Probe(k, cap, d)
             /\ Meets(keys, cap, k, d)
             /\ \A e \in 0 .. d - 1 : ~Meets(keys, cap, k, e)
    BY <1>3, CapacityPositive, FirstMetIsFirst DEF IInv
  <2>2. met \in Like(k) \cup {NULL, Junk}  BY <2>1 DEF Meets
  <2>3. Probe(k, cap, d) \in 0 .. cap - 1
    BY CapacityPositive, ProbeInTable DEF IInv
  <2>4. CASE met = Junk
    BY <1>3, <2>4 DEF Search
  <2>5. CASE met \in Like(k)
    <3>1. met \in Keys /\ Content[met] = Content[k]  BY <2>5 DEF Like
    <3>2. MapValue(met) = vals[Probe(k, cap, d)]
      BY <2>1, <2>3, <3>1, MapValueAt
    <3>3. MapValue(met) # NoValue
      <4>1. vals[Probe(k, cap, d)] \in Vals
        BY <2>1, <2>3, <3>1 DEF IInv, Valued, Slots
      <4>. QED  BY <3>2, <4>1, TableAssumption DEF NoValue
    <3>4. met \in Twins  BY <3>1, <3>3
    <3>5. got' = <<"find", k, met>> /\ pc' = "idle"
      BY <1>3, <3>1, TableAssumption DEF Search
    <3>. QED  BY <3>4, <3>5
  <2>6. CASE met = NULL
    <3>1. ASSUME NEW l \in Twins  PROVE FALSE
      <4>1. l \in Keys /\ Content[l] = Content[k] /\ Hash[l] = Hash[k]
        BY TableAssumption
      <4>2. PICK i \in 0 .. cap - 1 : keys[i] = l  BY <1>1, <3>1
      <4>3. PICK x \in 0 .. cap - 1 : Probe(l, cap, x) = i
        BY <4>1, ProbeAll, CapacityPositive DEF IInv
      <4>4. Probe(l, cap, d) = Probe(k, cap, d) /\ Probe(l, cap, x) = Probe(k, cap, x)
        BY <4>1 DEF Probe, Home
      <4>5. ~(d < x)
        <5>1. d < x => d \in 0 .. x - 1  OBVIOUS
        <5>2. d < x => keys[Probe(l, cap, d)] # NULL
          BY <4>1, <4>2, <4>3, <5>1 DEF IInv, Findable, Reachable, Slots
        <5>. QED  BY <2>1, <2>6, <4>4, <5>2
      <4>6. ~(x < d)
        <5>1. x < d => x \in 0 .. d - 1  OBVIOUS
        <5>2. Meets(keys, cap, k, x)
          BY <4>1, <4>2, <4>3, <4>4 DEF Meets, Like
        <5>. QED  BY <2>1, <5>1, <5>2
      <4>7. d = x  BY <4>5, <4>6
      <4>. QED  BY <2>1, <2>6, <4>1, <4>2, <4>3, <4>4, <4>7, TableAssumption
    <3>2. got' = <<"find", k, NoValue>> /\ pc' = "idle"
      BY <1>3, <2>6, TableAssumption DEF Search, NoValue
    <3>3. Twins = {}  BY <3>1
    <3>. QED  BY <3>2, <3>3
  <2>. QED  BY <2>2, <2>4, <2>5, <2>6
<1>4. CASE size # 0 /\ \A d \in 0 .. cap - 1 : ~Meets(keys, cap, k, d)
  BY <1>4 DEF Search
<1>. QED  BY <1>2, <1>3, <1>4

(* Adopting the rebuilt table changes no answer. *)
LEMMA AdoptChangesNoAnswer ==
  ASSUME IInv, IInv', Adopt, NEW k \in Keys
  PROVE  MapValue(k)' = MapValue(k)
<1>1. /\ pc = "rehash" /\ cursor = cap
      /\ keys' = newKeys /\ vals' = newVals /\ cap' = newCap
  BY DEF Adopt
<1>2. Copied  BY <1>1 DEF IInv
<1>3. CASE \E i \in 0 .. cap - 1 : keys[i] = k
  <2>1. PICK i \in 0 .. cap - 1 : keys[i] = k  BY <1>3
  <2>2. PICK j \in 0 .. newCap - 1 : newKeys[j] = k /\ newVals[j] = vals[i]
    BY <1>1, <1>2, <2>1 DEF Copied, Slots
  <2>3. MapValue(k) = vals[i]  BY <2>1, MapValueAt
  <2>4. j \in Holds(k)'  BY <1>1, <2>2 DEF Holds, Slots
  <2>5. \A m \in Holds(k)' : m = j
    <3>1. Reachable(newKeys, newCap) /\ newCap \in Nat \ {0}
      BY <2>2 DEF IInv, Findable, TypeOK
    <3>2. \A m \in Holds(k)' : m \in 0 .. newCap - 1 /\ newKeys[m] = k
      BY <1>1 DEF Holds, Slots
    <3>. QED  BY <2>2, <3>1, <3>2, StoredOnce
  <2>6. MapValue(k)' = vals'[j]  BY <2>4, <2>5 DEF MapValue
  <2>. QED  BY <1>1, <2>2, <2>3, <2>6
<1>4. CASE \A i \in 0 .. cap - 1 : keys[i] # k
  <2>1. \A j \in 0 .. newCap - 1 : newKeys[j] # k
    BY <1>1, <1>2, <1>4 DEF Copied, Slots
  <2>2. Holds(k)' = {}  BY <1>1, <2>1 DEF Holds, Slots
  <2>3. MapValue(k)' = NoValue  BY <2>2 DEF MapValue, NoValue
  <2>. QED  BY <1>4, <2>3, MapValueNowhere
<1>. QED  BY <1>3, <1>4

(* The store changes the answer for its own key only. *)
LEMMA StoreImplementsSet ==
  ASSUME IInv, Store, Finds(keys, cap, pending[1]), NEW m \in Keys
  PROVE  MapValue(m)' = IF m = pending[1] THEN pending[2] ELSE MapValue(m)
<1>. DEFINE k == pending[1]
            e == FindEntry(keys, cap, k)
<1>1. /\ pc = "store" /\ cap' = cap
      /\ keys' = [keys EXCEPT ![e] = k]
      /\ vals' = [vals EXCEPT ![e] = pending[2]]
  BY DEF Store
<1>2. cap \in Nat \ {0} /\ k \in Keys
  BY <1>1, CapacityPositive DEF IInv, Calling
<1>3. Entries(keys, cap) /\ Reachable(keys, cap) /\ Finds(keys, cap, k)
  BY DEF IInv, TypeOK, Findable
<1>. HIDE DEF k, e
<1>4. e \in 0 .. cap - 1 /\ keys[e] \in {k, NULL}
  BY <1>2, <1>3, InsertKeepsReachable DEF e
<1>5. \A i \in 0 .. cap - 1 :
        /\ keys'[i] = IF i = e THEN k ELSE keys[i]
        /\ vals'[i] = IF i = e THEN pending[2] ELSE vals[i]
  BY <1>1, <1>3, <1>4 DEF IInv, TypeOK, Entries, Slots
<1>6. CASE m = k
  <2>1. Holds(m)' = {e}
    <3>1. \A i \in 0 .. cap - 1 : keys[i] = k => i = e
      BY <1>2, <1>3, FindEntryDecides DEF e
    <3>. QED  BY <1>1, <1>4, <1>5, <1>6, <3>1 DEF Holds, Slots
  <2>2. MapValue(m)' = vals'[e]  BY <2>1 DEF MapValue
  <2>. QED  BY <1>4, <1>5, <1>6, <2>2 DEF k
<1>7. CASE m # k
  <2>1. \A i \in 0 .. cap - 1 : keys'[i] = m <=> keys[i] = m
    BY <1>4, <1>5, <1>7, TableAssumption
  <2>2. Holds(m)' = Holds(m)  BY <1>1, <2>1 DEF Holds, Slots
  <2>3. \A i \in Holds(m) : vals'[i] = vals[i]
    BY <1>4, <1>5, <1>7, TableAssumption DEF Holds, Slots
  <2>4. MapValue(m)' = MapValue(m)
    <3>1. CASE Holds(m) = {}  BY <2>2, <3>1 DEF MapValue, NoValue
    <3>2. CASE Holds(m) # {}
      <4>1. (CHOOSE i \in Holds(m) : TRUE) \in Holds(m)  BY <3>2
      <4>. QED  BY <2>2, <2>3, <3>2, <4>1 DEF MapValue
    <3>. QED  BY <3>1, <3>2
  <2>. QED  BY <1>7, <2>4 DEF k
<1>. QED  BY <1>6, <1>7

(* The empty table is the empty map.                                       *)
LEMMA InitImplementsInit == Init => Map!Init
<1>. SUFFICES ASSUME Init  PROVE Map!Init  OBVIOUS
<1>1. keys = [i \in 0 .. cap - 1 |-> NULL] /\ got = NoValue
  BY DEF Init, EmptySlots, NoLookup, NoValue
<1>2. \A k \in Keys : Holds(k) = {}
  BY <1>1, TableAssumption DEF Holds, Slots
<1>3. pending = Map!NoCall  BY DEF Init, NoCall, NoValue, Map!NoCall
<1>. QED  BY <1>1, <1>2, <1>3 DEF Map!Init

(* Every step of the table is a step of the map or leaves it alone: the    *)
(* call begins with Set or Grow and takes effect with Store.               *)
LEMMA StepImplementsStep ==
  IInv /\ IInv' /\ [Next]_vars => [Map!Next]_Map!vars
<1>. DEFINE map == [k \in Keys |-> MapValue(k)]
            Twins(k) == {l \in Keys : map[l] # NoValue /\ Content[l] = Content[k]}
            Answers(k) ==
              \/ /\ got' = <<"find", k, NoValue>>
                 /\ \A l \in Keys : Content[l] = Content[k] => map[l] = NoValue
              \/ \E l \in Keys : /\ got' = <<"find", k, l>>
                                 /\ Content[l] = Content[k] /\ map[l] # NoValue
<1>. SUFFICES ASSUME IInv, IInv', [Next]_vars
              PROVE  \/ \E k \in Keys :
                          \/ pending = NoCall /\ got' = <<"get", k, map[k]>>
                             /\ map' = map /\ pending' = pending
                          \/ pending = NoCall /\ Answers(k)
                             /\ map' = map /\ pending' = pending
                          \/ \E v \in Vals :
                               pending = NoCall /\ pending' = <<k, v>>
                               /\ map' = map /\ got' = NoLookup
                     \/ pending # NoCall
                        /\ map' = [map EXCEPT ![pending[1]] = pending[2]]
                        /\ pending' = NoCall /\ got' = got
                     \/ map' = map /\ pending' = pending /\ got' = got
  BY DEF Map!Next, Map!Get, Map!Search, Map!Set, Map!Apply, Map!vars, Map!NoCall,
         MapValue, NoCall, NoValue, NoLookup
<1>1. ASSUME UNCHANGED <<keys, vals, cap>>  PROVE map' = map
  BY <1>1 DEF MapValue, Holds, Slots
<1>2. ASSUME NEW k \in Keys, Get(k)
      PROVE  /\ pending = NoCall /\ pending' = pending /\ map' = map
             /\ got' = <<"get", k, map[k]>> \/ got' = got
  <2>1. map' = map  BY <1>1, <1>2 DEF Get, table
  <2>2. pending = NoCall /\ pending' = pending  BY <1>2 DEF Get, IInv
  <2>. QED  BY <1>2, <2>1, <2>2, GetImplementsGet
<1>3. ASSUME NEW k \in Keys, NEW v \in Vals, Set(k, v) \/ Grow(k, v)
      PROVE  /\ pending = NoCall /\ pending' = <<k, v>>
             /\ map' = map /\ got' = NoLookup
  <2>1. map' = map  BY <1>1, <1>3 DEF Set, Grow, table
  <2>2. pending = NoCall  BY <1>3 DEF Set, Grow, IInv
  <2>. QED  BY <1>3, <2>1, <2>2 DEF Set, Grow
<1>4. ASSUME Rehash  PROVE map' = map /\ pending' = pending /\ got' = got
  BY <1>1, <1>4 DEF Rehash, table
<1>5. ASSUME Adopt  PROVE map' = map /\ pending' = pending /\ got' = got
  <2>1. got' = got /\ pending' = pending  BY <1>5 DEF Adopt
  <2>2. \A k \in Keys : MapValue(k)' = MapValue(k)
    BY <1>5, AdoptChangesNoAnswer
  <2>. QED  BY <2>1, <2>2
<1>6. ASSUME Store, ~Finds(keys, cap, pending[1])
      PROVE  map' = map /\ pending' = pending /\ got' = got
  BY <1>1, <1>6 DEF Store
<1>7. ASSUME Store, Finds(keys, cap, pending[1])
      PROVE  /\ pending # NoCall
             /\ map' = [map EXCEPT ![pending[1]] = pending[2]]
             /\ pending' = NoCall /\ got' = got
  <2>1. pending[1] \in Keys /\ pending' = NoCall /\ got' = got
    BY <1>7 DEF Store, IInv, Calling
  <2>2. pending # NoCall
    BY <2>1, TableAssumption DEF NoCall
  <2>3. \A m \in Keys : MapValue(m)' =
          IF m = pending[1] THEN pending[2] ELSE MapValue(m)
    BY <1>7, StoreImplementsSet
  <2>4. map' = [map EXCEPT ![pending[1]] = pending[2]]
    BY <2>1, <2>3
  <2>. QED  BY <2>1, <2>2, <2>4
<1>8. ASSUME UNCHANGED vars
      PROVE  map' = map /\ pending' = pending /\ got' = got
  BY <1>1, <1>8 DEF vars, table
<1>9. ASSUME NEW k \in Keys, Search(k)
      PROVE  /\ pending = NoCall /\ pending' = pending /\ map' = map
             /\ Answers(k) \/ got' = got
  <2>1. map' = map  BY <1>1, <1>9 DEF Search, table
  <2>2. pending = NoCall /\ pending' = pending  BY <1>9 DEF Search, IInv
  <2>3. Twins(k) = {l \in Keys : MapValue(l) # NoValue /\ Content[l] = Content[k]}
    OBVIOUS
  <2>4. \/ pc' = "idle" /\ \E l \in IF Twins(k) = {} THEN {NoValue} ELSE Twins(k) :
                                 got' = <<"find", k, l>>
        \/ pc' \in {"undefined", "hang"} /\ got' = got
    BY <1>9, <2>3, SearchImplementsSearch
  <2>5. CASE Twins(k) = {} /\ got' = <<"find", k, NoValue>>
    <3>1. \A l \in Keys : Content[l] = Content[k] => map[l] = NoValue  BY <2>5
    <3>. QED  BY <2>1, <2>2, <2>5, <3>1
  <2>6. CASE \E l \in Twins(k) : got' = <<"find", k, l>>
    <3>1. PICK l \in Keys : /\ got' = <<"find", k, l>>
                            /\ Content[l] = Content[k] /\ map[l] # NoValue
      BY <2>6
    <3>. QED  BY <2>1, <2>2, <3>1
  <2>7. CASE got' = got  BY <2>1, <2>2, <2>7
  <2>. HIDE DEF map
  <2>. QED  BY <2>4, <2>5, <2>6, <2>7
<1>. HIDE DEF map, Answers
<1>. QED  BY <1>2, <1>3, <1>4, <1>5, <1>6, <1>7, <1>8, <1>9 DEF Next

(* Every behaviour of the table is one of a map: lookups answer the last   *)
(* value stored, however often the table was rebuilt in between.           *)
THEOREM Refinement == Spec => RefinesMap
<1>1. Init => Map!Init  BY InitImplementsInit
<1>2. IInv /\ IInv' /\ [Next]_vars => [Map!Next]_Map!vars
  BY StepImplementsStep
<1>. QED  BY <1>1, <1>2, Invariance, PTL DEF Spec, RefinesMap, Map!Spec

-----------------------------------------------------------------------------
(* The strings. *)


(* What is stored is what has a value.                                     *)
LEMMA InternedHasValue ==
  ASSUME IInv, NEW k \in Keys
  PROVE  k \in Interned <=> MapValue(k) # NoValue
<1>1. CASE \E i \in 0 .. cap - 1 : keys[i] = k
  <2>1. PICK i \in 0 .. cap - 1 : keys[i] = k  BY <1>1
  <2>2. MapValue(k) = vals[i]  BY <2>1, MapValueAt
  <2>3. vals[i] \in Vals  BY <2>1 DEF IInv, Valued, Slots
  <2>4. k \in Interned  BY <2>1 DEF Interned, Slots
  <2>. QED  BY <2>2, <2>3, <2>4, TableAssumption DEF NoValue
<1>2. CASE \A i \in 0 .. cap - 1 : keys[i] # k
  <2>1. MapValue(k) = NoValue  BY <1>2, MapValueNowhere
  <2>. QED  BY <1>2, <2>1 DEF Interned, Slots
<1>. QED  BY <1>1, <1>2

(* The stored strings are those in the table's slots.                      *)
LEMMA InternedKept ==
  ASSUME keys' = keys, cap' = cap  PROVE Interned' = Interned
BY DEF Interned, Slots

(* table_find_string does not return, or answers a stored string of the    *)
(* characters asked for, if there is one.                                  *)
LEMMA SearchAnswers ==
  ASSUME IInv, NEW k \in Keys, Search(k)
  PROVE  /\ Interned' = Interned /\ pending' = pending /\ pc = "idle"
         /\ \/ /\ pc' = "idle"
               /\ \E s \in IF Alike(k) = {} THEN {NULL} ELSE Alike(k) :
                    got' = <<"find", k, s>>
            \/ pc' \in {"undefined", "hang"}
<1>1. Interned' = Interned /\ pending' = pending /\ pc = "idle"
  BY InternedKept DEF Search, table
<1>. DEFINE Valuable == {l \in Keys : MapValue(l) # NoValue /\ Content[l] = Content[k]}
<1>2. Valuable = Alike(k)
  BY InternedHasValue DEF Alike, Like, Interned
<1>3. \/ /\ pc' = "idle"
         /\ \E l \in IF Valuable = {} THEN {NoValue} ELSE Valuable :
              got' = <<"find", k, l>>
      \/ pc' \in {"undefined", "hang"}
  BY SearchImplementsSearch
<1>. HIDE DEF Valuable
<1>. QED  BY <1>1, <1>2, <1>3 DEF NoValue

(* table_set, up to the store or the rebuilding, stores nothing.           *)
LEMMA SetOrGrowBegins ==
  ASSUME NEW k, NEW v, SetOrGrow(k, v)
  PROVE  /\ pc = "idle" /\ pc' \in {"store", "rehash"}
         /\ pending' = <<k, v>> /\ Interned' = Interned
BY InternedKept DEF SetOrGrow, Set, Grow, table

(* Rebuilding the table keeps what is stored.                              *)
LEMMA RebuildKeeps ==
  ASSUME IInv, IInv', Rehash \/ Adopt
  PROVE  /\ pc = "rehash" /\ pc' \in {"rehash", "store", "undefined"}
         /\ pending' = pending /\ Interned' = Interned
<1>1. CASE Rehash
  BY <1>1, InternedKept DEF Rehash, table
<1>2. CASE Adopt
  <2>1. pc = "rehash" /\ pc' = "store" /\ pending' = pending /\ cursor = cap
        /\ keys' = newKeys /\ cap' = newCap
    BY <1>2 DEF Adopt
  <2>2. Copied  BY <2>1 DEF IInv
  <2>3. ASSUME NEW k \in Keys
        PROVE  (\E i \in 0 .. cap - 1 : keys[i] = k)
               <=> (\E j \in 0 .. newCap - 1 : newKeys[j] = k)
    BY <2>1, <2>2 DEF Copied, Slots
  <2>4. Interned' = Interned
    BY <2>1, <2>3 DEF Interned, Slots
  <2>. QED  BY <2>1, <2>4
<1>. QED  BY <1>1, <1>2

(* The store does not return, or it has stored the string.                 *)
LEMMA StoreInterns ==
  ASSUME IInv, Store
  PROVE  /\ pc = "store" /\ pending[1] \in Keys
         /\ \/ pc' = "idle" /\ pending' = NoCall
               /\ Interned' = Interned \cup {pending[1]}
            \/ pc' = "hang" /\ pending' = pending /\ Interned' = Interned
<1>1. pc = "store" /\ pending[1] \in Keys
  BY DEF Store, IInv, Calling
<1>2. CASE Finds(keys, cap, pending[1])
  <2>. DEFINE e == FindEntry(keys, cap, pending[1])
  <2>1. pc' = "idle" /\ pending' = NoCall /\ cap' = cap
        /\ keys' = [keys EXCEPT ![e] = pending[1]]
    BY <1>2 DEF Store
  <2>2. e \in 0 .. cap - 1 /\ keys[e] \in {pending[1], NULL}
    BY <1>1, <1>2, CapacityPositive, InsertKeepsReachable
       DEF IInv, TypeOK, Findable
  <2>. HIDE DEF e
  <2>3. \A i \in 0 .. cap - 1 :
          keys'[i] = IF i = e THEN pending[1] ELSE keys[i]
    BY <2>1, <2>2 DEF IInv, TypeOK, Entries, Slots
  <2>4. \A k \in Keys : k \in Interned' <=> k \in Interned \/ k = pending[1]
    <3>. SUFFICES ASSUME NEW k \in Keys
                  PROVE (\E i \in 0 .. cap - 1 : keys'[i] = k)
                        <=> (\E i \in 0 .. cap - 1 : keys[i] = k) \/ k = pending[1]
      BY <2>1 DEF Interned, Slots
    <3>1. ASSUME NEW i \in 0 .. cap - 1, keys[i] = k
          PROVE  \E j \in 0 .. cap - 1 : keys'[j] = k
      BY <2>2, <2>3, <3>1, TableAssumption
    <3>2. keys'[e] = pending[1]  BY <2>2, <2>3
    <3>. QED  BY <2>2, <2>3, <3>1, <3>2
  <2>5. Interned \subseteq Keys /\ Interned' \subseteq Keys  BY DEF Interned
  <2>. QED  BY <1>1, <2>1, <2>4, <2>5
<1>3. CASE ~Finds(keys, cap, pending[1])
  BY <1>1, <1>3, InternedKept DEF Store
<1>. QED  BY <1>2, <1>3

-----------------------------------------------------------------------------
(* Every step of Strings is one of the table or leaves it alone.           *)

(* The strings that are looked up by are strings.                          *)
LEMMA SamplesAreKeys == Samples \subseteq Keys
BY DEF Samples, Like

(* The requests of Ask, one by one.                                        *)
LEMMA AskBegins ==
  ASSUME Ask
  PROVE  /\ call = NoRequest /\ pc = "idle"
         /\ \/ \E k \in Keys : CopyString(k)
            \/ \E s \in Interned : Literal(s) \/ NameConstant(s)
            \/ \E s \in Keys, t \in Keys, k \in Keys : Concatenate(s, t, k)
            \/ \E s \in Keys, k \in Keys, n \in 1 .. MaxCount : Multiply(s, n, k)
<1>1. Interned \subseteq Keys  BY DEF Interned
<1>. QED  BY <1>1, SamplesAreKeys DEF Ask

(* concatenate and malloc make a string like the one asked for.            *)
LEMMA NewObjectIsNew ==
  ASSUME NEW k \in Keys, Like(k) \ objects # {}
  PROVE  /\ NewObject(k) \in Keys /\ NewObject(k) \notin objects
         /\ NewObject(k) \in Like(k) /\ Like(NewObject(k)) = Like(k)
<1>1. NewObject(k) \in Like(k) \ objects  BY DEF NewObject
<1>. QED  BY <1>1 DEF Like

(* Between two calls of the table every object is stored, but for that of *)
(* concatenate.                                                            *)
LEMMA ObjectsAreStored ==
  ASSUME SInv, pc = "idle", NEW o \in objects
  PROVE  Alike(o) # {} \/ (call.fn = "concatenate" /\ o = call.key)
<1>1. o \in Keys /\ AllEntered /\ IInv  BY DEF SInv, StringsTypeOK
<1>2. pending[1] = NULL  BY <1>1 DEF IInv, NoCall
<1>. QED  BY <1>1, <1>2, TableAssumption DEF AllEntered

(* The string is there: the lookup has answered one like it.               *)
LEMMA FoundIsAlike ==
  ASSUME SInv, Found, call.fn \in Interning \cup {"constant"}
  PROVE  call.key \in Keys /\ got[3] \in Alike(call.key)
<1>1. call.key \in Keys  BY DEF SInv, Interning
<1>2. PICK s \in IF Alike(call.key) = {} THEN {NULL} ELSE Alike(call.key) :
           got = <<"find", call.key, s>>
  BY DEF SInv, Answered, Found
<1>. QED  BY <1>1, <1>2 DEF Found

(* The string is not there: neither stored nor, but for the object that    *)
(* concatenate has made, anywhere.                                         *)
LEMMA AbsentIsNew ==
  ASSUME SInv, Absent, call.fn \in Interning
  PROVE  /\ call.key \in Keys /\ Alike(call.key) = {}
         /\ call.fn # "literal"
         /\ call.fn # "concatenate" => Like(call.key) \ objects # {}
<1>1. call.key \in Keys /\ call.key \in Like(call.key)
  BY DEF SInv, Interning, Like
<1>2. Alike(call.key) = {}
  BY TableAssumption DEF SInv, Answered, Absent, Alike, Like
<1>3. call.fn # "literal"
  BY <1>1, <1>2 DEF SInv, Alike
<1>4. call.fn # "concatenate" => call.key \notin objects
  BY <1>2, ObjectsAreStored DEF Absent
<1>. QED  BY <1>1, <1>2, <1>3, <1>4

(* Calls, returns and the freeing of objects stutter for the table.        *)
LEMMA StepIsTableStep ==
  ASSUME SInv, [StringsNext]_stringVars
  PROVE  [Next]_vars
<1>1. ASSUME NEW k \in Keys, Search(k)  PROVE Next
  BY <1>1 DEF Next
<1>2. ASSUME NEW k \in Keys, NEW v \in Vals, SetOrGrow(k, v)  PROVE Next
  BY <1>2 DEF Next, SetOrGrow
<1>3. {"void", "index"} \subseteq Vals  BY StringsAssumption
<1>4. CASE Ask
  <2>1. ASSUME NEW s \in Keys, NEW t \in Keys, NEW k \in Keys, Concatenate(s, t, k)
        PROVE  Next
    <3>1. Search(NewObject(k)) /\ NewObject(k) \in Keys
      BY <2>1, NewObjectIsNew DEF Concatenate, Begin
    <3>. QED  BY <1>1, <3>1
  <2>2. Interned \subseteq Keys  BY DEF Interned
  <2>. QED  BY <1>1, <1>4, <2>1, <2>2, AskBegins
            DEF Begin, CopyString, Literal, NameConstant, Multiply
<1>5. CASE StringConstant
  BY <1>1, <1>5 DEF StringConstant, SInv
<1>6. ASSUME Absent, call.fn \in Interning, call.fn # "concatenate"
      PROVE  NewObject(call.key) \in Keys
  BY <1>6, AbsentIsNew, NewObjectIsNew
<1>7. CASE ReturnFound  BY <1>7 DEF ReturnFound
<1>8. CASE Take \/ Copy
  BY <1>2, <1>3, <1>6, <1>8 DEF Take, Copy, Allocate, Interning
<1>9. CASE Enter
  BY <1>2, <1>3, <1>9 DEF Enter, SInv
<1>10. CASE KeepIndex
  BY <1>2, <1>3, <1>10 DEF KeepIndex, SInv
<1>11. CASE Rebuild \/ StoreString
  BY <1>11 DEF Rebuild, StoreString, Next
<1>12. CASE ObjectsFree  BY <1>12 DEF ObjectsFree
<1>13. CASE UNCHANGED stringVars  BY <1>13 DEF stringVars
<1>. QED  BY <1>4, <1>5, <1>7, <1>8, <1>9, <1>10, <1>11, <1>12, <1>13
          DEF StringsNext

-----------------------------------------------------------------------------
(* The inductive invariant, one lemma for each action.                     *)

(* There are no strings at first. *)
LEMMA InitSInv == StringsInit => SInv
<1>. SUFFICES ASSUME StringsInit  PROVE SInv  OBVIOUS
<1>1. IInv /\ TypeOK  BY InitIInv DEF StringsInit, IInv
<1>2. Interned = {}
  BY TableAssumption DEF StringsInit, Init, EmptySlots, Interned, Slots
<1>3. call.fn = "none" /\ call.key = NULL /\ call.chars = NULL
      /\ pc = "idle" /\ objects = {} /\ blocks = {} /\ answer = NULL
  BY DEF StringsInit, Init, NoRequest
<1>4. chars \in [objects -> Places]  BY DEF StringsInit
<1>5. StringsTypeOK
  BY <1>1, <1>3, <1>4 DEF StringsTypeOK, StringsInit, NoRequest
<1>. QED  BY <1>1, <1>2, <1>3, <1>5
          DEF SInv, FreeableOnce, Answered, Entered, Entering, AllEntered, Owned, Interning

(* A call's lookup answers its request and stores nothing. *)
LEMMA BeginAnswers ==
  ASSUME SInv, NEW k \in Keys, Search(k), call'.key = k
  PROVE  /\ Interned' = Interned /\ pending' = pending
         /\ pending = NoCall /\ ~Entering' /\ Answered'
<1>1. /\ Interned' = Interned /\ pending' = pending /\ pc = "idle"
      /\ \/ /\ pc' = "idle"
            /\ \E s \in IF Alike(k) = {} THEN {NULL} ELSE Alike(k) :
                 got' = <<"find", k, s>>
         \/ pc' \in {"undefined", "hang"}
  BY SearchAnswers DEF SInv
<1>2. Alike(k)' = Alike(k)  BY <1>1 DEF Alike, Like
<1>3. Answered'  BY <1>1, <1>2 DEF Answered, Alike, Like
<1>4. pending = NoCall  BY <1>1 DEF SInv, IInv
<1>. QED  BY <1>1, <1>3, <1>4 DEF Entering

(* copy_string *)
LEMMA CopyStringSInv ==
  ASSUME SInv, IInv', NEW k \in Keys, call = NoRequest, CopyString(k)  PROVE SInv'
<1>1. /\ Search(k) /\ answer' = NULL
      /\ call' = [fn |-> "copy_string", key |-> k, chars |-> NULL]
      /\ objects' = objects /\ chars' = chars /\ blocks' = blocks
  BY DEF CopyString, Begin, Interning, memory
<1>2. /\ Interned' = Interned /\ pending' = pending
      /\ pending = NoCall /\ ~Entering' /\ Answered'
  BY <1>1, BeginAnswers
<1>3. StringsTypeOK'
  BY <1>1 DEF SInv, StringsTypeOK, IInv, Interning
<1>4. FreeableOnce'  BY <1>1 DEF SInv, FreeableOnce
<1>5. Entered' /\ Owned'
  BY <1>1, <1>2 DEF Entered, Owned, Interning
<1>6. AllEntered'
  BY <1>1, <1>2 DEF SInv, AllEntered, Alike, Like, NoRequest
<1>. QED  BY <1>1, <1>2, <1>3, <1>4, <1>5, <1>6 DEF SInv, NoRequest

(* literal *)
LEMMA LiteralSInv ==
  ASSUME SInv, IInv', NEW s \in Interned, call = NoRequest, Literal(s)  PROVE SInv'
<1>1. /\ Search(s) /\ answer' = NULL /\ s \in Keys
      /\ call' = [fn |-> "literal", key |-> s, chars |-> chars[s]]
      /\ objects' = objects /\ chars' = chars /\ blocks' = blocks
  BY DEF Literal, Begin, Interning, memory, Interned
<1>2. /\ Interned' = Interned /\ pending' = pending
      /\ pending = NoCall /\ ~Entering' /\ Answered'
  BY <1>1, BeginAnswers
<1>3. s \in objects /\ chars[s] \in Places
  BY DEF SInv, NoRequest, StringsTypeOK
<1>4. StringsTypeOK'
  BY <1>1, <1>3 DEF SInv, StringsTypeOK, IInv, Interning
<1>5. FreeableOnce'  BY <1>1 DEF SInv, FreeableOnce
<1>6. Entered' /\ Owned'
  BY <1>1, <1>2, <1>3 DEF Entered, Owned, Interning
<1>7. AllEntered'
  BY <1>1, <1>2 DEF SInv, AllEntered, Alike, Like, NoRequest
<1>. QED  BY <1>1, <1>2, <1>4, <1>5, <1>6, <1>7 DEF SInv, NoRequest

(* OP_MUL *)
LEMMA MultiplySInv ==
  ASSUME SInv, IInv', NEW s, NEW n, NEW k \in Keys, call = NoRequest, Multiply(s, n, k)
  PROVE  SInv'
<1>1. /\ Search(k) /\ answer' = NULL
      /\ NewBlock \in Blocks \ blocks
      /\ call' = [fn |-> "product", key |-> k, chars |-> Block(NewBlock)]
      /\ objects' = objects /\ chars' = chars /\ blocks' = blocks \cup {NewBlock}
  BY DEF Multiply, Begin, Interning, NewBlock
<1>2. /\ Interned' = Interned /\ pending' = pending
      /\ pending = NoCall /\ ~Entering' /\ Answered'
  BY <1>1, BeginAnswers
<1>3. StringsTypeOK'
  BY <1>1 DEF SInv, StringsTypeOK, IInv, Interning, Places
<1>4. FreeableOnce'  BY <1>1 DEF SInv, FreeableOnce
<1>5. \A o \in objects : chars[o] # Block(NewBlock)
  BY <1>1 DEF SInv, FreeableOnce, Behind, Block
<1>6. Entered' /\ Owned'
  BY <1>1, <1>2, <1>5 DEF Entered, Owned
<1>7. AllEntered'
  BY <1>1, <1>2 DEF SInv, AllEntered, Alike, Like, NoRequest
<1>. QED  BY <1>1, <1>2, <1>3, <1>4, <1>6, <1>7 DEF SInv, NoRequest

(* concatenate *)
LEMMA ConcatenateSInv ==
  ASSUME SInv, IInv', NEW s, NEW t, NEW k \in Keys, call = NoRequest, Concatenate(s, t, k)
  PROVE  SInv'
<1>. DEFINE new == NewObject(k)
<1>1. /\ Search(new) /\ answer' = NULL
      /\ new \in Keys /\ new \notin objects
      /\ call' = [fn |-> "concatenate", key |-> new, chars |-> Behind(new)]
      /\ objects' = objects \cup {new} /\ blocks' = blocks
      /\ chars' = [o \in objects' |-> IF o = new THEN Behind(new) ELSE chars[o]]
  BY NewObjectIsNew DEF Concatenate, Begin, Interning
<1>. HIDE DEF new
<1>2. /\ Interned' = Interned /\ pending' = pending
      /\ pending = NoCall /\ ~Entering' /\ Answered'
  BY <1>1, BeginAnswers
<1>3. \A o \in objects' : chars'[o] = IF o = new THEN Behind(new) ELSE chars[o]
  BY <1>1
<1>4. StringsTypeOK'
  <2>1. chars' \in [objects' -> Places]
    BY <1>1 DEF SInv, StringsTypeOK, Places
  <2>. QED  BY <1>1, <2>1 DEF SInv, StringsTypeOK, IInv, Interning, Places
<1>5. FreeableOnce'
  BY <1>1, <1>3 DEF SInv, FreeableOnce, Behind, Block
<1>6. Entered' /\ Owned'
  BY <1>1, <1>2 DEF Entered, Owned
<1>7. AllEntered'
  BY <1>1, <1>2 DEF SInv, AllEntered, Alike, Like, NoRequest
<1>. QED  BY <1>1, <1>2, <1>4, <1>5, <1>6, <1>7 DEF SInv, NoRequest

(* name_constant, alone or at the end of literal. *)
LEMMA ConstantSInv ==
  ASSUME SInv, IInv', (\E s \in Interned : call = NoRequest /\ NameConstant(s))
                      \/ StringConstant
  PROVE  SInv'
<1>1. PICK s \in Interned :
        /\ Search(s) /\ answer' = answer /\ s \in Keys
        /\ call' = [fn |-> "constant", key |-> s, chars |-> NULL]
        /\ objects' = objects /\ chars' = chars /\ blocks' = blocks
        /\ call.fn \in {"none", "string_constant"}
  <2>1. Interned \subseteq Keys  BY DEF Interned
  <2>2. CASE \E s \in Interned : call = NoRequest /\ NameConstant(s)
    BY <2>1, <2>2 DEF NameConstant, Begin, Interning, memory, NoRequest
  <2>3. CASE StringConstant
    <3>1. call.key \in Interned /\ call.chars = NULL
      BY <2>3 DEF StringConstant, SInv, Owned
    <3>. QED  BY <2>1, <2>3, <3>1
              DEF StringConstant, SInv, StringsTypeOK, memory
  <2>. QED  BY <2>2, <2>3
<1>2. /\ Interned' = Interned /\ pending' = pending
      /\ pending = NoCall /\ ~Entering' /\ Answered'
  BY <1>1, BeginAnswers
<1>3. StringsTypeOK'
  BY <1>1 DEF SInv, StringsTypeOK, IInv, Interning
<1>4. FreeableOnce'  BY <1>1 DEF SInv, FreeableOnce
<1>5. Entered' /\ Owned'
  BY <1>1, <1>2 DEF Entered, Owned, Interning
<1>6. AllEntered'
  BY <1>1, <1>2 DEF SInv, AllEntered, Alike, Like
<1>. QED  BY <1>1, <1>2, <1>3, <1>4, <1>5, <1>6 DEF SInv

(* The string was there. *)
LEMMA ReturnFoundSInv ==
  ASSUME SInv, IInv', ReturnFound  PROVE SInv'
<1>1. /\ call.fn \in Interning /\ got[3] \in Alike(call.key)
      /\ pc = "idle" /\ pending = NoCall /\ answer' = got[3]
      /\ vars' = vars /\ pc' = pc /\ pending' = pending /\ Interned' = Interned
      /\ objects' = objects /\ chars' = chars /\ blocks' = blocks
  BY FoundIsAlike, InternedKept
     DEF ReturnFound, Return, Found, vars, table, memory, SInv, IInv
<1>2. got[3] \in Keys /\ got[3] \in Interned  BY <1>1 DEF Alike, Like
<1>3. \/ /\ call.fn = "literal"
         /\ call' = [fn |-> "string_constant", key |-> got[3], chars |-> NULL]
      \/ call.fn # "literal" /\ call' = NoRequest
  BY DEF ReturnFound, Return
<1>4. call'.fn \in {"none", "string_constant"} /\ call'.chars = NULL
      /\ (call'.fn = "string_constant" => call'.key = got[3])
  BY <1>3 DEF NoRequest
<1>5. StringsTypeOK'
  BY <1>1, <1>2, <1>3 DEF SInv, StringsTypeOK, IInv, NoRequest
<1>6. FreeableOnce'  BY <1>1 DEF SInv, FreeableOnce
<1>7. Answered' /\ Entered' /\ Owned'
  BY <1>1, <1>4 DEF Answered, Entered, Entering, Owned, Interning
<1>8. AllEntered'
  <2>1. \A o \in objects : Alike(o) # {}
    <3>1. ASSUME NEW o \in objects, o = call.key  PROVE Alike(o) # {}
      BY <1>1, <3>1
    <3>. QED  BY <1>1, <3>1, ObjectsAreStored
  <2>. QED  BY <1>1, <2>1 DEF AllEntered, Alike, Like
<1>9. Interned' \subseteq objects'  BY <1>1 DEF SInv, Interning
<1>10. /\ call'.fn \notin {"none", "destroyed"} => call'.key \in Keys
       /\ call'.fn \in {"literal", "string_constant", "constant"}
            => call'.key \in Interned'
  BY <1>1, <1>2, <1>4
<1>. QED  BY <1>5, <1>6, <1>7, <1>8, <1>9, <1>10, Zenon DEF SInv

(* take_string and copy_string make an object and enter it. *)
LEMMA AllocateSInv ==
  ASSUME SInv, IInv', Take \/ Copy  PROVE SInv'
<1>. DEFINE new   == NewObject(call.key)
            where == IF call.fn = "copy_string" THEN Behind(new) ELSE call.chars
<1>1. /\ call.fn \in {"product", "copy_string"} /\ Absent
      /\ call.key \in Keys /\ Alike(call.key) = {}
      /\ new \in Keys /\ new \notin objects /\ new \in Like(call.key)
  <2>1. call.fn \in Interning /\ call.fn # "concatenate" /\ Absent
    BY DEF Take, Copy, Interning
  <2>2. call.fn # "literal"  BY <2>1, AbsentIsNew
  <2>. QED  BY <2>1, <2>2, AbsentIsNew, NewObjectIsNew DEF Interning
<1>2. /\ objects' = objects \cup {new} /\ blocks' = blocks
      /\ chars' = [o \in objects' |-> IF o = new THEN where ELSE chars[o]]
      /\ call' = call /\ answer' = answer /\ SetOrGrow(new, "void")
  BY <1>1 DEF Take, Copy, Allocate
<1>. HIDE DEF new
<1>3. /\ pc = "idle" /\ pc' \in {"store", "rehash"}
      /\ pending' = <<new, "void">> /\ Interned' = Interned /\ pending = NoCall
  BY <1>2, SetOrGrowBegins DEF SInv, IInv
<1>4. \/ where = Behind(new)
      \/ \E b \in blocks : /\ call.fn = "product" /\ where = Block(b)
                           /\ \A o \in objects : chars[o] # Block(b)
  BY <1>1, <1>3 DEF SInv, Owned
<1>5. where \in Places /\ (call.fn = "product" => where = call.chars)
  BY <1>1, <1>4 DEF SInv, StringsTypeOK, Places
<1>. HIDE DEF where
<1>6. \A o \in objects' : chars'[o] = IF o = new THEN where ELSE chars[o]
  BY <1>2
<1>7. StringsTypeOK'
  <2>1. chars' \in [objects' -> Places]
    BY <1>1, <1>2, <1>5 DEF SInv, StringsTypeOK, Places
  <2>. QED  BY <1>1, <1>2, <2>1 DEF SInv, StringsTypeOK, IInv
<1>8. FreeableOnce'
  BY <1>2, <1>4, <1>6 DEF SInv, FreeableOnce, Behind, Block
<1>9. Answered'  BY <1>3 DEF Answered
<1>10. Entered'
  BY <1>1, <1>2, <1>3 DEF Entered, Alike, Like, Interning
<1>11. AllEntered'
  <2>1. \A o \in objects : Alike(o) # {}  BY <1>1, <1>3, ObjectsAreStored
  <2>2. new = pending'[1]  BY <1>3
  <2>. QED  BY <1>2, <1>3, <2>1, <2>2 DEF AllEntered, Alike, Like
<1>12. Owned'
  <2>1. CASE call.fn = "copy_string"
    BY <1>2, <2>1 DEF SInv, Owned
  <2>2. CASE call.fn = "product"
    <3>1. PICK b \in blocks : call.chars = Block(b)
      BY <2>2 DEF SInv, Owned
    <3>2. chars'[new] = Block(b)  BY <1>2, <1>5, <1>6, <2>2, <3>1
    <3>. QED  BY <1>2, <1>3, <2>2, <3>1, <3>2 DEF Owned
  <2>. QED  BY <1>1, <2>1, <2>2
<1>. QED  BY <1>1, <1>2, <1>3, <1>7, <1>8, <1>9, <1>10, <1>11, <1>12
          DEF SInv

(* concatenate enters the object it has made.                              *)
LEMMA EnterSInv ==
  ASSUME SInv, IInv', Enter  PROVE SInv'
<1>1. /\ call.fn = "concatenate" /\ Absent
      /\ call.key \in Keys /\ Alike(call.key) = {}
      /\ call' = call /\ answer' = answer
      /\ objects' = objects /\ chars' = chars /\ blocks' = blocks
  BY AbsentIsNew DEF Enter, Interning, memory
<1>2. /\ pc = "idle" /\ pc' \in {"store", "rehash"}
      /\ pending' = <<call.key, "void">> /\ Interned' = Interned /\ pending = NoCall
  BY SetOrGrowBegins DEF Enter, SInv, IInv
<1>3. call.key \in objects /\ call.key \in Like(call.key)
  BY <1>1 DEF SInv, Owned, Like
<1>4. StringsTypeOK'  BY <1>1 DEF SInv, StringsTypeOK, IInv
<1>5. FreeableOnce'  BY <1>1 DEF SInv, FreeableOnce
<1>6. Answered' /\ Owned'
  BY <1>1, <1>2 DEF SInv, Answered, Owned
<1>7. Entered'
  BY <1>1, <1>2, <1>3 DEF Entered, Alike, Like, Interning
<1>8. AllEntered'
  <2>1. \A o \in objects : Alike(o) # {} \/ o = call.key
    BY <1>2, ObjectsAreStored
  <2>. QED  BY <1>1, <1>2, <2>1 DEF AllEntered, Alike, Like
<1>. QED  BY <1>1, <1>2, <1>4, <1>5, <1>6, <1>7, <1>8 DEF SInv

(* The constant has its index already, or the table is to keep it. *)
LEMMA KeepIndexSInv ==
  ASSUME SInv, IInv', KeepIndex  PROVE SInv'
<1>1. /\ call.fn = "constant" /\ pc = "idle" /\ answer' = answer
      /\ call.key \in Interned /\ call.key \in Keys /\ call.chars = NULL
      /\ objects' = objects /\ chars' = chars /\ blocks' = blocks
  BY DEF KeepIndex, Found, Absent, memory, SInv, Owned
<1>2. pending = NoCall /\ \A o \in objects : Alike(o) # {}
  BY <1>1, ObjectsAreStored DEF SInv, IInv
<1>3. CASE vars' = vars /\ call' = NoRequest
  <2>1. pc' = "idle" /\ Interned' = Interned /\ pending' = pending
    BY <1>1, <1>3, InternedKept DEF vars, table
  <2>2. StringsTypeOK'
    BY <1>1, <1>3 DEF SInv, StringsTypeOK, IInv, NoRequest
  <2>3. FreeableOnce'  BY <1>1 DEF SInv, FreeableOnce
  <2>4. Answered' /\ Entered' /\ Owned'
    BY <1>3, <2>1 DEF Answered, Entered, Entering, Owned, Interning, NoRequest
  <2>5. AllEntered'
    BY <1>1, <1>2, <2>1 DEF AllEntered, Alike, Like
  <2>. QED  BY <1>1, <1>3, <2>1, <2>2, <2>3, <2>4, <2>5 DEF SInv, NoRequest
<1>4. CASE SetOrGrow(call.key, "index") /\ call' = call
  <2>1. /\ pc' \in {"store", "rehash"}
        /\ pending' = <<call.key, "index">> /\ Interned' = Interned
    BY <1>4, SetOrGrowBegins
  <2>2. StringsTypeOK'  BY <1>1, <1>4 DEF SInv, StringsTypeOK, IInv
  <2>3. FreeableOnce'  BY <1>1 DEF SInv, FreeableOnce
  <2>4. Answered' /\ Entered' /\ Owned'
    BY <1>1, <1>4, <2>1 DEF Answered, Entered, Entering, Owned
  <2>5. AllEntered'
    BY <1>1, <1>2, <2>1 DEF AllEntered, Alike, Like
  <2>. QED  BY <1>1, <1>4, <2>1, <2>2, <2>3, <2>4, <2>5 DEF SInv
<1>. QED  BY <1>3, <1>4 DEF KeepIndex

(* Rebuilding the table. *)
LEMMA RebuildSInv ==
  ASSUME SInv, IInv', Rebuild  PROVE SInv'
<1>1. /\ call' = call /\ answer' = answer
      /\ objects' = objects /\ chars' = chars /\ blocks' = blocks
  BY DEF Rebuild, memory
<1>2. /\ pc = "rehash" /\ pc' \in {"rehash", "store", "undefined"}
      /\ pending' = pending /\ Interned' = Interned
  BY RebuildKeeps DEF Rebuild, SInv
<1>3. StringsTypeOK'  BY <1>1 DEF SInv, StringsTypeOK, IInv
<1>4. FreeableOnce'  BY <1>1 DEF SInv, FreeableOnce
<1>5. Answered'  BY <1>2 DEF Answered
<1>6. Entered'
  BY <1>1, <1>2 DEF SInv, Entered, Entering, Alike, Like
<1>7. AllEntered'
  BY <1>1, <1>2 DEF SInv, AllEntered, Alike, Like
<1>8. Owned'  BY <1>1, <1>2 DEF SInv, Owned, Entering
<1>. QED  BY <1>1, <1>2, <1>3, <1>4, <1>5, <1>6, <1>7, <1>8 DEF SInv

(* table_set has stored the string, or does not return. *)
LEMMA StoreStringSInv ==
  ASSUME SInv, IInv', StoreString  PROVE SInv'
<1>1. /\ objects' = objects /\ chars' = chars /\ blocks' = blocks
      /\ IInv /\ Store
  BY DEF StoreString, memory, SInv
<1>2. /\ pc = "store" /\ pending[1] \in Keys
      /\ \/ pc' = "idle" /\ pending' = NoCall
            /\ Interned' = Interned \cup {pending[1]}
         \/ pc' = "hang" /\ pending' = pending /\ Interned' = Interned
  BY <1>1, StoreInterns
<1>3. Entering  BY <1>2 DEF Entering
<1>4. /\ call.fn \in {"copy_string", "product", "concatenate", "constant"}
      /\ pending[1] \in objects
  BY <1>3 DEF SInv, Entered, Interning
<1>5. FreeableOnce'  BY <1>1 DEF SInv, FreeableOnce
<1>6. CASE pc' = "hang"
  <2>1. call' = call /\ answer' = answer  BY <1>6 DEF StoreString
  <2>2. pending' = pending /\ Interned' = Interned  BY <1>2, <1>6
  <2>3. StringsTypeOK'  BY <1>1, <2>1 DEF SInv, StringsTypeOK, IInv
  <2>4. Answered' /\ Entered'  BY <1>6 DEF Answered, Entered, Entering
  <2>5. Owned'  BY <1>1, <1>6, <2>1 DEF SInv, Owned, Entering
  <2>6. AllEntered'
    BY <1>1, <2>1, <2>2 DEF SInv, AllEntered, Alike, Like
  <2>. QED  BY <1>1, <1>5, <2>1, <2>2, <2>3, <2>4, <2>5, <2>6 DEF SInv
<1>7. CASE pc' = "idle"
  <2>1. call' = NoRequest /\ (answer' = pending[1] \/ answer' = answer)
    BY <1>4, <1>7 DEF StoreString, Return
  <2>2. Interned' = Interned \cup {pending[1]}  BY <1>2, <1>7
  <2>3. StringsTypeOK'
    BY <1>1, <1>2, <2>1 DEF SInv, StringsTypeOK, IInv, NoRequest
  <2>4. Answered' /\ Entered' /\ Owned'
    BY <1>7, <2>1 DEF Answered, Entered, Entering, Owned, Interning, NoRequest
  <2>5. AllEntered'
    <3>1. ASSUME NEW o \in objects  PROVE Alike(o)' # {}
      <4>1. o \in Keys  BY DEF SInv, StringsTypeOK
      <4>2. CASE Alike(o) # {}  BY <2>2, <4>2 DEF Alike, Like
      <4>3. CASE o = pending[1]  BY <2>2, <4>1, <4>3 DEF Alike, Like
      <4>4. CASE call.fn = "concatenate" /\ o = call.key
        <5>1. pending[1] \in Like(o)  BY <1>3, <4>4 DEF SInv, Entered
        <5>. QED  BY <2>2, <5>1 DEF Alike, Like
      <4>. QED  BY <4>2, <4>3, <4>4 DEF SInv, AllEntered
    <3>. QED  BY <1>1, <3>1 DEF AllEntered
  <2>6. Interned' \subseteq objects'  BY <1>1, <1>4, <2>2 DEF SInv
  <2>. QED  BY <1>5, <2>1, <2>3, <2>4, <2>5, <2>6 DEF SInv, NoRequest
<1>. QED  BY <1>2, <1>6, <1>7

(* objects_free *)
LEMMA ObjectsFreeSInv ==
  ASSUME SInv, IInv', ObjectsFree  PROVE SInv'
<1>1. /\ objects' = {} /\ chars' = <<>> /\ blocks' \subseteq blocks
      /\ call'.fn = "destroyed" /\ call'.key = NULL /\ call'.chars = NULL
      /\ call' = [fn |-> "destroyed", key |-> NULL, chars |-> NULL]
      /\ answer' = answer /\ vars' = vars /\ pc' = "idle"
  BY DEF ObjectsFree, NoRequest, vars
<1>2. chars' \in [objects' -> Places]  BY <1>1
<1>3. StringsTypeOK'  BY <1>1, <1>2 DEF SInv, StringsTypeOK, IInv
<1>4. FreeableOnce' /\ AllEntered'  BY <1>1 DEF FreeableOnce, AllEntered
<1>5. Answered' /\ Entered' /\ Owned'
  BY <1>1 DEF Answered, Entered, Entering, Owned, Interning
<1>. QED  BY <1>1, <1>3, <1>4, <1>5 DEF SInv

(* Nothing happens. *)
LEMMA StutterSInv ==
  ASSUME SInv, IInv', UNCHANGED stringVars  PROVE SInv'
<1>1. /\ call' = call /\ answer' = answer /\ pc' = pc /\ pending' = pending
      /\ got' = got /\ Interned' = Interned
      /\ objects' = objects /\ chars' = chars /\ blocks' = blocks
  BY InternedKept DEF stringVars, vars, table, memory
<1>2. StringsTypeOK' /\ FreeableOnce'
  BY <1>1 DEF SInv, StringsTypeOK, IInv, FreeableOnce
<1>3. Answered' /\ Entered' /\ Owned' /\ AllEntered'
  BY <1>1 DEF SInv, Answered, Entered, Entering, Owned, AllEntered, Alike, Like
<1>. QED  BY <1>1, <1>2, <1>3 DEF SInv

(* Every step preserves the invariant. *)
LEMMA NextSInv == SInv /\ [StringsNext]_stringVars => SInv'
<1>. SUFFICES ASSUME SInv, [StringsNext]_stringVars  PROVE SInv'  OBVIOUS
<1>1. IInv'
  BY StepIsTableStep, NextIInv DEF SInv
<1>2. CASE Ask
  BY <1>1, <1>2, AskBegins, CopyStringSInv, LiteralSInv, ConstantSInv,
     ConcatenateSInv, MultiplySInv
<1>3. CASE StringConstant  BY <1>1, <1>3, ConstantSInv
<1>4. CASE ReturnFound  BY <1>1, <1>4, ReturnFoundSInv
<1>5. CASE Take \/ Copy  BY <1>1, <1>5, AllocateSInv
<1>6. CASE Enter  BY <1>1, <1>6, EnterSInv
<1>7. CASE KeepIndex  BY <1>1, <1>7, KeepIndexSInv
<1>8. CASE Rebuild  BY <1>1, <1>8, RebuildSInv
<1>9. CASE StoreString  BY <1>1, <1>9, StoreStringSInv
<1>10. CASE ObjectsFree  BY <1>1, <1>10, ObjectsFreeSInv
<1>11. CASE UNCHANGED stringVars  BY <1>1, <1>11, StutterSInv
<1>. QED  BY <1>2, <1>3, <1>4, <1>5, <1>6, <1>7, <1>8, <1>9, <1>10, <1>11
          DEF StringsNext

(* The inductive invariant holds in every reachable state. *)
THEOREM StringsInvariance == StringsSpec => []SInv
BY InitSInv, NextSInv, PTL DEF StringsSpec

(* Every state is of its type. *)
THEOREM StringsTypeCorrect == StringsSpec => []StringsTypeOK
<1>1. SInv => StringsTypeOK  BY DEF SInv
<1>. QED  BY <1>1, StringsInvariance, PTL

(* Whatever the strings and however they were made, object_free frees each *)
(* block of characters for one object only, and only while it is allocated *)
(* (obj.c:147-163).                                                        *)
THEOREM FreedOnce == StringsSpec => []FreeableOnce
<1>1. SInv => FreeableOnce  BY DEF SInv
<1>. QED  BY <1>1, StringsInvariance, PTL

-----------------------------------------------------------------------------
(* Which blocks are forgotten. *)

(* A step that changes neither the blocks nor whose they are, but lets go  *)
(* of characters that are not a block's or still an object's.              *)
LEMMA NoneForgotten ==
  ASSUME blocks' = blocks,
         \A b \in blocks : Held(b) => Held(b)'
  PROVE  Forgotten' \subseteq Forgotten
BY DEF Forgotten

(* A block is forgotten only when a product returns a string that was      *)
(* there before.                                                           *)
LEMMA StepForgets ==
  ASSUME SInv, SInv', [StringsNext]_stringVars
  PROVE  Forgotten' \subseteq Forgotten \/ (call.fn = "product" /\ Found)
<1>1. \A b \in Blocks : Block(b) # NULL /\ \A k : Behind(k) # Block(b)
  BY StringsAssumption DEF Block, Behind
<1>2. blocks \subseteq Blocks  BY DEF SInv, StringsTypeOK
<1>3. CASE Ask
  <2>1. call.chars = NULL  BY <1>3, AskBegins DEF NoRequest
  <2>2. \A b \in blocks : Held(b) => \E o \in objects : chars[o] = Block(b)
    BY <1>1, <1>2, <2>1 DEF Held
  <2>3. CASE blocks' = blocks /\ objects' = objects /\ chars' = chars
    BY <2>2, <2>3, NoneForgotten DEF Held
  <2>4. CASE \E s \in Keys, t \in Keys, k \in Keys : Concatenate(s, t, k)
    <3>1. PICK k \in Keys : /\ NewObject(k) \notin objects
                            /\ objects' = objects \cup {NewObject(k)} /\ blocks' = blocks
                            /\ chars' = [o \in objects' |-> IF o = NewObject(k)
                                              THEN Behind(NewObject(k)) ELSE chars[o]]
      BY <2>4, NewObjectIsNew DEF Concatenate
    <3>2. \A o \in objects : o \in objects' /\ chars'[o] = chars[o]  BY <3>1
    <3>. QED  BY <2>2, <3>1, <3>2, NoneForgotten DEF Held
  <2>5. CASE \E s \in Keys, k \in Keys, n \in 1 .. MaxCount : Multiply(s, n, k)
    <3>1. /\ blocks' = blocks \cup {NewBlock} /\ call'.chars = Block(NewBlock)
          /\ objects' = objects /\ chars' = chars
      BY <2>5 DEF Multiply, Begin
    <3>. QED  BY <2>2, <3>1 DEF Held, Forgotten
  <2>. QED  BY <1>3, <2>3, <2>4, <2>5, AskBegins
            DEF CopyString, Literal, NameConstant, memory
<1>4. CASE StringConstant
  BY <1>4, NoneForgotten DEF StringConstant, Held, memory, SInv, StringsTypeOK
<1>5. CASE ReturnFound
  <2>1. /\ blocks' = blocks /\ objects' = objects /\ chars' = chars
        /\ call.fn \in Interning /\ Found
    BY <1>5 DEF ReturnFound, memory
  <2>2. CASE call.fn # "product"
    <3>1. \A b \in blocks : call.chars = Block(b) =>
            \E o \in objects : chars[o] = Block(b)
      BY <1>1, <1>2, <2>1, <2>2 DEF SInv, Owned, Interning
    <3>. QED  BY <2>1, <3>1, NoneForgotten DEF Held
  <2>. QED  BY <2>1, <2>2
<1>6. CASE Take \/ Copy
  <2>1. NewObject(call.key) \notin objects
    BY <1>6, AbsentIsNew, NewObjectIsNew DEF Take, Copy, Interning
  <2>2. /\ blocks' = blocks /\ call' = call /\ objects \subseteq objects'
        /\ \A o \in objects : chars'[o] = chars[o]
    BY <1>6, <2>1 DEF Take, Copy, Allocate
  <2>. QED  BY <2>2, NoneForgotten DEF Held
<1>7. CASE Enter \/ Rebuild
  BY <1>7, NoneForgotten DEF Enter, Rebuild, Held, memory
<1>8. CASE KeepIndex
  <2>1. call.chars = NULL  BY <1>8 DEF KeepIndex, SInv, Owned
  <2>2. blocks' = blocks /\ objects' = objects /\ chars' = chars
    BY <1>8 DEF KeepIndex, memory
  <2>. QED  BY <1>1, <1>2, <2>1, <2>2, NoneForgotten DEF Held
<1>9. CASE StoreString
  <2>1. blocks' = blocks /\ objects' = objects /\ chars' = chars
    BY <1>9 DEF StoreString, memory
  <2>2. Entering  BY <1>9 DEF StoreString, Store, Entering
  <2>3. \A b \in blocks : call.chars = Block(b) =>
          \E o \in objects : chars[o] = Block(b)
    BY <1>1, <1>2, <2>2 DEF SInv, Owned, Entered, Interning
  <2>. QED  BY <2>1, <2>3, NoneForgotten DEF Held
<1>10. CASE ObjectsFree
  <2>1. /\ blocks' = {b \in blocks : \A o \in objects : chars[o] # Block(b)}
        /\ call.chars = NULL
    BY <1>10 DEF ObjectsFree, NoRequest
  <2>. QED  BY <1>1, <1>2, <2>1 DEF Forgotten, Held
<1>11. CASE UNCHANGED stringVars
  BY <1>11, NoneForgotten DEF stringVars, memory, Held
<1>. QED  BY <1>3, <1>4, <1>5, <1>6, <1>7, <1>8, <1>9, <1>10, <1>11
          DEF StringsNext

(* The only block that no object frees is one that take_string was given   *)
(* for a string that was there before (obj.c:71-74).                       *)
THEOREM OnlyRepeatsAreForgotten == StringsSpec => OnlyRepeatsForgotten
<1>1. SInv /\ SInv' /\ [StringsNext]_stringVars =>
        [Forgotten' \subseteq Forgotten \/ (call.fn = "product" /\ Found)]_stringVars
  BY StepForgets
<1>. QED  BY <1>1, StringsInvariance, PTL DEF StringsSpec, OnlyRepeatsForgotten

-----------------------------------------------------------------------------
(* Strings implements interning. *)

Asked == IF call.fn \in Interning THEN call.key ELSE NULL

(* The abstract answer is given to a string of the characters asked for:   *)
(* the one there is, or a new one.                                         *)
LEMMA ReturnImplements ==
  ASSUME SInv, NEW s \in Keys, Asked # NULL, Asked' = NULL, answer' = s,
         Interned' = Interned \cup {s},
         s \in IF Alike(Asked) = {} THEN Like(Asked) ELSE Alike(Asked)
  PROVE  Intern!Return
<1>1. Intern!Like(Asked, Interned) = Alike(Asked)
  BY DEF Intern!Like, Alike, Like, Interned
<1>2. Intern!Like(Asked, Keys) = Like(Asked)
  BY DEF Intern!Like, Like
<1>. QED  BY <1>1, <1>2 DEF Intern!Return, Asked

(* Every step is a step of interning or leaves it alone.                   *)
LEMMA StepImplementsInterning ==
  ASSUME SInv, SInv', [StringsNext]_stringVars
  PROVE  [Intern!Next]_Intern!vars
<1>1. ASSUME NEW k \in Keys, Asked = NULL, Asked' = k, answer' = NULL, Interned' = Interned
      PROVE  Intern!Next
  BY <1>1 DEF Intern!Next, Intern!Ask, Asked
<1>2. ASSUME Asked' = Asked, answer' = answer, Interned' = Interned
      PROVE  UNCHANGED Intern!vars
  BY <1>2 DEF Intern!vars, Asked
<1>3. Intern!Return => Intern!Next  BY DEF Intern!Next
<1>4. CASE Ask
  <2>1. Asked = NULL /\ call = NoRequest
    BY <1>4, AskBegins DEF Asked, NoRequest, Interning
  <2>2. ASSUME NEW k \in Keys, NEW fn, NEW where, Begin(fn, k, where)
        PROVE  [Intern!Next]_Intern!vars
    <3>1. /\ Interned' = Interned /\ call'.fn = fn /\ call'.key = k
          /\ answer' = IF fn \in Interning THEN NULL ELSE answer
      BY <2>2, SearchAnswers DEF Begin, SInv
    <3>2. CASE fn \in Interning
      BY <1>1, <2>1, <3>1, <3>2 DEF Asked
    <3>3. CASE fn \notin Interning
      BY <1>2, <2>1, <3>1, <3>3 DEF Asked
    <3>. QED  BY <3>2, <3>3
  <2>3. ASSUME NEW s, NEW t, NEW k \in Keys, Concatenate(s, t, k)
        PROVE  [Intern!Next]_Intern!vars
    BY <2>2, <2>3, NewObjectIsNew DEF Concatenate
  <2>4. Interned \subseteq Keys  BY DEF Interned
  <2>. QED  BY <1>4, <2>2, <2>3, <2>4, AskBegins
            DEF CopyString, Literal, NameConstant, Multiply
<1>5. CASE StringConstant
  <2>1. Interned' = Interned
    BY <1>5, SearchAnswers DEF StringConstant, SInv
  <2>2. Asked = NULL /\ Asked' = NULL /\ answer' = answer
    BY <1>5 DEF StringConstant, Asked, Interning, SInv, StringsTypeOK
  <2>. QED  BY <1>2, <2>1, <2>2
<1>6. ASSUME call' = IF call.fn = "literal"
                     THEN [fn |-> "string_constant", key |-> answer', chars |-> NULL]
                     ELSE NoRequest
      PROVE  Asked' = NULL
  BY <1>6 DEF Asked, NoRequest, Interning
<1>7. CASE ReturnFound
  <2>1. call.key \in Keys /\ got[3] \in Alike(call.key) /\ call.fn \in Interning
    BY <1>7, FoundIsAlike DEF ReturnFound
  <2>2. answer' = got[3] /\ Asked' = NULL
    BY <1>6, <1>7 DEF ReturnFound, Return
  <2>3. Interned' = Interned
    BY <1>7, InternedKept DEF ReturnFound, vars, table
  <2>4. Asked = call.key /\ Asked # NULL
    BY <2>1, TableAssumption DEF Asked
  <2>5. got[3] \in Keys /\ Interned' = Interned \cup {got[3]}
    BY <2>1, <2>3 DEF Alike, Like
  <2>. QED  BY <1>3, <2>1, <2>2, <2>4, <2>5, ReturnImplements
<1>8. CASE Take \/ Copy \/ Enter
  BY <1>2, <1>8, SetOrGrowBegins DEF Take, Copy, Enter, Allocate, Asked
<1>9. CASE KeepIndex
  <2>1. Asked' = NULL /\ Asked = NULL /\ answer' = answer
    BY <1>9 DEF KeepIndex, Asked, NoRequest, Interning
  <2>2. Interned' = Interned
    BY <1>9, SetOrGrowBegins, InternedKept DEF KeepIndex, vars, table
  <2>. QED  BY <1>2, <2>1, <2>2
<1>10. CASE Rebuild
  <2>1. Interned' = Interned
    BY <1>10, RebuildKeeps DEF Rebuild, SInv
  <2>. QED  BY <1>2, <1>10, <2>1 DEF Rebuild, Asked
<1>11. CASE StoreString
  <2>1. /\ pc = "store" /\ pending[1] \in Keys
        /\ \/ pc' = "idle" /\ pending' = NoCall
              /\ Interned' = Interned \cup {pending[1]}
           \/ pc' = "hang" /\ pending' = pending /\ Interned' = Interned
    BY <1>11, StoreInterns DEF StoreString, SInv
  <2>2. CASE pc' = "hang"
    BY <1>2, <1>11, <2>1, <2>2 DEF StoreString, Asked
  <2>3. CASE pc' = "idle" /\ call.fn \in Interning
    <3>1. pending[1] \in Like(call.key) /\ Alike(call.key) = {} /\ call.key \in Keys
      BY <2>1, <2>3 DEF SInv, Entered, Entering, Interning
    <3>2. answer' = pending[1] /\ Asked' = NULL
      BY <1>6, <1>11, <2>3 DEF StoreString, Return
    <3>3. Asked = call.key /\ Asked # NULL
      BY <2>3, <3>1, TableAssumption DEF Asked
    <3>4. Interned' = Interned \cup {pending[1]}  BY <2>1, <2>3
    <3>. QED  BY <1>3, <2>1, <3>1, <3>2, <3>3, <3>4, ReturnImplements
  <2>4. CASE pc' = "idle" /\ call.fn \notin Interning
    <3>1. call.fn = "constant" /\ pending[1] \in Interned
      BY <2>1, <2>4 DEF SInv, Entered, Entering
    <3>2. Interned' = Interned  BY <2>1, <2>4, <3>1
    <3>3. Asked' = NULL /\ Asked = NULL /\ answer' = answer
      BY <1>11, <2>4 DEF StoreString, Asked, NoRequest, Interning
    <3>. QED  BY <1>2, <3>2, <3>3
  <2>. QED  BY <2>1, <2>2, <2>3, <2>4
<1>12. CASE ObjectsFree
  <2>1. Interned' = Interned /\ answer' = answer
    BY <1>12, InternedKept DEF ObjectsFree, vars, table
  <2>2. Asked = NULL /\ Asked' = NULL
    BY <1>12 DEF ObjectsFree, Asked, NoRequest, Interning
  <2>. QED  BY <1>2, <2>1, <2>2
<1>13. CASE UNCHANGED stringVars
  BY <1>2, <1>13, InternedKept DEF stringVars, vars, table, Asked
<1>. QED  BY <1>4, <1>5, <1>7, <1>8, <1>9, <1>10, <1>11, <1>12, <1>13
          DEF StringsNext

(* Every behaviour is one of interning: equal characters are one string,   *)
(* different ones two, for every set of strings, whatever their hashes and *)
(* whatever the table's slots held when it grew (obj.c:43-131,             *)
(* table.c:117-157).                                                       *)
THEOREM InterningRefined == StringsSpec => RefinesIntern
<1>1. StringsInit => Intern!Init
  <2>1. StringsInit => Interned = {}
    BY TableAssumption DEF StringsInit, Init, EmptySlots, Interned, Slots
  <2>2. StringsInit => answer = NULL /\ call.fn \notin Interning
    BY DEF StringsInit, NoRequest, Interning
  <2>. QED  BY <2>1, <2>2 DEF Intern!Init
<1>2. SInv /\ SInv' /\ [StringsNext]_stringVars => [Intern!Next]_Intern!vars
  BY StepImplementsInterning
<1>. QED  BY <1>1, <1>2, StringsInvariance, PTL DEF StringsSpec, RefinesIntern, Intern!Spec

(* The table of the strings runs as a table does: what is proved of Table  *)
(* holds of it, and its stores come to an end under the same fairness.     *)
THEOREM RunsTable == StringsSpec => Spec
<1>1. StringsInit => Init  BY DEF StringsInit
<1>2. SInv /\ [StringsNext]_stringVars => [Next]_vars  BY StepIsTableStep
<1>. QED  BY <1>1, <1>2, StringsInvariance, PTL DEF StringsSpec, Spec
=============================================================================
