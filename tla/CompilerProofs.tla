--------------------------- MODULE CompilerProofs ---------------------------
(***************************************************************************)
(* Proofs about Compiler: what is remembered of a string resolves, every   *)
(* local has the cell its slot says, the innermost declaration is found,   *)
(* and a scope an error has left open is never closed.                     *)
(***************************************************************************)
EXTENDS Compiler, FiniteSetTheorems, SequenceTheorems, WellFoundedInduction,
        NaturalsInduction, TLAPS

Constants == Names \cup {Other}

(* What holds of a unit in the middle of a statement, too: its constants   *)
(* resolve, and every Compiler of the chain has a chunk and its own slot.  *)
ConstantsOK(u) ==
  /\ u.pools # <<>>
  /\ InternedResolve(u)
  /\ \A r \in u.refs :
       r.index < Len(u.pools[Script]) /\ u.pools[Script][r.index + 1] = r.value

CompilerOK(k, pools) ==
  /\ k.chunk \in DOMAIN pools
  /\ Len(k.locals) \in 1 .. LocalLimit
  /\ OwnSlot(k)

UnitOK(u) ==
  /\ u \in UnitType /\ u.chain # <<>>
  /\ ConstantsOK(u)
  /\ \A c \in DOMAIN u.chain : CompilerOK(u.chain[c], u.pools)

(* The innermost Compiler is one of the chain's, and its chunk is one of   *)
(* the pools.                                                              *)
LEMMA CurrentTyped ==
  ASSUME NEW u, UnitOK(u)
  PROVE  /\ Top(u) \in Nat /\ Top(u) >= 1 /\ Top(u) \in DOMAIN u.chain
         /\ Current(u) \in CompilerType /\ CompilerOK(Current(u), u.pools)
         /\ Chunk(u) \in DOMAIN u.pools /\ Chunk(u) \in Nat \ {0}
         /\ u.pools \in Seq(Seq(Constants)) /\ u.pools[Chunk(u)] \in Seq(Constants)
         /\ u.chain \in Seq(CompilerType) /\ 1 \in DOMAIN u.pools
         /\ Locals(u) \in Seq(LocalType)
<1>1. u.chain \in Seq(CompilerType) /\ u.pools \in Seq(Seq(Constants))
  BY DEF UnitOK, UnitType, Constants
<1>2. Top(u) \in Nat /\ Top(u) >= 1 /\ Top(u) \in DOMAIN u.chain
  BY <1>1 DEF UnitOK, Top
<1>3. Current(u) \in CompilerType /\ CompilerOK(Current(u), u.pools)
  BY <1>1, <1>2 DEF UnitOK, Current
<1>4. Chunk(u) \in DOMAIN u.pools  BY <1>3 DEF CompilerOK, Chunk
<1>5. Chunk(u) \in Nat \ {0} /\ u.pools[Chunk(u)] \in Seq(Constants) /\ 1 \in DOMAIN u.pools
  BY <1>1, <1>4
<1>6. Locals(u) \in Seq(LocalType)  BY <1>3 DEF Locals, CompilerType
<1>. QED  BY <1>1, <1>2, <1>3, <1>4, <1>5, <1>6

-----------------------------------------------------------------------------
(* Constants. *)

(* A new constant goes behind those of the current chunk.                  *)
LEMMA AddConstantSound ==
  ASSUME NEW u, UnitOK(u), NEW v \in Constants
  PROVE  LET w == AddConstant(u, v)
             at == NextIndex(u)
         IN  /\ UnitOK(w) /\ w.chain = u.chain
             /\ w.interned = u.interned /\ w.refs = u.refs
             /\ w.pools \in Seq(Seq(Constants)) /\ DOMAIN w.pools = DOMAIN u.pools
             /\ at \in [chunk : Nat, index : Nat] /\ at # NoIndex
             /\ at.chunk \in DOMAIN w.pools
             /\ at.index + 1 \in DOMAIN w.pools[at.chunk]
             /\ w.pools[at.chunk][at.index + 1] = v
<1>. DEFINE w == AddConstant(u, v)
            at == NextIndex(u)
            m == Chunk(u)
            old == u.pools[m]
<1>0. /\ m \in DOMAIN u.pools /\ m \in Nat \ {0}
      /\ u.pools \in Seq(Seq(Constants)) /\ old \in Seq(Constants)
      /\ 1 \in DOMAIN u.pools
  BY CurrentTyped
<1>1. /\ w.chain = u.chain /\ w.interned = u.interned /\ w.refs = u.refs
      /\ w = [interned |-> u.interned, pools |-> w.pools, chain |-> u.chain, refs |-> u.refs]
      /\ w.pools = [u.pools EXCEPT ![m] = Append(old, v)]
  <2>. DEFINE p == [u.pools EXCEPT ![m] = Append(old, v)]
  <2>1. w = [u EXCEPT !.pools = p]  BY Zenon DEF AddConstant
  <2>. HIDE DEF p, w
  <2>2. w = [interned |-> u.interned, pools |-> p, chain |-> u.chain, refs |-> u.refs]
    BY <2>1 DEF UnitOK, UnitType
  <2>3. /\ w.chain = u.chain /\ w.interned = u.interned /\ w.refs = u.refs
        /\ w.pools = p
    BY <2>2
  <2>4. w = [interned |-> u.interned, pools |-> w.pools, chain |-> u.chain, refs |-> u.refs]
    BY <2>2, <2>3
  <2>. QED  BY <2>3, <2>4, Zenon DEF p
<1>2. w.pools = [u.pools EXCEPT ![m] = Append(old, v)]  BY <1>1
<1>3. /\ Append(old, v) \in Seq(Constants) /\ Len(Append(old, v)) = Len(old) + 1
      /\ Len(old) \in Nat
      /\ \A i \in 1 .. Len(old) : Append(old, v)[i] = old[i]
      /\ Append(old, v)[Len(old) + 1] = v
  BY <1>0
<1>4. /\ w.pools \in Seq(Seq(Constants)) /\ DOMAIN w.pools = DOMAIN u.pools
      /\ w.pools[m] = Append(old, v)
      /\ \A c \in DOMAIN u.pools : c # m => w.pools[c] = u.pools[c]
  BY <1>0, <1>2, <1>3
<1>5. at = [chunk |-> m, index |-> Len(old)]  BY DEF NextIndex
<1>6. \A c \in DOMAIN u.pools : \A i \in DOMAIN u.pools[c] :
        i \in DOMAIN w.pools[c] /\ w.pools[c][i] = u.pools[c][i]
  <2>1. DOMAIN Append(old, v) = 1 .. Len(old) + 1 /\ DOMAIN old = 1 .. Len(old)
    BY <1>0, <1>3
  <2>. HIDE DEF w, old
  <2>. SUFFICES ASSUME NEW c \in DOMAIN u.pools, NEW i \in DOMAIN u.pools[c]
                PROVE  i \in DOMAIN w.pools[c] /\ w.pools[c][i] = u.pools[c][i]
    OBVIOUS
  <2>2. CASE c # m  BY <1>4, <2>2
  <2>3. CASE c = m
    <3>1. i \in 1 .. Len(old)  BY <2>1, <2>3 DEF old
    <3>2. w.pools[c] = Append(old, v)  BY <1>4, <2>3
    <3>. QED  BY <1>3, <2>1, <2>3, <3>1, <3>2 DEF old
  <2>. QED  BY <2>2, <2>3
<1>. HIDE DEF w, at
<1>7. w \in UnitType
  <2>1. w = [interned |-> u.interned, pools |-> w.pools, chain |-> u.chain, refs |-> u.refs]
    BY <1>1, Zenon
  <2>2. /\ u.interned \in [Names -> [chunk : Nat, index : Nat]]
        /\ u.chain \in Seq(CompilerType)
        /\ u.refs \in SUBSET [index : Nat, value : Names \cup {Other}]
    BY DEF UnitOK, UnitType
  <2>3. w.pools \in Seq(Seq(Names \cup {Other}))  BY <1>4 DEF Constants
  <2>. QED  BY <2>1, <2>2, <2>3 DEF UnitType
<1>8. InternedResolve(w)
  <2>. SUFFICES ASSUME NEW n \in Names, w.interned[n] # NoIndex
                PROVE  /\ w.interned[n].chunk \in DOMAIN w.pools
                       /\ w.interned[n].index + 1 \in DOMAIN w.pools[w.interned[n].chunk]
                       /\ w.pools[w.interned[n].chunk][w.interned[n].index + 1] = n
    BY DEF InternedResolve
  <2>1. /\ u.interned[n].chunk \in DOMAIN u.pools
        /\ u.interned[n].index + 1 \in DOMAIN u.pools[u.interned[n].chunk]
        /\ u.pools[u.interned[n].chunk][u.interned[n].index + 1] = n
    BY <1>1 DEF UnitOK, ConstantsOK, InternedResolve
  <2>. DEFINE g == u.interned[n]
  <2>2. w.interned[n] = g  BY <1>1
  <2>3. g.chunk \in DOMAIN w.pools  BY <1>4, <2>1
  <2>4. /\ g.index + 1 \in DOMAIN w.pools[g.chunk]
        /\ w.pools[g.chunk][g.index + 1] = u.pools[g.chunk][g.index + 1]
    <3>. HIDE DEF g
    <3>. QED  BY <1>6, <2>1 DEF g
  <2>. QED  BY <2>1, <2>2, <2>3, <2>4
<1>9. \A r \in w.refs :
        r.index < Len(w.pools[Script]) /\ w.pools[Script][r.index + 1] = r.value
  <2>. SUFFICES ASSUME NEW r \in w.refs
                PROVE  r.index < Len(w.pools[Script]) /\ w.pools[Script][r.index + 1] = r.value
    OBVIOUS
  <2>1. r.index \in Nat /\ r.index < Len(u.pools[1]) /\ u.pools[1][r.index + 1] = r.value
    BY <1>1 DEF UnitOK, UnitType, ConstantsOK, Script
  <2>2. u.pools[1] \in Seq(Constants)  BY <1>0
  <2>3. r.index + 1 \in DOMAIN u.pools[1]  BY <2>1, <2>2
  <2>4. r.index + 1 \in DOMAIN w.pools[1] /\ w.pools[1][r.index + 1] = r.value
    BY <1>0, <1>6, <2>1, <2>3
  <2>5. w.pools[1] \in Seq(Constants)  BY <1>0, <1>4
  <2>. QED  BY <2>1, <2>4, <2>5 DEF Script
<1>10. \A c \in DOMAIN w.chain : CompilerOK(w.chain[c], w.pools)
  BY <1>1, <1>4 DEF UnitOK, CompilerOK
<1>11. w.pools # <<>> /\ w.chain # <<>>  BY <1>0, <1>1, <1>4 DEF UnitOK
<1>12. UnitOK(w)  BY <1>7, <1>8, <1>9, <1>10, <1>11 DEF UnitOK, ConstantsOK
<1>13. at \in [chunk : Nat, index : Nat] /\ at # NoIndex  BY <1>0, <1>3, <1>5 DEF NoIndex
<1>14. at.chunk = m /\ at.index = Len(old)  BY <1>5
<1>15. /\ at.chunk \in DOMAIN w.pools
       /\ at.index + 1 \in DOMAIN w.pools[at.chunk]
       /\ w.pools[at.chunk][at.index + 1] = v
  BY <1>0, <1>3, <1>4, <1>14
<1>. QED  BY <1>1, <1>4, <1>12, <1>13, <1>15 DEF w, at

(* An operand whose constant is there resolves.                            *)
LEMMA InstructionSound ==
  ASSUME NEW u, UnitOK(u), NEW at \in [chunk : Nat, index : Nat], NEW v \in Constants,
         at.chunk \in DOMAIN u.pools, at.index + 1 \in DOMAIN u.pools[at.chunk],
         u.pools[at.chunk][at.index + 1] = v
  PROVE  LET w == Instruction(u, at, v)
         IN  /\ UnitOK(w) /\ w.chain = u.chain
             /\ w.interned = u.interned /\ w.pools = u.pools
<1>. DEFINE w == Instruction(u, at, v)
            r == [index |-> at.index, value |-> v]
<1>1. CASE at.chunk # Script  BY <1>1 DEF Instruction
<1>2. CASE at.chunk = Script
  <2>1. w = [interned |-> u.interned, pools |-> u.pools,
             chain |-> u.chain, refs |-> u.refs \cup {r}]
    BY <1>2 DEF UnitOK, UnitType, Instruction
  <2>2. /\ w.interned = u.interned /\ w.pools = u.pools
        /\ w.chain = u.chain /\ w.refs = u.refs \cup {r}
    BY <2>1
  <2>3. r \in [index : Nat, value : Names \cup {Other}]  BY DEF Constants
  <2>4. w \in UnitType  BY <2>1, <2>3 DEF UnitOK, UnitType
  <2>5. u.pools[1] \in Seq(Constants)  BY <1>2, CurrentTyped DEF Script
  <2>6. at.index < Len(u.pools[1]) /\ u.pools[1][at.index + 1] = v
    BY <1>2, <2>5 DEF Script
  <2>7. r.index = at.index /\ r.value = v  OBVIOUS
  <2>. HIDE DEF w, r
  <2>8. \A s \in w.refs :
          s.index < Len(w.pools[Script]) /\ w.pools[Script][s.index + 1] = s.value
    BY <2>2, <2>6, <2>7 DEF UnitOK, ConstantsOK, Script
  <2>9. UnitOK(w)  BY <2>2, <2>4, <2>8 DEF UnitOK, ConstantsOK, InternedResolve
  <2>. QED  BY <2>2, <2>9 DEF w
<1>. QED  BY <1>1, <1>2

(* Every string is remembered with an index where it is found.             *)
LEMMA IndexedSound ==
  ASSUME NEW u, UnitOK(u), NEW n \in Names
  PROVE  LET w == Indexed(u, n)
         IN  /\ UnitOK(w) /\ w.chain = u.chain
             /\ w.interned[n] \in [chunk : Nat, index : Nat] /\ w.interned[n] # NoIndex
<1>. DEFINE w == Indexed(u, n)
            a == AddConstant(u, n)
            at == NextIndex(u)
<1>1. CASE u.interned[n] # NoIndex
  BY <1>1 DEF UnitOK, UnitType, Indexed
<1>2. CASE u.interned[n] = NoIndex
  <2>1. /\ UnitOK(a) /\ a.chain = u.chain
        /\ at \in [chunk : Nat, index : Nat] /\ at # NoIndex
        /\ at.chunk \in DOMAIN a.pools
        /\ at.index + 1 \in DOMAIN a.pools[at.chunk]
        /\ a.pools[at.chunk][at.index + 1] = n
    BY AddConstantSound DEF Constants
  <2>2. w = [a EXCEPT !.interned[n] = at]  BY <1>2 DEF Indexed
  <2>. HIDE DEF a, at, w
  <2>3. w = [interned |-> [a.interned EXCEPT ![n] = at], pools |-> a.pools,
             chain |-> a.chain, refs |-> a.refs]
    BY <2>1, <2>2 DEF UnitOK, UnitType
  <2>4. /\ w.interned = [a.interned EXCEPT ![n] = at]
        /\ w.pools = a.pools /\ w.chain = a.chain /\ w.refs = a.refs
    BY <2>3
  <2>5. a.interned \in [Names -> [chunk : Nat, index : Nat]]
    BY <2>1 DEF UnitOK, UnitType
  <2>6. /\ w.interned \in [Names -> [chunk : Nat, index : Nat]] /\ w.interned[n] = at
        /\ \A m \in Names : m # n => w.interned[m] = a.interned[m]
    BY <2>1, <2>4, <2>5
  <2>7. w \in UnitType  BY <2>1, <2>3, <2>4, <2>6 DEF UnitOK, UnitType
  <2>8. InternedResolve(w)
    BY <2>1, <2>4, <2>6 DEF UnitOK, ConstantsOK, InternedResolve
  <2>9. UnitOK(w)  BY <2>1, <2>4, <2>7, <2>8 DEF UnitOK, ConstantsOK
  <2>. QED  BY <2>1, <2>4, <2>6, <2>9 DEF w
<1>. QED  BY <1>1, <1>2

(* An instruction that names a variable leaves the Compilers alone.        *)
LEMMA NamedBySound ==
  ASSUME NEW u, UnitOK(u), NEW n \in Names
  PROVE  UnitOK(NamedBy(u, n)) /\ NamedBy(u, n).chain = u.chain
<1>. DEFINE v == Indexed(u, n)
<1>1. /\ UnitOK(v) /\ v.chain = u.chain
      /\ v.interned[n] \in [chunk : Nat, index : Nat] /\ v.interned[n] # NoIndex
  BY IndexedSound
<1>. HIDE DEF v
<1>2. /\ v.interned[n].chunk \in DOMAIN v.pools
      /\ v.interned[n].index + 1 \in DOMAIN v.pools[v.interned[n].chunk]
      /\ v.pools[v.interned[n].chunk][v.interned[n].index + 1] = n
  BY <1>1 DEF UnitOK, ConstantsOK, InternedResolve
<1>3. n \in Constants  BY DEF Constants
<1>4. /\ UnitOK(Instruction(v, v.interned[n], n))
      /\ Instruction(v, v.interned[n], n).chain = v.chain
  BY <1>1, <1>2, <1>3, InstructionSound
<1>. QED  BY <1>1, <1>4 DEF NamedBy, v

-----------------------------------------------------------------------------
(* Compilers. *)

(* w is what u becomes when k takes the place of its innermost Compiler,   *)
(* whatever constants are added.                                           *)
Steps(u, w, k) ==
  /\ UnitOK(w)
  /\ w.chain = [u.chain EXCEPT ![Top(u)] = k]

(* What a unit has become, read off its chain.                             *)
LEMMA StepsCurrent ==
  ASSUME NEW u, NEW w, NEW k, UnitOK(u), Steps(u, w, k)
  PROVE  /\ Top(w) = Top(u) /\ Current(w) = k /\ k \in CompilerType
         /\ DOMAIN w.chain = DOMAIN u.chain /\ w.chain[Top(u)] = k
         /\ \A c \in DOMAIN u.chain : c # Top(u) => w.chain[c] = u.chain[c]
<1>1. u.chain \in Seq(CompilerType) /\ Top(u) \in DOMAIN u.chain  BY CurrentTyped
<1>2. w.chain \in Seq(CompilerType)  BY CurrentTyped DEF Steps
<1>3. DOMAIN w.chain = DOMAIN u.chain /\ w.chain[Top(u)] = k
  BY <1>1 DEF Steps
<1>4. Top(w) = Top(u)  BY <1>1, <1>2, <1>3 DEF Top
<1>5. k \in CompilerType  BY <1>1, <1>2, <1>3
<1>6. \A c \in DOMAIN u.chain : c # Top(u) => w.chain[c] = u.chain[c]
  BY <1>1 DEF Steps
<1>. QED  BY <1>3, <1>4, <1>5, <1>6 DEF Current

(* One step after another is one step.                                     *)
LEMMA StepsTwice ==
  ASSUME NEW u, NEW v, NEW w, NEW k, NEW l,
         UnitOK(u), Steps(u, v, k), Steps(v, w, l)
  PROVE  Steps(u, w, l)
<1>1. Top(v) = Top(u)  BY StepsCurrent
<1>2. u.chain \in Seq(CompilerType)  BY CurrentTyped
<1>3. w.chain = [[u.chain EXCEPT ![Top(u)] = k] EXCEPT ![Top(u)] = l]
  BY <1>1 DEF Steps
<1>4. [[u.chain EXCEPT ![Top(u)] = k] EXCEPT ![Top(u)] = l] = [u.chain EXCEPT ![Top(u)] = l]
  BY <1>2
<1>. QED  BY <1>3, <1>4 DEF Steps

(* Where the chain is the same, the innermost Compiler is, too.            *)
LEMMA StepsSame ==
  ASSUME NEW u, NEW w, UnitOK(u), UnitOK(w), w.chain = u.chain
  PROVE  Steps(u, w, Current(u))
<1>1. u.chain \in Seq(CompilerType) /\ Top(u) \in DOMAIN u.chain  BY CurrentTyped
<1>2. u.chain = [u.chain EXCEPT ![Top(u)] = u.chain[Top(u)]]  BY <1>1
<1>. QED  BY <1>2 DEF Steps, Current

(* A Compiler of the same chunk may take the place of the innermost one.   *)
LEMMA Replaced ==
  ASSUME NEW u, UnitOK(u), NEW k \in CompilerType, CompilerOK(k, u.pools)
  PROVE  Steps(u, [u EXCEPT !.chain = [u.chain EXCEPT ![Top(u)] = k]], k)
<1>. DEFINE h == [u.chain EXCEPT ![Top(u)] = k]
            w == [u EXCEPT !.chain = h]
<1>1. u.chain \in Seq(CompilerType) /\ Top(u) \in DOMAIN u.chain  BY CurrentTyped
<1>2. /\ h \in Seq(CompilerType) /\ h # <<>> /\ DOMAIN h = DOMAIN u.chain
      /\ \A c \in DOMAIN u.chain : h[c] = IF c = Top(u) THEN k ELSE u.chain[c]
  BY <1>1
<1>. HIDE DEF h
<1>3. w = [interned |-> u.interned, pools |-> u.pools, chain |-> h, refs |-> u.refs]
  <2>1. w = [u EXCEPT !.chain = h]  BY Zenon
  <2>2. u \in UnitType  BY DEF UnitOK
  <2>. HIDE DEF w
  <2>. QED  BY <2>1, <2>2 DEF UnitType
<1>4. w.interned = u.interned /\ w.pools = u.pools /\ w.chain = h /\ w.refs = u.refs
  BY <1>3
<1>5. w \in UnitType  BY <1>2, <1>3 DEF UnitOK, UnitType
<1>. HIDE DEF w
<1>6. ConstantsOK(w)  BY <1>4 DEF UnitOK, ConstantsOK, InternedResolve
<1>7. \A c \in DOMAIN w.chain : CompilerOK(w.chain[c], w.pools)
  BY <1>2, <1>4 DEF UnitOK
<1>8. UnitOK(w)  BY <1>2, <1>4, <1>5, <1>6, <1>7 DEF UnitOK
<1>. QED  BY <1>4, <1>8 DEF Steps, w, h

(* Code leaves n values more.                                              *)
LEMMA RaisedSound ==
  ASSUME NEW u, UnitOK(u), NEW n \in Int
  PROVE  Steps(u, Raised(u, n), [Current(u) EXCEPT !.height = @ + n])
<1>. DEFINE k == [Current(u) EXCEPT !.height = @ + n]
<1>1. Current(u) \in CompilerType /\ CompilerOK(Current(u), u.pools)  BY CurrentTyped
<1>2. k \in CompilerType /\ CompilerOK(k, u.pools)
  BY <1>1 DEF CompilerType, CompilerOK, OwnSlot
<1>3. Raised(u, n) = [u EXCEPT !.chain = [u.chain EXCEPT ![Top(u)] = k]]
  BY Zenon DEF Raised, Current
<1>. HIDE DEF k
<1>4. Steps(u, Raised(u, n), k)  BY <1>2, <1>3, Replaced
<1>. QED  BY <1>4 DEF k

(* A `set` statement is counted.                                           *)
LEMMA SetCountSound ==
  ASSUME NEW u, UnitOK(u)
  PROVE  Steps(u, SetCount(u), [Current(u) EXCEPT !.sets = @ + 1])
<1>. DEFINE k == [Current(u) EXCEPT !.sets = @ + 1]
<1>1. Current(u) \in CompilerType /\ CompilerOK(Current(u), u.pools)  BY CurrentTyped
<1>2. k \in CompilerType /\ CompilerOK(k, u.pools)
  BY <1>1 DEF CompilerType, CompilerOK, OwnSlot
<1>3. SetCount(u) = [u EXCEPT !.chain = [u.chain EXCEPT ![Top(u)] = k]]
  BY Zenon DEF SetCount, Current
<1>. HIDE DEF k
<1>4. Steps(u, SetCount(u), k)  BY <1>2, <1>3, Replaced
<1>. QED  BY <1>4 DEF k

(* A scope is entered.                                                     *)
LEMMA DeepenedSound ==
  ASSUME NEW u, UnitOK(u)
  PROVE  Steps(u, [u EXCEPT !.chain[Top(u)].deep = @ + 1],
               [Current(u) EXCEPT !.deep = @ + 1])
<1>. DEFINE k == [Current(u) EXCEPT !.deep = @ + 1]
            w == [u EXCEPT !.chain[Top(u)].deep = @ + 1]
<1>1. Current(u) \in CompilerType /\ CompilerOK(Current(u), u.pools)  BY CurrentTyped
<1>2. k \in CompilerType /\ CompilerOK(k, u.pools)
  BY <1>1 DEF CompilerType, CompilerOK, OwnSlot
<1>3. w = [u EXCEPT !.chain = [u.chain EXCEPT ![Top(u)] = k]]
  BY Zenon DEF Current
<1>. HIDE DEF k, w
<1>4. Steps(u, w, k)  BY <1>2, <1>3, Replaced
<1>. QED  BY <1>4 DEF k, w

(* A number, a void or a function is a constant and a value more.          *)
LEMMA WriteConstantSound ==
  ASSUME NEW u, UnitOK(u)
  PROVE  Steps(u, WriteConstant(u), [Current(u) EXCEPT !.height = @ + 1])
<1>. DEFINE a == AddConstant(u, Other)
            w == Instruction(a, NextIndex(u), Other)
<1>1. /\ UnitOK(a) /\ a.chain = u.chain
      /\ NextIndex(u) \in [chunk : Nat, index : Nat]
      /\ NextIndex(u).chunk \in DOMAIN a.pools
      /\ NextIndex(u).index + 1 \in DOMAIN a.pools[NextIndex(u).chunk]
      /\ a.pools[NextIndex(u).chunk][NextIndex(u).index + 1] = Other
  BY AddConstantSound DEF Constants
<1>2. Other \in Constants  BY DEF Constants
<1>. HIDE DEF a
<1>3. UnitOK(w) /\ w.chain = a.chain  BY <1>1, <1>2, InstructionSound
<1>. HIDE DEF w
<1>4. Steps(w, Raised(w, 1), [Current(w) EXCEPT !.height = @ + 1])  BY <1>3, RaisedSound
<1>5. Current(w) = Current(u)  BY <1>1, <1>3 DEF Current, Top
<1>6. Steps(u, w, Current(u))  BY <1>1, <1>3, StepsSame
<1>7. Steps(u, Raised(w, 1), [Current(u) EXCEPT !.height = @ + 1])
  BY <1>4, <1>5, <1>6, StepsTwice
<1>. QED  BY <1>7 DEF WriteConstant, w, a

(* A variable's value is one more.                                         *)
LEMMA ReadSound ==
  ASSUME NEW u, UnitOK(u), NEW n \in Names
  PROVE  Steps(u, Read(u, n), [Current(u) EXCEPT !.height = @ + 1])
<1>. DEFINE w == IF ResolveLocal(u, n) = 0 THEN NamedBy(u, n) ELSE u
<1>1. UnitOK(w) /\ w.chain = u.chain  BY NamedBySound
<1>. HIDE DEF w
<1>2. Steps(w, Raised(w, 1), [Current(w) EXCEPT !.height = @ + 1])  BY <1>1, RaisedSound
<1>3. Current(w) = Current(u)  BY <1>1 DEF Current, Top
<1>4. Steps(u, w, Current(u))  BY <1>1, StepsSame
<1>5. Steps(u, Raised(w, 1), [Current(u) EXCEPT !.height = @ + 1])
  BY <1>2, <1>3, <1>4, StepsTwice
<1>. QED  BY <1>5 DEF Read, w

(* In a scope a declaration is a local that is not ready; outside of any   *)
(* it is none.                                                             *)
DeclaredCompiler(k, n) ==
  IF k.deep = 0
  THEN k
  ELSE [k EXCEPT !.locals = Append(@, [name |-> n, depth |-> -1])]

(* A name that is not refused is the innermost Compiler's last local.      *)
LEMMA DeclaredSound ==
  ASSUME NEW u, UnitOK(u), NEW n \in Names, ~Refused(u, n)
  PROVE  Steps(u, Declared(u, n), DeclaredCompiler(Current(u), n))
<1>. DEFINE v == Indexed(u, n)
            k == DeclaredCompiler(Current(u), n)
            l == [name |-> n, depth |-> -1]
<1>1. UnitOK(v) /\ v.chain = u.chain  BY IndexedSound
<1>2. Top(v) = Top(u) /\ Current(v) = Current(u)  BY <1>1 DEF Current, Top
<1>3. Steps(u, v, Current(u))  BY <1>1, StepsSame
<1>. HIDE DEF v
<1>4. CASE Current(u).deep = 0
  BY <1>3, <1>4 DEF Declared, DeclaredCompiler, v
<1>5. CASE Current(u).deep # 0
  <2>1. /\ Current(v) \in CompilerType /\ CompilerOK(Current(v), v.pools)
        /\ Locals(u) \in Seq(LocalType)
    BY <1>1, CurrentTyped
  <2>2. Len(Locals(u)) < LocalLimit /\ Len(Locals(u)) \in 1 .. LocalLimit
    <3>1. Len(Locals(u)) \in 1 .. LocalLimit /\ Current(u).deep \in Nat
      BY <1>2, <2>1 DEF CompilerOK, Locals, CompilerType
    <3>2. Len(Locals(u)) # LocalLimit  BY <1>5, <3>1 DEF Refused
    <3>. QED  BY <3>1, <3>2, CompilerAssumption
  <2>3. l \in LocalType  BY DEF LocalType
  <2>4. /\ Append(Locals(u), l) \in Seq(LocalType)
        /\ Len(Append(Locals(u), l)) \in 1 .. LocalLimit
        /\ Append(Locals(u), l)[1] = Locals(u)[1]
    <3>. HIDE DEF l
    <3>. QED  BY <2>1, <2>2, <2>3, CompilerAssumption
  <2>5. k = [Current(u) EXCEPT !.locals = Append(Locals(u), l)]
    BY <1>5 DEF DeclaredCompiler, Locals
  <2>. HIDE DEF l
  <2>6. k \in CompilerType /\ CompilerOK(k, v.pools)
    BY <1>2, <2>1, <2>4, <2>5 DEF CompilerType, CompilerOK, OwnSlot, Locals
  <2>7. Declared(u, n) = [v EXCEPT !.chain = [v.chain EXCEPT ![Top(v)] = k]]
    <3>1. Declared(u, n) = [v EXCEPT !.chain[Top(u)].locals = Append(@, l)]
      BY <1>5 DEF Declared, v, l
    <3>2. k = [v.chain[Top(u)] EXCEPT !.locals = Append(v.chain[Top(u)].locals, l)]
      BY <1>2, <2>5 DEF Current, Locals
    <3>. HIDE DEF k
    <3>. QED  BY <1>2, <3>1, <3>2, Zenon
  <2>. HIDE DEF k
  <2>8. Steps(v, Declared(u, n), k)  BY <1>1, <2>6, <2>7, Replaced
  <2>9. Steps(u, Declared(u, n), k)  BY <1>3, <2>8, StepsTwice
  <2>. QED  BY <2>9 DEF k
<1>. QED  BY <1>4, <1>5

(* The last local becomes ready, or the value goes to a global.            *)
DefinedCompiler(k) ==
  IF k.deep = 0
  THEN [k EXCEPT !.height = @ + (-1)]
  ELSE [k EXCEPT !.locals[Len(k.locals)].depth = k.deep]

(* define_variable makes the last local ready, or names a global.          *)
LEMMA DefinedSound ==
  ASSUME NEW u, UnitOK(u), NEW n \in Names,
         Current(u).deep > 0 => Len(Locals(u)) > 1
  PROVE  Steps(u, Defined(u, n), DefinedCompiler(Current(u)))
<1>1. CASE Current(u).deep = 0
  <2>. DEFINE w == NamedBy(u, n)
  <2>1. UnitOK(w) /\ w.chain = u.chain  BY NamedBySound
  <2>. HIDE DEF w
  <2>2. Steps(w, Raised(w, -1), [Current(w) EXCEPT !.height = @ + (-1)])  BY <2>1, RaisedSound
  <2>3. Current(w) = Current(u)  BY <2>1 DEF Current, Top
  <2>4. Steps(u, w, Current(u))  BY <2>1, StepsSame
  <2>5. Steps(u, Raised(w, -1), [Current(u) EXCEPT !.height = @ + (-1)])
    BY <2>2, <2>3, <2>4, StepsTwice
  <2>. QED  BY <1>1, <2>5 DEF Defined, DefinedCompiler, w
<1>2. CASE Current(u).deep # 0
  <2>. DEFINE k == Current(u)
              s == k.locals
              d == k.deep
              m == Len(s)
              t == [s EXCEPT ![m] = [s[m] EXCEPT !.depth = d]]
              j == [k EXCEPT !.locals = t]
  <2>1. k \in CompilerType /\ CompilerOK(k, u.pools) /\ s \in Seq(LocalType)
    BY CurrentTyped DEF Locals
  <2>2. d \in Nat /\ d > 0 /\ m \in Nat /\ m > 1
    BY <1>2, <2>1 DEF CompilerType, Locals
  <2>3. [s[m] EXCEPT !.depth = d] \in LocalType
    <3>1. s[m] \in LocalType  BY <2>1, <2>2
    <3>. HIDE DEF s, m, d
    <3>. QED  BY <2>2, <3>1 DEF LocalType
  <2>4. t \in Seq(LocalType) /\ Len(t) = m /\ t[1] = s[1]
    <3>. HIDE DEF s, m, d
    <3>1. m = Len(s)  BY DEF m
    <3>. QED  BY <2>1, <2>2, <2>3, <3>1
  <2>5. j \in CompilerType /\ CompilerOK(j, u.pools)
    <3>1. j.locals = t /\ j.chunk = k.chunk  BY <2>1 DEF CompilerType
    <3>2. j \in CompilerType
      <4>. HIDE DEF t
      <4>. QED  BY <2>1, <2>4 DEF CompilerType
    <3>3. CompilerOK(j, u.pools)
      <4>. HIDE DEF t, j
      <4>. QED  BY <2>1, <2>4, <3>1 DEF CompilerOK, OwnSlot
    <3>. QED  BY <3>2, <3>3
  <2>6. Defined(u, n) = [u EXCEPT !.chain = [u.chain EXCEPT ![Top(u)] = j]]
    BY <1>2, Zenon DEF Defined, Current, Locals
  <2>7. DefinedCompiler(k) = j  BY <1>2 DEF DefinedCompiler
  <2>. HIDE DEF j, k
  <2>8. Steps(u, Defined(u, n), j)  BY <2>5, <2>6, Replaced
  <2>. QED  BY <2>7, <2>8 DEF k
<1>. QED  BY <1>1, <1>2

(* A set of natural numbers with a bound has a greatest element.           *)
LEMMA GreatestOf ==
  ASSUME NEW b \in Nat, NEW T \in SUBSET (0 .. b), T # {}
  PROVE  \E x \in T : \A y \in T : y <= x
<1>. DEFINE Less == {p \in Nat \X Nat : p[1] < p[2]}
            R == {b - x : x \in T}
<1>1. IsWellFoundedOn(Less, Nat)
  BY NatLessThanWellFounded DEF OpToRel
<1>2. R \subseteq Nat /\ R # {}
  <2>1. \A x \in T : x \in 0 .. b /\ b - x \in Nat  OBVIOUS
  <2>. QED  BY <2>1
<1>3. PICK r \in R : \A y \in R : <<y, r>> \notin Less
  <2>. HIDE DEF Less, R
  <2>. QED  BY <1>1, <1>2, WFMin
<1>4. PICK x \in T : r = b - x  OBVIOUS
<1>5. \A y \in T : y <= x
  <2>. SUFFICES ASSUME NEW y \in T PROVE y <= x  OBVIOUS
  <2>1. b - y \in R /\ b - y \in Nat /\ r \in Nat  BY <1>2
  <2>2. ~(b - y < r)
    <3>1. <<b - y, r>> \notin Less  BY <1>3, <2>1
    <3>. QED  BY <2>1, <3>1
  <2>. QED  BY <1>4, <2>1, <2>2
<1>. QED  BY <1>5

(* scope_end keeps a prefix that ends with a local of an outer scope, and  *)
(* slot 0 is in it.                                                        *)
LEMMA KeptPrefix ==
  ASSUME NEW s \in Seq(LocalType), Len(s) >= 1, s[1].depth = 0, NEW d \in Nat
  PROVE  \E m \in 1 .. Len(s) :
           /\ Kept(s, d) = SubSeq(s, 1, m)
           /\ s[m].depth <= d
           /\ \A i \in m + 1 .. Len(s) : s[i].depth > d
<1>. DEFINE kept == {i \in DOMAIN s : s[i].depth <= d}
            Above(n) == \A i \in kept : i <= n
            top  == CHOOSE n \in kept \cup {0} : Above(n)
<1>1. DOMAIN s = 1 .. Len(s) /\ Len(s) \in Nat  OBVIOUS
<1>2. kept \cup {0} \in SUBSET (0 .. Len(s)) /\ 1 \in kept
  BY <1>1
<1>3. \E n \in kept \cup {0} : Above(n)
  <2>. HIDE DEF kept
  <2>1. \E n \in kept \cup {0} : \A i \in kept \cup {0} : i <= n
    BY <1>1, <1>2, GreatestOf
  <2>. QED  BY <2>1
<1>4. top \in kept \cup {0} /\ \A i \in kept : i <= top
  <2>1. top \in kept \cup {0} /\ Above(top)
    <3>. HIDE DEF kept, Above
    <3>. QED  BY <1>3
  <2>. HIDE DEF top, kept
  <2>. QED  BY <2>1 DEF Above
<1>5. top \in kept
  <2>. HIDE DEF top, kept
  <2>. QED  BY <1>2, <1>4
<1>6. Kept(s, d) = SubSeq(s, 1, top)  BY Zenon DEF Kept
<1>7. \A i \in 1 .. Len(s) : s[i].depth \in Int
  <2>1. \A i \in 1 .. Len(s) : s[i] \in LocalType  OBVIOUS
  <2>. QED  BY <2>1 DEF LocalType
<1>. HIDE DEF top
<1>8. \A i \in top + 1 .. Len(s) : s[i].depth > d
  <2>. SUFFICES ASSUME NEW i \in top + 1 .. Len(s) PROVE s[i].depth > d  OBVIOUS
  <2>1. i \in 1 .. Len(s) /\ i > top  BY <1>1, <1>2, <1>5
  <2>2. i \notin kept  BY <1>1, <1>2, <1>4, <2>1
  <2>. QED  BY <1>1, <1>7, <2>1, <2>2
<1>. QED  BY <1>1, <1>5, <1>6, <1>8

ScopeEndedCompiler(k, m) ==
  [k EXCEPT !.deep = @ - 1, !.locals = SubSeq(k.locals, 1, m),
            !.height = @ - (Len(k.locals) - m)]

(* A scope is left: its locals go, with the cells they have.               *)
LEMMA ScopeEndedSound ==
  ASSUME NEW u, UnitOK(u), Current(u).deep > 0
  PROVE  \E m \in 1 .. Len(Locals(u)) :
           /\ Steps(u, ScopeEnded(u), ScopeEndedCompiler(Current(u), m))
           /\ Locals(u)[m].depth <= Current(u).deep - 1
           /\ \A i \in m + 1 .. Len(Locals(u)) : Locals(u)[i].depth > Current(u).deep - 1
<1>. DEFINE k == Current(u)
            s == Locals(u)
<1>1. /\ k \in CompilerType /\ CompilerOK(k, u.pools)
      /\ s \in Seq(LocalType) /\ s = k.locals
  BY CurrentTyped DEF Locals
<1>2. Len(s) \in 1 .. LocalLimit /\ s[1].depth = 0 /\ k.deep - 1 \in Nat
  BY <1>1 DEF CompilerOK, OwnSlot, CompilerType
<1>3. PICK m \in 1 .. Len(s) :
        /\ Kept(s, k.deep - 1) = SubSeq(s, 1, m)
        /\ s[m].depth <= k.deep - 1
        /\ \A i \in m + 1 .. Len(s) : s[i].depth > k.deep - 1
  <2>1. Len(s) >= 1  BY <1>2, CompilerAssumption
  <2>. HIDE DEF k, s
  <2>. QED  BY <1>1, <1>2, <2>1, KeptPrefix
<1>4. /\ SubSeq(s, 1, m) \in Seq(LocalType) /\ Len(SubSeq(s, 1, m)) = m
      /\ SubSeq(s, 1, m)[1] = s[1]
  <2>. HIDE DEF s
  <2>. QED  BY <1>1, <1>2, SubSeqProperties
<1>. DEFINE j == ScopeEndedCompiler(k, m)
<1>5. j \in CompilerType /\ CompilerOK(j, u.pools)
  <2>. HIDE DEF s, k
  <2>1. /\ j.locals = SubSeq(s, 1, m) /\ j.chunk = k.chunk
        /\ j.deep = k.deep - 1 /\ j.height \in Int /\ j.sets = k.sets
        /\ j \in CompilerType
    <3>. DEFINE q == SubSeq(s, 1, m)
    <3>1. k.height - (Len(s) - m) \in Int
      BY <1>1, <1>2 DEF CompilerType
    <3>2. j = [k EXCEPT !.deep = k.deep - 1, !.locals = q,
                        !.height = k.height - (Len(s) - m)]
      BY <1>1, Zenon DEF ScopeEndedCompiler
    <3>. HIDE DEF q, j
    <3>3. q \in Seq(LocalType)  BY <1>4 DEF q
    <3>4. /\ j.locals = q /\ j.chunk = k.chunk
          /\ j.deep = k.deep - 1 /\ j.height \in Int /\ j.sets = k.sets
          /\ j \in CompilerType
      BY <1>1, <1>2, <3>1, <3>2, <3>3 DEF CompilerType
    <3>. QED  BY <3>4 DEF q
  <2>. HIDE DEF j
  <2>2. Len(j.locals) \in 1 .. LocalLimit
    BY <1>2, <1>4, <2>1, CompilerAssumption
  <2>. QED  BY <1>1, <1>4, <2>1, <2>2 DEF CompilerOK, OwnSlot
<1>6. ScopeEnded(u) = [u EXCEPT !.chain = [u.chain EXCEPT ![Top(u)] = j]]
  <2>. DEFINE q == SubSeq(s, 1, m)
              y == Kept(Locals(u), Current(u).deep - 1)
              x == [Current(u) EXCEPT !.deep = @ - 1, !.locals = y,
                                      !.height = @ - (Len(Locals(u)) - Len(y))]
  <2>0. y = q  BY <1>3
  <2>1. ScopeEnded(u) = [u EXCEPT !.chain = [u.chain EXCEPT ![Top(u)] = x]]
    BY Zenon DEF ScopeEnded
  <2>2. Len(y) = m  BY <1>4, <2>0
  <2>3. x = j  BY <1>1, <2>0, <2>2, Zenon DEF ScopeEndedCompiler, Locals
  <2>. HIDE DEF x, j
  <2>. QED  BY <2>1, <2>3, Zenon
<1>. HIDE DEF j
<1>7. Steps(u, ScopeEnded(u), j)  BY <1>5, <1>6, Replaced
<1>. QED  BY <1>3, <1>7 DEF j

(* A function gets a chunk and a Compiler of its own.                      *)
LEMMA EnteredSound ==
  ASSUME NEW u, UnitOK(u)
  PROVE  LET w == Entered(u)
         IN  /\ UnitOK(w)
             /\ Top(w) = Top(u) + 1 /\ DOMAIN w.chain = 1 .. Top(u) + 1
             /\ \A c \in DOMAIN u.chain : w.chain[c] = u.chain[c]
             /\ \E chunk \in Nat : Current(w) = NewCompiler(chunk, 1)
<1>. DEFINE new == NewCompiler(Len(u.pools) + 1, 1)
            p == Append(u.pools, <<>>)
            h == Append(u.chain, new)
            w == Entered(u)
<1>1. /\ u.pools \in Seq(Seq(Constants)) /\ u.chain \in Seq(CompilerType)
      /\ 1 \in DOMAIN u.pools /\ Top(u) = Len(u.chain) /\ Top(u) \in Nat
  BY CurrentTyped DEF Top
<1>2. /\ new.chunk = Len(u.pools) + 1 /\ Len(new.locals) = 1
      /\ new.locals[1] = [name |-> NoName, depth |-> 0]
      /\ new \in CompilerType
  BY <1>1 DEF NewCompiler, CompilerType, LocalType
<1>. HIDE DEF new
<1>3. <<>> \in Seq(Constants)  OBVIOUS
<1>4. /\ p \in Seq(Seq(Constants)) /\ Len(p) = Len(u.pools) + 1
      /\ \A c \in DOMAIN u.pools : c \in DOMAIN p /\ p[c] = u.pools[c]
      /\ Len(u.pools) + 1 \in DOMAIN p
  BY <1>1, <1>3
<1>5. /\ h \in Seq(CompilerType) /\ Len(h) = Top(u) + 1 /\ h[Top(u) + 1] = new
      /\ \A c \in DOMAIN u.chain : h[c] = u.chain[c]
      /\ DOMAIN h = DOMAIN u.chain \cup {Top(u) + 1} /\ h # <<>>
  <2>. DEFINE c == u.chain
  <2>. HIDE DEF c
  <2>1. c \in Seq(CompilerType) /\ Len(c) = Top(u)  BY <1>1 DEF c
  <2>2. /\ Append(c, new) \in Seq(CompilerType) /\ Len(Append(c, new)) = Len(c) + 1
        /\ Append(c, new)[Len(c) + 1] = new
        /\ \A i \in 1 .. Len(c) : Append(c, new)[i] = c[i]
    BY <1>2, <2>1
  <2>3. DOMAIN c = 1 .. Len(c) /\ DOMAIN Append(c, new) = 1 .. Len(c) + 1
    BY <2>1, <2>2
  <2>4. /\ DOMAIN Append(c, new) = DOMAIN c \cup {Len(c) + 1}
        /\ Append(c, new) # <<>>
    BY <2>1, <2>2, <2>3
  <2>. QED  BY <2>1, <2>2, <2>3, <2>4 DEF c
<1>6. w = [u EXCEPT !.pools = p, !.chain = h]  BY Zenon DEF Entered, new
<1>. HIDE DEF p, h, w
<1>7. w = [interned |-> u.interned, pools |-> p, chain |-> h, refs |-> u.refs]
  BY <1>6 DEF UnitOK, UnitType
<1>8. w.interned = u.interned /\ w.pools = p /\ w.chain = h /\ w.refs = u.refs
  BY <1>7
<1>9. w \in UnitType
  BY <1>4, <1>5, <1>7 DEF UnitOK, UnitType, Constants
<1>10. InternedResolve(w)
  BY <1>4, <1>8 DEF UnitOK, ConstantsOK, InternedResolve
<1>11. ConstantsOK(w)
  <2>1. w.pools[Script] = u.pools[Script] /\ w.pools # <<>>
    BY <1>1, <1>4, <1>8 DEF Script
  <2>. QED  BY <1>8, <1>10, <2>1 DEF UnitOK, ConstantsOK
<1>12. \A c \in DOMAIN w.chain : CompilerOK(w.chain[c], w.pools)
  <2>. SUFFICES ASSUME NEW c \in DOMAIN w.chain PROVE CompilerOK(w.chain[c], w.pools)
    OBVIOUS
  <2>1. CASE c \in DOMAIN u.chain
    BY <1>4, <1>5, <1>8, <2>1 DEF UnitOK, CompilerOK
  <2>2. CASE c = Top(u) + 1
    <3>1. w.chain[c] = new /\ w.pools = p  BY <1>5, <1>8, <2>2, Zenon
    <3>2. new.chunk \in DOMAIN p /\ Len(new.locals) \in 1 .. LocalLimit
      BY <1>2, <1>4, CompilerAssumption
    <3>. QED  BY <1>2, <3>1, <3>2 DEF CompilerOK, OwnSlot
  <2>3. w.chain = h  BY <1>8
  <2>4. c \in DOMAIN u.chain \cup {Top(u) + 1}  BY <1>5, <2>3, Zenon
  <2>. QED  BY <2>1, <2>2, <2>4
<1>13. UnitOK(w)  BY <1>5, <1>8, <1>9, <1>11, <1>12 DEF UnitOK
<1>14. Top(w) = Top(u) + 1 /\ DOMAIN w.chain = 1 .. Top(u) + 1
  BY <1>1, <1>5, <1>8 DEF Top
<1>15. Current(w) = new  BY <1>5, <1>8, <1>14 DEF Current
<1>16. \E chunk \in Nat : Current(w) = NewCompiler(chunk, 1)
  BY <1>1, <1>15 DEF new
<1>. QED  BY <1>5, <1>8, <1>13, <1>14, <1>16 DEF w

(* The Compiler of a function is left.                                     *)
LEMMA LeftSound ==
  ASSUME NEW u, UnitOK(u), Top(u) > 1
  PROVE  LET w == [u EXCEPT !.chain = SubSeq(@, 1, Len(@) - 1)]
         IN  /\ UnitOK(w)
             /\ Top(w) = Top(u) - 1 /\ DOMAIN w.chain = 1 .. Top(u) - 1
             /\ \A c \in DOMAIN w.chain : w.chain[c] = u.chain[c]
<1>. DEFINE h == SubSeq(u.chain, 1, Len(u.chain) - 1)
            w == [u EXCEPT !.chain = SubSeq(@, 1, Len(@) - 1)]
<1>1. u.chain \in Seq(CompilerType) /\ Top(u) = Len(u.chain) /\ Top(u) \in Nat
  BY CurrentTyped DEF Top
<1>2. /\ h \in Seq(CompilerType) /\ Len(h) = Top(u) - 1 /\ h # <<>>
      /\ DOMAIN h = 1 .. Top(u) - 1
      /\ \A c \in 1 .. Top(u) - 1 : h[c] = u.chain[c]
  <2>. DEFINE c == u.chain
              n == Top(u) - 1
  <2>. HIDE DEF c
  <2>1. c \in Seq(CompilerType) /\ Len(c) - 1 = n /\ n \in Nat /\ n > 0
    BY <1>1 DEF c
  <2>2. \A i \in 1 .. n : c[i] \in CompilerType  BY <2>1
  <2>3. /\ SubSeq(c, 1, n) \in Seq(CompilerType) /\ Len(SubSeq(c, 1, n)) = n
        /\ \A i \in 1 .. n : SubSeq(c, 1, n)[i] = c[i]
    <3>. HIDE DEF n
    <3>1. n \in Int /\ 1 \in Int /\ 1 <= n /\ n - 1 + 1 = n  BY <2>1
    <3>2. /\ SubSeq(c, 1, n) \in Seq(CompilerType)
          /\ Len(SubSeq(c, 1, n)) = IF 1 <= n THEN n - 1 + 1 ELSE 0
          /\ \A i \in 1 .. n - 1 + 1 : SubSeq(c, 1, n)[i] = c[1 + i - 1]
      BY <2>2, <3>1, SubSeqProperties
    <3>3. \A i \in 1 .. n : 1 + i - 1 = i  BY <3>1
    <3>. QED  BY <3>1, <3>2, <3>3
  <2>4. DOMAIN SubSeq(c, 1, n) = 1 .. n /\ SubSeq(c, 1, n) # <<>>
    BY <2>1, <2>3
  <2>. QED  BY <2>1, <2>3, <2>4 DEF c
<1>3. w = [u EXCEPT !.chain = h]  BY Zenon
<1>. HIDE DEF h, w
<1>4. w = [interned |-> u.interned, pools |-> u.pools, chain |-> h, refs |-> u.refs]
  BY <1>3 DEF UnitOK, UnitType
<1>5. w.interned = u.interned /\ w.pools = u.pools /\ w.chain = h /\ w.refs = u.refs
  BY <1>4
<1>6. w \in UnitType  BY <1>2, <1>4 DEF UnitOK, UnitType
<1>7. ConstantsOK(w)  BY <1>5 DEF UnitOK, ConstantsOK, InternedResolve
<1>8. \A c \in DOMAIN w.chain : CompilerOK(w.chain[c], w.pools)
  BY <1>1, <1>2, <1>5 DEF UnitOK
<1>9. UnitOK(w)  BY <1>2, <1>5, <1>6, <1>7, <1>8 DEF UnitOK
<1>. QED  BY <1>2, <1>5, <1>9 DEF Top, w

-----------------------------------------------------------------------------
(* The locals of one Compiler. *)

(* What the order of the locals depends on.                                *)
LEMMA OrderedSame ==
  ASSUME NEW k \in CompilerType, NEW j \in CompilerType, NEW n \in Nat,
         \A i \in 1 .. n : j.locals[i] = k.locals[i],
         \A i \in 1 .. n : k.locals[i].depth \in Int,
         \/ j.deep >= k.deep
         \/ \A i \in 1 .. n : k.locals[i].depth <= j.deep,
         Ordered(k, n)
  PROVE  Ordered(j, n)
<1>1. j.deep \in Nat /\ k.deep \in Nat  BY DEF CompilerType
<1>2. \A i \in 1 .. n : j.locals[i].depth \in 0 .. j.deep
  BY <1>1 DEF Ordered
<1>. QED  BY <1>2 DEF Ordered

(* The depth of a local is a number.                                       *)
LEMMA DepthsTyped ==
  ASSUME NEW k \in CompilerType
  PROVE  /\ k.locals \in Seq(LocalType) /\ Len(k.locals) \in Nat
         /\ k.deep \in Nat /\ k.sets \in Nat /\ k.height \in Int
         /\ \A i \in 1 .. Len(k.locals) : k.locals[i].depth \in Int
<1>1. k.locals \in Seq(LocalType) /\ k.deep \in Nat /\ k.sets \in Nat /\ k.height \in Int
  BY DEF CompilerType
<1>2. \A i \in 1 .. Len(k.locals) : k.locals[i] \in LocalType  BY <1>1
<1>. QED  BY <1>1, <1>2 DEF LocalType

(* Neither code that leaves values nor a scope that begins disturbs the    *)
(* locals.                                                                 *)
LEMMA SettledSame ==
  ASSUME NEW k \in CompilerType, NEW j \in CompilerType, Settled(k),
         j.locals = k.locals, j.deep >= k.deep,
         j.height + j.sets = k.height + k.sets
  PROVE  Settled(j)
<1>1. /\ Len(k.locals) \in Nat
      /\ \A i \in 1 .. Len(k.locals) : k.locals[i].depth \in Int
      /\ j.height \in Int /\ j.sets \in Nat /\ k.height \in Int /\ k.sets \in Nat
  BY DepthsTyped
<1>2. Ordered(j, Len(k.locals))  BY <1>1, OrderedSame DEF Settled
<1>3. j.height = Len(j.locals) - j.sets  BY <1>1 DEF Settled
<1>. QED  BY <1>2, <1>3 DEF Settled

(* A declaration in a scope is a local that is not ready.                  *)
LEMMA DeclareAwaits ==
  ASSUME NEW u, UnitOK(u), NEW n \in Names, ~Refused(u, n),
         Settled(Current(u)), Current(u).deep > 0
  PROVE  LET k == Current(u)
             j == DeclaredCompiler(k, n)
         IN  /\ Awaiting(j) /\ Len(j.locals) = Len(k.locals) + 1
             /\ j.deep = k.deep /\ j.height = k.height /\ j.sets = k.sets
<1>. DEFINE k == Current(u)
            l == [name |-> n, depth |-> -1]
            j == DeclaredCompiler(k, n)
            m == Len(k.locals)
<1>1. k \in CompilerType /\ CompilerOK(k, u.pools) /\ Locals(u) = k.locals
  BY CurrentTyped DEF Locals
<1>2. /\ k.locals \in Seq(LocalType) /\ m \in Nat /\ m >= 1
      /\ k.deep \in Nat /\ k.sets \in Nat /\ k.height \in Int
      /\ \A i \in 1 .. m : k.locals[i].depth \in Int
  BY <1>1, DepthsTyped, CompilerAssumption DEF CompilerOK
<1>3. ~Redeclared(u, n)  BY DEF Refused
<1>4. \A i \in 1 .. m : k.locals[i].name = n => k.locals[i].depth < k.deep
  <2>. SUFFICES ASSUME NEW i \in 1 .. m, k.locals[i].name = n
                PROVE  k.locals[i].depth < k.deep
    OBVIOUS
  <2>1. PICK p \in i .. m : k.locals[p].depth # -1 /\ ~(k.locals[p].depth >= k.deep)
    BY <1>1, <1>2, <1>3 DEF Redeclared
  <2>2. p \in 1 .. m /\ i <= p  BY <1>2
  <2>3. k.locals[i].depth <= k.locals[p].depth
    <3>1. CASE i = p  BY <1>2, <3>1
    <3>2. CASE i < p  BY <2>2, <3>2 DEF Settled, Ordered
    <3>. QED  BY <2>2, <3>1, <3>2, <1>2
  <2>. QED  BY <1>2, <2>1, <2>2, <2>3
<1>. HIDE DEF l
<1>5. j = [k EXCEPT !.locals = Append(k.locals, l)]
  BY DEF DeclaredCompiler, l
<1>. HIDE DEF j, k
<1>6. l \in LocalType /\ l.name = n /\ l.depth = -1  BY DEF LocalType, l
<1>7. /\ Append(k.locals, l) \in Seq(LocalType)
      /\ Len(Append(k.locals, l)) = m + 1
      /\ Append(k.locals, l)[m + 1] = l
      /\ \A i \in 1 .. m : Append(k.locals, l)[i] = k.locals[i]
  BY <1>2, <1>6
<1>8. /\ j.locals = Append(k.locals, l) /\ j.deep = k.deep
      /\ j.height = k.height /\ j.sets = k.sets /\ j \in CompilerType
  BY <1>1, <1>5, <1>7 DEF CompilerType
<1>9. /\ \A i \in 1 .. m : j.locals[i] = k.locals[i]
      /\ j.locals[m + 1] = l /\ Len(j.locals) = m + 1
  BY <1>7, <1>8
<1>10. Ordered(k, m) /\ k.height = m - k.sets  BY DEF Settled, k
<1>11. Ordered(j, m)
  <2>. HIDE DEF m
  <2>1. j.deep >= k.deep  BY <1>2, <1>8
  <2>. QED  BY <1>1, <1>2, <1>8, <1>9, <1>10, <2>1, OrderedSame
<1>12. /\ Len(j.locals) > 1 /\ Len(j.locals) - 1 = m
       /\ j.height = Len(j.locals) - 1 - j.sets
       /\ j.locals[Len(j.locals)] = l
  <2>. HIDE DEF m
  <2>. QED  BY <1>2, <1>8, <1>9, <1>10
<1>13. \A i \in 1 .. m : j.locals[i].name = l.name => j.locals[i].depth < j.deep
  BY <1>4, <1>6, <1>8, <1>9
<1>14. Awaiting(j)
  <2>. HIDE DEF m
  <2>. QED  BY <1>6, <1>11, <1>12, <1>13 DEF Awaiting
<1>. QED  BY <1>8, <1>9, <1>14 DEF j, k, m

(* The local that becomes ready is the innermost, and the last of its name;*)
(* the values that code has left in the meantime do not matter.            *)
LEMMA DefineOrders ==
  ASSUME NEW k \in CompilerType, NEW h \in CompilerType, Awaiting(h),
         k.locals = h.locals, k.deep = h.deep, k.deep > 0
  PROVE  LET j == DefinedCompiler(k)
         IN  /\ Ordered(j, Len(k.locals)) /\ Len(j.locals) = Len(k.locals)
             /\ j.deep = k.deep /\ j.height = k.height /\ j.sets = k.sets
<1>. DEFINE s == k.locals
            m == Len(k.locals)
            e == [s[m] EXCEPT !.depth = k.deep]
            t == [s EXCEPT ![m] = e]
            j == DefinedCompiler(k)
<1>1. /\ s \in Seq(LocalType) /\ m \in Nat /\ m = Len(s)
      /\ k.deep \in Nat /\ k.sets \in Nat /\ k.height \in Int
      /\ \A i \in 1 .. m : s[i].depth \in Int
  BY DepthsTyped
<1>2. /\ m > 1 /\ Ordered(k, m - 1)
      /\ \A i \in 1 .. m - 1 : s[i].name = s[m].name => s[i].depth < k.deep
  BY DEF Awaiting, Ordered
<1>3. e \in LocalType /\ e.depth = k.deep /\ e.name = s[m].name
  <2>1. s[m] \in LocalType  BY <1>1, <1>2
  <2>. HIDE DEF s, m
  <2>. QED  BY <1>1, <2>1 DEF LocalType
<1>4. j = [k EXCEPT !.locals = t]
  BY <1>1 DEF DefinedCompiler
<1>. HIDE DEF e
<1>5. /\ t \in Seq(LocalType) /\ Len(t) = m /\ t[m] = e
      /\ \A i \in 1 .. m - 1 : t[i] = s[i]
  <2>. HIDE DEF s, m
  <2>. QED  BY <1>1, <1>2, <1>3
<1>. HIDE DEF t, j
<1>6. j.locals = t /\ j.deep = k.deep /\ j.height = k.height /\ j.sets = k.sets
  BY <1>4 DEF CompilerType
<1>7. /\ \A i \in 1 .. m - 1 : j.locals[i] = s[i]
      /\ j.locals[m] = e
  BY <1>5, <1>6
<1>. HIDE DEF m
<1>8. \A i \in 1 .. m - 1 : s[i].depth \in 0 .. k.deep
  BY <1>2 DEF Ordered
<1>9. \A i \in 1 .. m : j.locals[i].depth \in 0 .. j.deep
  <2>. SUFFICES ASSUME NEW i \in 1 .. m PROVE j.locals[i].depth \in 0 .. j.deep  OBVIOUS
  <2>1. CASE i = m  BY <1>1, <1>3, <1>6, <1>7, <2>1
  <2>2. CASE i # m
    <3>1. i \in 1 .. m - 1  BY <1>1, <2>2
    <3>. QED  BY <1>6, <1>7, <1>8, <3>1
  <2>. QED  BY <2>1, <2>2
<1>10. ASSUME NEW i \in 1 .. m, NEW p \in 1 .. m, i < p
       PROVE  /\ j.locals[i].depth <= j.locals[p].depth
              /\ j.locals[i].name = j.locals[p].name =>
                   j.locals[i].depth < j.locals[p].depth
  <2>1. i \in 1 .. m - 1 /\ j.locals[i] = s[i]  BY <1>1, <1>7, <1>10
  <2>2. CASE p = m  BY <1>1, <1>2, <1>3, <1>7, <1>8, <2>1, <2>2
  <2>3. CASE p # m
    <3>1. p \in 1 .. m - 1 /\ j.locals[p] = s[p]  BY <1>1, <1>7, <2>3
    <3>. QED  BY <1>2, <1>10, <2>1, <3>1 DEF Ordered
  <2>. QED  BY <2>2, <2>3
<1>11. Ordered(j, m)  BY <1>9, <1>10 DEF Ordered
<1>. QED  BY <1>5, <1>6, <1>11 DEF j, m

(* What is left of a scope's locals is settled in the scope around it.     *)
LEMMA ScopeEndedSettles ==
  ASSUME NEW k \in CompilerType, Settled(k), k.deep > 0,
         NEW m \in 1 .. Len(k.locals), k.locals[m].depth <= k.deep - 1
  PROVE  Settled(ScopeEndedCompiler(k, m))
<1>. DEFINE j == ScopeEndedCompiler(k, m)
            q == SubSeq(k.locals, 1, m)
            d == Len(k.locals)
<1>1. /\ k.locals \in Seq(LocalType) /\ d \in Nat
      /\ k.deep \in Nat /\ k.sets \in Nat /\ k.height \in Int
      /\ \A i \in 1 .. d : k.locals[i].depth \in Int
  BY DepthsTyped
<1>2. /\ q \in Seq(LocalType) /\ Len(q) = m
      /\ \A i \in 1 .. m : q[i] = k.locals[i]
  BY <1>1
<1>. HIDE DEF q, d
<1>3. m \in Nat /\ m <= d /\ k.height - (d - m) \in Int /\ k.deep - 1 \in Nat
  BY <1>1 DEF d
<1>4. j = [k EXCEPT !.deep = k.deep - 1, !.locals = q, !.height = k.height - (d - m)]
  BY Zenon DEF ScopeEndedCompiler, q, d
<1>. HIDE DEF j
<1>5. /\ j.locals = q /\ j.deep = k.deep - 1 /\ j.sets = k.sets
      /\ j.height = k.height - (d - m) /\ j \in CompilerType
  BY <1>1, <1>2, <1>3, <1>4 DEF CompilerType
<1>6. Ordered(k, d) /\ k.height = d - k.sets  BY DEF Settled, d
<1>7. Ordered(k, m)  BY <1>1, <1>3, <1>6 DEF Ordered
<1>8. \A i \in 1 .. m : k.locals[i].depth <= k.deep - 1
  <2>. SUFFICES ASSUME NEW i \in 1 .. m PROVE k.locals[i].depth <= k.deep - 1  OBVIOUS
  <2>1. i \in 1 .. d /\ m \in 1 .. d /\ (i = m \/ i < m)  BY <1>1, <1>3 DEF d
  <2>2. k.locals[i].depth <= k.locals[m].depth
    <3>1. CASE i = m  BY <1>1, <2>1, <3>1
    <3>2. CASE i < m  BY <1>6, <2>1, <3>2 DEF Ordered
    <3>. QED  BY <2>1, <3>1, <3>2
  <2>. QED  BY <1>1, <2>1, <2>2
<1>9. Ordered(j, m)
  <2>1. \A i \in 1 .. m : k.locals[i].depth \in Int  BY <1>1, <1>3
  <2>2. \A i \in 1 .. m : j.locals[i] = k.locals[i]  BY <1>2, <1>5
  <2>. QED  BY <1>3, <1>5, <1>7, <1>8, <2>1, <2>2, OrderedSame
<1>10. j.height = m - j.sets  BY <1>1, <1>3, <1>5, <1>6
<1>. QED  BY <1>2, <1>5, <1>9, <1>10 DEF Settled, j

-----------------------------------------------------------------------------
(* All Compilers of the chain. *)

(* A Compiler whose function's body is being compiled has declared that    *)
(* function, in a scope as a local.                                        *)
Below(u) ==
  \A c \in DOMAIN u.chain :
    c < Top(u) /\ u.chain[c].deep > 0 => Len(u.chain[c].locals) > 1

AwaitingBelow(u) ==
  \A c \in DOMAIN u.chain :
    c < Top(u) => IF u.chain[c].deep > 0
                  THEN Awaiting(u.chain[c]) ELSE Settled(u.chain[c])

(* Only the innermost Compiler is between statements.                      *)
LEMMA FramesSplit ==
  ASSUME NEW u, UnitOK(u)
  PROVE  FramesInStep(u) <=> AwaitingBelow(u) /\ Settled(Current(u))
<1>1. Top(u) \in DOMAIN u.chain /\ Top(u) \in Nat  BY CurrentTyped
<1>2. \A c \in DOMAIN u.chain : c \in Nat /\ (c < Top(u) \/ c = Top(u))
  <2>1. u.chain \in Seq(CompilerType)  BY CurrentTyped
  <2>. QED  BY <2>1 DEF Top
<1>3. ASSUME FramesInStep(u) PROVE AwaitingBelow(u) /\ Settled(Current(u))
  BY <1>1, <1>3 DEF FramesInStep, AwaitingBelow, Current
<1>4. ASSUME AwaitingBelow(u), Settled(Current(u)) PROVE FramesInStep(u)
  <2>. SUFFICES ASSUME NEW c \in DOMAIN u.chain
                PROVE  IF c < Top(u) /\ u.chain[c].deep > 0
                       THEN Awaiting(u.chain[c]) ELSE Settled(u.chain[c])
    BY DEF FramesInStep
  <2>1. CASE c < Top(u)  BY <1>4, <2>1 DEF AwaitingBelow
  <2>2. CASE c = Top(u)
    <3>1. ~(c < Top(u)) /\ u.chain[c] = Current(u)  BY <1>1, <2>2 DEF Current
    <3>. QED  BY <1>4, <3>1
  <2>. QED  BY <1>2, <2>1, <2>2
<1>. QED  BY <1>3, <1>4

(* What concerns the other Compilers only survives a step.                 *)
LEMMA StepsBelow ==
  ASSUME NEW u, NEW w, NEW k, UnitOK(u), Steps(u, w, k)
  PROVE  /\ Below(u) => Below(w)
         /\ AwaitingBelow(u) => AwaitingBelow(w)
<1>1. /\ Top(w) = Top(u) /\ DOMAIN w.chain = DOMAIN u.chain
      /\ \A c \in DOMAIN u.chain : c # Top(u) => w.chain[c] = u.chain[c]
      /\ Top(u) \in Nat
  BY StepsCurrent, CurrentTyped
<1>2. \A c \in DOMAIN w.chain : c < Top(w) => w.chain[c] = u.chain[c]
  BY <1>1
<1>. QED  BY <1>1, <1>2 DEF Below, AwaitingBelow

(* A new function awaits nothing, and what is around it awaits its end.    *)
LEMMA EnteredBelow ==
  ASSUME NEW u, UnitOK(u)
  PROVE  LET w == Entered(u)
             k == Current(u)
         IN  /\ Below(u) /\ (k.deep > 0 => Len(k.locals) > 1) => Below(w)
             /\ /\ AwaitingBelow(u)
                /\ IF k.deep > 0 THEN Awaiting(k) ELSE Settled(k)
                => FramesInStep(w)
<1>. DEFINE w == Entered(u)
            k == Current(u)
<1>1. /\ UnitOK(w)
      /\ Top(w) = Top(u) + 1 /\ DOMAIN w.chain = 1 .. Top(u) + 1
      /\ \A c \in DOMAIN u.chain : w.chain[c] = u.chain[c]
      /\ \E chunk \in Nat : Current(w) = NewCompiler(chunk, 1)
  BY EnteredSound
<1>2. DOMAIN u.chain = 1 .. Top(u) /\ Top(u) \in Nat /\ u.chain[Top(u)] = k
  <2>1. u.chain \in Seq(CompilerType)  BY CurrentTyped
  <2>. QED  BY <2>1 DEF Top, Current
<1>. HIDE DEF w, k
<1>3. \A c \in DOMAIN w.chain : c < Top(w) =>
        c \in DOMAIN u.chain /\ w.chain[c] = u.chain[c] /\ (c < Top(u) \/ u.chain[c] = k)
  BY <1>1, <1>2
<1>4. Below(u) /\ (k.deep > 0 => Len(k.locals) > 1) => Below(w)
  BY <1>3 DEF Below
<1>5. /\ AwaitingBelow(u)
      /\ IF k.deep > 0 THEN Awaiting(k) ELSE Settled(k)
      => AwaitingBelow(w)
  BY <1>3 DEF AwaitingBelow
<1>6. Settled(Current(w))
  <2>1. PICK chunk \in Nat : Current(w) = NewCompiler(chunk, 1)  BY <1>1
  <2>. DEFINE j == NewCompiler(chunk, 1)
  <2>2. /\ Len(j.locals) = 1 /\ j.locals[1].depth = 0
        /\ j.deep = 1 /\ j.height = 1 /\ j.sets = 0
    BY DEF NewCompiler
  <2>. HIDE DEF j
  <2>3. Ordered(j, 1)  BY <2>2 DEF Ordered
  <2>4. Settled(j)  BY <2>2, <2>3 DEF Settled
  <2>. QED  BY <2>1, <2>4 DEF j
<1>. QED  BY <1>1, <1>4, <1>5, <1>6, FramesSplit DEF w, k

(* The end of a function leaves those around it as they were.              *)
LEMMA LeftBelow ==
  ASSUME NEW u, UnitOK(u), Top(u) > 1
  PROVE  LET w == [u EXCEPT !.chain = SubSeq(@, 1, Len(@) - 1)]
             k == Current(w)
         IN  /\ Below(u) => Below(w) /\ (k.deep > 0 => Len(k.locals) > 1)
             /\ AwaitingBelow(u) =>
                  /\ AwaitingBelow(w)
                  /\ IF k.deep > 0 THEN Awaiting(k) ELSE Settled(k)
<1>. DEFINE w == [u EXCEPT !.chain = SubSeq(@, 1, Len(@) - 1)]
<1>1. /\ UnitOK(w)
      /\ Top(w) = Top(u) - 1 /\ DOMAIN w.chain = 1 .. Top(u) - 1
      /\ \A c \in DOMAIN w.chain : w.chain[c] = u.chain[c]
  BY LeftSound
<1>2. DOMAIN u.chain = 1 .. Top(u) /\ Top(u) \in Nat
  <2>1. u.chain \in Seq(CompilerType)  BY CurrentTyped
  <2>. QED  BY <2>1 DEF Top
<1>. HIDE DEF w
<1>3. \A c \in DOMAIN w.chain :
        c \in DOMAIN u.chain /\ c < Top(u) /\ w.chain[c] = u.chain[c]
  BY <1>1, <1>2
<1>4. Top(w) \in DOMAIN w.chain  BY <1>1, <1>2
<1>. QED  BY <1>3, <1>4 DEF Below, AwaitingBelow, Current, w

-----------------------------------------------------------------------------
(* The open constructs. *)

(* The functions among the first constructs are finitely many.             *)
LEMMA OwnerTyped ==
  ASSUME NEW o, NEW i \in Nat
  PROVE  /\ IsFiniteSet(Functions(o, i)) /\ Cardinality(Functions(o, i)) \in Nat
         /\ Owner(o, i) \in Nat /\ Owner(o, i) >= 1
<1>1. IsFiniteSet(1 .. i)  BY FS_Interval
<1>2. Functions(o, i) \in SUBSET (1 .. i)  BY DEF Functions
<1>3. IsFiniteSet(Functions(o, i))  BY <1>1, <1>2, FS_Subset
<1>. QED  BY <1>3, FS_CardinalityType DEF Owner

(* Outside of every construct is the script.                               *)
LEMMA OwnerNone == ASSUME NEW o PROVE Owner(o, 0) = 1
<1>1. Functions(o, 0) = {}  BY DEF Functions
<1>. QED  BY <1>1, FS_EmptySet DEF Owner

(* One construct more is one function more, or none.                       *)
LEMMA OwnerNext ==
  ASSUME NEW o, NEW i \in Nat
  PROVE  Owner(o, i + 1) = Owner(o, i) + (IF o[i + 1].kind = "scope" THEN 0 ELSE 1)
<1>1. 1 .. i + 1 = 1 .. i \cup {i + 1} /\ i + 1 \notin 1 .. i  OBVIOUS
<1>2. CASE o[i + 1].kind = "scope"
  <2>1. Functions(o, i + 1) = Functions(o, i)  BY <1>1, <1>2 DEF Functions
  <2>. QED  BY <1>2, <2>1, OwnerTyped DEF Owner
<1>3. CASE o[i + 1].kind # "scope"
  <2>1. Functions(o, i + 1) = Functions(o, i) \cup {i + 1} /\ i + 1 \notin Functions(o, i)
    BY <1>1, <1>3 DEF Functions
  <2>2. Cardinality(Functions(o, i + 1)) = Cardinality(Functions(o, i)) + 1
    BY <2>1, OwnerTyped, FS_AddElement
  <2>. QED  BY <1>3, <2>2, OwnerTyped DEF Owner
<1>. QED  BY <1>2, <1>3

(* An outer construct's Compiler is no inner one, and the same only if     *)
(* there is no function between the two.                                   *)
LEMMA OwnerMonotone ==
  ASSUME NEW o, NEW i \in Nat, NEW p \in Nat, i <= p
  PROVE  /\ Owner(o, i) <= Owner(o, p)
         /\ Owner(o, i) = Owner(o, p) => \A j \in i + 1 .. p : o[j].kind = "scope"
<1>1. Functions(o, i) \in SUBSET Functions(o, p)  BY DEF Functions
<1>2. /\ Cardinality(Functions(o, i)) <= Cardinality(Functions(o, p))
      /\ Cardinality(Functions(o, p)) = Cardinality(Functions(o, i))
           => Functions(o, p) = Functions(o, i)
  BY <1>1, OwnerTyped, FS_Subset
<1>3. Functions(o, p) = Functions(o, i) => \A j \in i + 1 .. p : o[j].kind = "scope"
  <2>. SUFFICES ASSUME Functions(o, p) = Functions(o, i), NEW j \in i + 1 .. p
                PROVE  o[j].kind = "scope"
    OBVIOUS
  <2>1. j \in 1 .. p /\ j \notin 1 .. i  OBVIOUS
  <2>. QED  BY <2>1 DEF Functions
<1>. QED  BY <1>2, <1>3, OwnerTyped DEF Owner

(* Only which constructs are scopes matters.                               *)
LEMMA OwnerSame ==
  ASSUME NEW o, NEW q, NEW i \in Nat,
         \A j \in 1 .. i : q[j].kind = "scope" <=> o[j].kind = "scope"
  PROVE  Owner(q, i) = Owner(o, i)
<1>1. Functions(q, i) = Functions(o, i)  BY DEF Functions
<1>. QED  BY <1>1 DEF Owner

(* The Compiler of each construct is one of the chain's.                   *)
LEMMA OwnerInChain ==
  ASSUME NEW u, UnitOK(u), NEW o \in Seq(OpenType), OpenInStep(u, o),
         NEW i \in 0 .. Len(o)
  PROVE  Owner(o, i) \in DOMAIN u.chain /\ Owner(o, i) <= Top(u) /\ Owner(o, i) \in Nat
<1>1. DOMAIN u.chain = 1 .. Top(u) /\ Top(u) \in Nat /\ Top(u) >= 1
  <2>1. u.chain \in Seq(CompilerType) /\ Top(u) >= 1  BY CurrentTyped
  <2>. QED  BY <2>1 DEF Top
<1>2. i \in Nat /\ Len(o) \in Nat /\ i <= Len(o)  OBVIOUS
<1>3. Owner(o, i) \in Nat /\ Owner(o, i) >= 1  BY <1>2, OwnerTyped
<1>4. Owner(o, i) <= Top(u)
  <2>1. CASE o = <<>>
    <3>1. i = 0  BY <2>1
    <3>. QED  BY <1>1, <3>1, OwnerNone
  <2>2. CASE Owner(o, Len(o)) = Top(u)  BY <1>2, <2>2, OwnerMonotone
  <2>. QED  BY <2>1, <2>2 DEF OpenInStep
<1>. QED  BY <1>1, <1>3, <1>4

(* Every chain is in step with no construct.                               *)
LEMMA OpenNone ==
  ASSUME NEW u, UnitOK(u)
  PROVE  OpenInStep(u, <<>>)
<1>1. u.chain[1] \in CompilerType
  <2>1. u.chain \in Seq(CompilerType) /\ u.chain # <<>>  BY CurrentTyped DEF UnitOK
  <2>. QED  BY <2>1
<1>2. u.chain[1].deep \in Nat  BY <1>1 DEF CompilerType
<1>3. \A i \in 0 .. Len(<<>>) : \A g \in 0 .. i :
        u.chain[Owner(<<>>, i)].deep >= i - g
  BY <1>2, OwnerNone
<1>. QED  BY <1>3 DEF OpenInStep

(* A step that leaves no scope stays in step.                              *)
LEMMA OpenKept ==
  ASSUME NEW u, NEW w, NEW k, UnitOK(u), Steps(u, w, k), k.deep >= Current(u).deep,
         NEW o \in Seq(OpenType), OpenInStep(u, o)
  PROVE  OpenInStep(w, o)
<1>1. /\ Top(w) = Top(u) /\ DOMAIN w.chain = DOMAIN u.chain /\ w.chain[Top(u)] = k
      /\ \A c \in DOMAIN u.chain : c # Top(u) => w.chain[c] = u.chain[c]
      /\ k \in CompilerType
  BY StepsCurrent
<1>2. u.chain \in Seq(CompilerType)  BY CurrentTyped
<1>3. \A c \in DOMAIN u.chain :
        /\ w.chain[c].deep >= u.chain[c].deep
        /\ w.chain[c].deep \in Nat /\ u.chain[c].deep \in Nat
  <2>. SUFFICES ASSUME NEW c \in DOMAIN u.chain
                PROVE  /\ w.chain[c].deep >= u.chain[c].deep
                       /\ w.chain[c].deep \in Nat /\ u.chain[c].deep \in Nat
    OBVIOUS
  <2>1. u.chain[c] \in CompilerType  BY <1>2
  <2>2. CASE c = Top(u)  BY <1>1, <2>1, <2>2 DEF Current, CompilerType
  <2>3. CASE c # Top(u)  BY <1>1, <2>1, <2>3 DEF CompilerType
  <2>. QED  BY <2>2, <2>3
<1>4. ASSUME NEW i \in 0 .. Len(o), NEW g \in 0 .. i,
             \A j \in g + 1 .. i : o[j].kind = "scope"
      PROVE  w.chain[Owner(o, i)].deep >= i - g
  <2>1. Owner(o, i) \in DOMAIN u.chain  BY OwnerInChain
  <2>2. u.chain[Owner(o, i)].deep >= i - g  BY <1>4 DEF OpenInStep
  <2>3. /\ w.chain[Owner(o, i)].deep >= u.chain[Owner(o, i)].deep
        /\ w.chain[Owner(o, i)].deep \in Nat /\ u.chain[Owner(o, i)].deep \in Nat
    BY <1>3, <2>1
  <2>4. i - g \in Int  BY <1>4
  <2>. QED  BY <2>2, <2>3, <2>4
<1>. QED  BY <1>1, <1>4 DEF OpenInStep

(* A construct behind the others leaves their Compilers as they are.       *)
LEMMA OwnerAppended ==
  ASSUME NEW o \in Seq(OpenType), NEW e \in OpenType
  PROVE  LET q == Append(o, e)
         IN  /\ q \in Seq(OpenType) /\ Len(q) = Len(o) + 1
             /\ \A j \in 1 .. Len(o) : q[j] = o[j]
             /\ q[Len(o) + 1] = e
             /\ \A i \in 0 .. Len(o) : Owner(q, i) = Owner(o, i)
             /\ Owner(q, Len(q)) = Owner(o, Len(o)) + (IF e.kind = "scope" THEN 0 ELSE 1)
<1>. DEFINE q == Append(o, e)
<1>1. /\ q \in Seq(OpenType) /\ Len(q) = Len(o) + 1 /\ Len(o) \in Nat
      /\ \A j \in 1 .. Len(o) : q[j] = o[j]
      /\ q[Len(o) + 1] = e
  OBVIOUS
<1>. HIDE DEF q
<1>2. \A i \in 0 .. Len(o) : Owner(q, i) = Owner(o, i)
  <2>. SUFFICES ASSUME NEW i \in 0 .. Len(o) PROVE Owner(q, i) = Owner(o, i)  OBVIOUS
  <2>1. i \in Nat /\ \A j \in 1 .. i : j \in 1 .. Len(o)  BY <1>1
  <2>2. \A j \in 1 .. i : q[j] = o[j]  BY <1>1, <2>1
  <2>. QED  BY <2>1, <2>2, OwnerSame
<1>3. Owner(q, Len(o) + 1) = Owner(q, Len(o)) + (IF e.kind = "scope" THEN 0 ELSE 1)
  BY <1>1, OwnerNext
<1>. QED  BY <1>1, <1>2, <1>3 DEF q

(* The last construct ends.                                                *)
LEMMA OwnerClosed ==
  ASSUME NEW o \in Seq(OpenType), o # <<>>
  PROVE  LET q == SubSeq(o, 1, Len(o) - 1)
             e == o[Len(o)]
         IN  /\ q \in Seq(OpenType) /\ Len(q) = Len(o) - 1 /\ Len(q) \in Nat
             /\ \A j \in 1 .. Len(q) : q[j] = o[j]
             /\ \A i \in 0 .. Len(q) : Owner(q, i) = Owner(o, i)
             /\ Owner(o, Len(o)) = Owner(o, Len(q)) + (IF e.kind = "scope" THEN 0 ELSE 1)
<1>. DEFINE n == Len(o) - 1
            q == SubSeq(o, 1, n)
<1>1. n \in Nat /\ Len(o) = n + 1  OBVIOUS
<1>2. q \in Seq(OpenType) /\ Len(q) = n /\ \A j \in 1 .. n : q[j] = o[j]
  <2>1. \A j \in 1 .. n : o[j] \in OpenType  BY <1>1
  <2>. HIDE DEF n
  <2>2. /\ SubSeq(o, 1, n) \in Seq(OpenType)
        /\ Len(SubSeq(o, 1, n)) = IF 1 <= n THEN n - 1 + 1 ELSE 0
        /\ \A j \in 1 .. n - 1 + 1 : SubSeq(o, 1, n)[j] = o[1 + j - 1]
    BY <1>1, <2>1, SubSeqProperties
  <2>3. n - 1 + 1 = n /\ \A j \in 1 .. n : 1 + j - 1 = j  BY <1>1
  <2>4. (IF 1 <= n THEN n - 1 + 1 ELSE 0) = n  BY <1>1
  <2>. QED  BY <2>2, <2>3, <2>4
<1>. HIDE DEF n, q
<1>3. \A i \in 0 .. n : Owner(q, i) = Owner(o, i)
  <2>. SUFFICES ASSUME NEW i \in 0 .. n PROVE Owner(q, i) = Owner(o, i)  OBVIOUS
  <2>1. i \in Nat /\ \A j \in 1 .. i : j \in 1 .. n  BY <1>1
  <2>2. \A j \in 1 .. i : q[j] = o[j]  BY <1>2, <2>1
  <2>. QED  BY <2>1, <2>2, OwnerSame
<1>4. Owner(o, n + 1) = Owner(o, n) + (IF o[n + 1].kind = "scope" THEN 0 ELSE 1)
  BY <1>1, OwnerNext
<1>. QED  BY <1>1, <1>2, <1>3, <1>4 DEF n, q

(* Where the chain is not dangling, the innermost construct is of the      *)
(* innermost Compiler.                                                     *)
LEMMA OwnerIsTop ==
  ASSUME NEW u, UnitOK(u), NEW o, OpenInStep(u, o), ~(Top(u) > 1 /\ o = <<>>)
  PROVE  Owner(o, Len(o)) = Top(u)
<1>1. Top(u) \in Nat /\ Top(u) >= 1  BY CurrentTyped
<1>2. CASE o = <<>>
  <2>1. Top(u) = 1 /\ Len(o) = 0  BY <1>1, <1>2
  <2>. QED  BY <2>1, OwnerNone
<1>. QED  BY <1>2 DEF OpenInStep

(* A scope deepens the innermost Compiler.                                 *)
LEMMA OpenScope ==
  ASSUME NEW u, NEW w, NEW k, UnitOK(u), Steps(u, w, k), k.deep = Current(u).deep + 1,
         NEW o \in Seq(OpenType), OpenInStep(u, o), ~(Top(u) > 1 /\ o = <<>>),
         NEW e \in OpenType, e.kind = "scope"
  PROVE  OpenInStep(w, Append(o, e))
<1>. DEFINE q == Append(o, e)
            n == Len(o)
<1>1. /\ q \in Seq(OpenType) /\ Len(q) = n + 1 /\ n \in Nat
      /\ \A j \in 1 .. n : q[j] = o[j]
      /\ q[n + 1] = e
      /\ \A i \in 0 .. n : Owner(q, i) = Owner(o, i)
      /\ Owner(q, n + 1) = Owner(o, n)
  <2>1. Owner(o, n) \in Nat  BY OwnerTyped
  <2>. QED  BY <2>1, OwnerAppended
<1>2. Owner(o, n) = Top(u) /\ Top(w) = Top(u) /\ w.chain[Top(u)] = k
  BY OwnerIsTop, StepsCurrent
<1>3. Current(u) \in CompilerType /\ Current(u).deep \in Nat /\ k.deep \in Nat
  BY CurrentTyped, StepsCurrent DEF CompilerType
<1>4. OpenInStep(w, o)
  <2>1. k.deep >= Current(u).deep  BY <1>3
  <2>. QED  BY <2>1, OpenKept
<1>. HIDE DEF q, n
<1>5. ASSUME NEW i \in 0 .. n + 1, NEW g \in 0 .. i,
             \A j \in g + 1 .. i : q[j].kind = "scope"
      PROVE  w.chain[Owner(q, i)].deep >= i - g
  <2>1. CASE i = n + 1
    <3>1. w.chain[Owner(q, i)] = k  BY <1>1, <1>2, <2>1
    <3>2. CASE g = n + 1  BY <1>1, <1>3, <2>1, <3>1, <3>2
    <3>3. CASE g # n + 1
      <4>1. g \in 0 .. n /\ n \in 0 .. n  BY <1>1, <2>1, <3>3
      <4>2. \A j \in g + 1 .. n : o[j].kind = "scope"
        <5>1. \A j \in g + 1 .. n : j \in g + 1 .. i /\ j \in 1 .. n  BY <1>1, <2>1, <4>1
        <5>. QED  BY <1>1, <1>5, <5>1
      <4>3. u.chain[Owner(o, n)].deep >= n - g  BY <4>1, <4>2 DEF OpenInStep, n
      <4>4. Current(u).deep >= n - g  BY <1>2, <4>3 DEF Current
      <4>. QED  BY <1>1, <1>3, <2>1, <3>1, <4>1, <4>4
    <3>. QED  BY <3>2, <3>3
  <2>2. CASE i # n + 1
    <3>1. i \in 0 .. n /\ Owner(q, i) = Owner(o, i)  BY <1>1, <2>2
    <3>2. \A j \in g + 1 .. i : o[j].kind = "scope"
      <4>1. \A j \in g + 1 .. i : j \in 1 .. n  BY <1>1, <3>1
      <4>. QED  BY <1>1, <1>5, <4>1
    <3>. QED  BY <1>4, <3>1, <3>2 DEF OpenInStep, n
  <2>. QED  BY <2>1, <2>2
<1>. QED  BY <1>1, <1>2, <1>5 DEF OpenInStep, q, n

(* The end of a scope takes the depth back that the scope has given.       *)
LEMMA CloseScope ==
  ASSUME NEW u, NEW w, NEW k, UnitOK(u), Steps(u, w, k), k.deep = Current(u).deep - 1,
         NEW o \in Seq(OpenType), OpenInStep(u, o), o # <<>>, o[Len(o)].kind = "scope"
  PROVE  OpenInStep(w, SubSeq(o, 1, Len(o) - 1))
<1>. DEFINE n == Len(o) - 1
            q == SubSeq(o, 1, Len(o) - 1)
<1>1. /\ q \in Seq(OpenType) /\ Len(q) = n /\ n \in Nat /\ Len(o) = n + 1
      /\ \A j \in 1 .. n : q[j] = o[j]
      /\ \A i \in 0 .. n : Owner(q, i) = Owner(o, i)
      /\ Owner(o, n + 1) = Owner(o, n)
  <2>1. n \in Nat /\ Len(o) = n + 1  OBVIOUS
  <2>2. Owner(o, n) \in Nat  BY <2>1, OwnerTyped
  <2>. QED  BY <2>1, <2>2, OwnerClosed
<1>2. Owner(o, n + 1) = Top(u) /\ Top(w) = Top(u) /\ w.chain[Top(u)] = k
  BY <1>1, OwnerIsTop, StepsCurrent
<1>3. /\ Current(u) \in CompilerType /\ Current(u).deep \in Nat /\ k.deep \in Nat
      /\ \A c \in DOMAIN u.chain : c # Top(u) => w.chain[c] = u.chain[c]
  BY CurrentTyped, StepsCurrent DEF CompilerType
<1>. HIDE DEF q, n
<1>4. ASSUME NEW i \in 0 .. n, NEW g \in 0 .. i,
             \A j \in g + 1 .. i : q[j].kind = "scope"
      PROVE  w.chain[Owner(q, i)].deep >= i - g
  <2>1. Owner(q, i) = Owner(o, i) /\ i \in 0 .. Len(o) /\ i \in Nat  BY <1>1
  <2>2. \A j \in g + 1 .. i : o[j].kind = "scope"
    <3>1. \A j \in g + 1 .. i : j \in 1 .. n  BY <1>1
    <3>. QED  BY <1>1, <1>4, <3>1
  <2>3. CASE Owner(o, i) # Top(u)
    <3>1. Owner(o, i) \in DOMAIN u.chain  BY <2>1, OwnerInChain
    <3>2. u.chain[Owner(o, i)].deep >= i - g  BY <2>1, <2>2 DEF OpenInStep
    <3>. QED  BY <1>3, <2>1, <2>3, <3>1, <3>2
  <2>4. CASE Owner(o, i) = Top(u)
    <3>1. \A j \in i + 1 .. n + 1 : o[j].kind = "scope"
      <4>1. n + 1 \in Nat /\ i <= n + 1 /\ Owner(o, i) = Owner(o, n + 1)
        BY <1>1, <1>2, <2>4
      <4>. QED  BY <2>1, <4>1, OwnerMonotone
    <3>2. \A j \in g + 1 .. n + 1 : o[j].kind = "scope"
      <4>1. \A j \in g + 1 .. n + 1 : j \in g + 1 .. i \/ j \in i + 1 .. n + 1
        BY <1>1
      <4>. QED  BY <2>2, <3>1, <4>1
    <3>3. Len(o) \in 0 .. Len(o) /\ g \in 0 .. Len(o)  BY <1>1
    <3>4. u.chain[Owner(o, Len(o))].deep >= Len(o) - g
      <4>1. \A j \in g + 1 .. Len(o) : o[j].kind = "scope"  BY <1>1, <3>2
      <4>. QED  BY <3>3, <4>1 DEF OpenInStep
    <3>5. Current(u).deep >= n + 1 - g  BY <1>1, <1>2, <3>4 DEF Current
    <3>6. w.chain[Owner(q, i)] = k  BY <1>2, <2>1, <2>4
    <3>. QED  BY <1>1, <1>3, <3>5, <3>6
  <2>. QED  BY <2>3, <2>4
<1>5. Owner(q, n) = Top(w)  BY <1>1, <1>2
<1>. QED  BY <1>1, <1>4, <1>5 DEF OpenInStep, q, n

(* The scope that ends has deepened the innermost Compiler.                *)
LEMMA ScopeIsDeep ==
  ASSUME NEW u, UnitOK(u),
         NEW o \in Seq(OpenType), OpenInStep(u, o), o # <<>>, o[Len(o)].kind = "scope"
  PROVE  Current(u).deep > 0
<1>. DEFINE n == Len(o)
<1>1. n \in Nat \ {0} /\ n \in 0 .. n /\ n - 1 \in 0 .. n  OBVIOUS
<1>2. Owner(o, n) = Top(u)  BY OwnerIsTop
<1>3. \A j \in (n - 1) + 1 .. n : o[j].kind = "scope"  BY <1>1
<1>4. u.chain[Owner(o, n)].deep >= n - (n - 1)  BY <1>1, <1>3 DEF OpenInStep
<1>5. Current(u).deep \in Nat  BY CurrentTyped DEF CompilerType
<1>. QED  BY <1>1, <1>2, <1>4, <1>5 DEF Current

(* A function has a Compiler of its own.                                   *)
LEMMA OpenFunction ==
  ASSUME NEW u, UnitOK(u),
         NEW o \in Seq(OpenType), OpenInStep(u, o), ~(Top(u) > 1 /\ o = <<>>),
         NEW e \in OpenType, e.kind # "scope"
  PROVE  OpenInStep(Entered(u), Append(o, e))
<1>. DEFINE w == Entered(u)
            q == Append(o, e)
            n == Len(o)
<1>1. /\ UnitOK(w) /\ Top(w) = Top(u) + 1 /\ Top(u) \in Nat
      /\ \A c \in DOMAIN u.chain : w.chain[c] = u.chain[c]
  BY EnteredSound, CurrentTyped
<1>2. /\ q \in Seq(OpenType) /\ Len(q) = n + 1 /\ n \in Nat
      /\ \A j \in 1 .. n : q[j] = o[j]
      /\ q[n + 1] = e
      /\ \A i \in 0 .. n : Owner(q, i) = Owner(o, i)
      /\ Owner(q, n + 1) = Owner(o, n) + 1
  BY OwnerAppended
<1>3. Owner(o, n) = Top(u)  BY OwnerIsTop
<1>. HIDE DEF w, q, n
<1>4. Current(w).deep \in Nat  BY <1>1, CurrentTyped DEF CompilerType
<1>5. ASSUME NEW i \in 0 .. n + 1, NEW g \in 0 .. i,
             \A j \in g + 1 .. i : q[j].kind = "scope"
      PROVE  w.chain[Owner(q, i)].deep >= i - g
  <2>1. CASE i = n + 1
    <3>1. g = n + 1
      <4>1. SUFFICES ASSUME g # n + 1 PROVE FALSE  OBVIOUS
      <4>2. n + 1 \in g + 1 .. i  BY <1>2, <2>1, <4>1
      <4>. QED  BY <1>2, <1>5, <4>2
    <3>2. w.chain[Owner(q, i)] = Current(w)  BY <1>1, <1>2, <1>3, <2>1 DEF Current
    <3>. QED  BY <1>2, <1>4, <2>1, <3>1, <3>2
  <2>2. CASE i # n + 1
    <3>1. i \in 0 .. n /\ Owner(q, i) = Owner(o, i)  BY <1>2, <2>2
    <3>2. \A j \in g + 1 .. i : o[j].kind = "scope"
      <4>1. \A j \in g + 1 .. i : j \in 1 .. n  BY <1>2, <3>1
      <4>. QED  BY <1>2, <1>5, <4>1
    <3>3. Owner(o, i) \in DOMAIN u.chain  BY <3>1, OwnerInChain DEF n
    <3>4. u.chain[Owner(o, i)].deep >= i - g  BY <3>1, <3>2 DEF OpenInStep, n
    <3>. QED  BY <1>1, <3>1, <3>3, <3>4
  <2>. QED  BY <2>1, <2>2
<1>. QED  BY <1>1, <1>2, <1>3, <1>5 DEF OpenInStep, q, n, w

(* Its end is that of its Compiler.                                        *)
LEMMA CloseFunction ==
  ASSUME NEW u, UnitOK(u),
         NEW o \in Seq(OpenType), OpenInStep(u, o), o # <<>>, o[Len(o)].kind # "scope"
  PROVE  /\ Top(u) > 1
         /\ OpenInStep([u EXCEPT !.chain = SubSeq(@, 1, Len(@) - 1)],
                       SubSeq(o, 1, Len(o) - 1))
<1>. DEFINE w == [u EXCEPT !.chain = SubSeq(@, 1, Len(@) - 1)]
            n == Len(o) - 1
            q == SubSeq(o, 1, Len(o) - 1)
<1>1. /\ q \in Seq(OpenType) /\ Len(q) = n /\ n \in Nat /\ Len(o) = n + 1
      /\ \A j \in 1 .. n : q[j] = o[j]
      /\ \A i \in 0 .. n : Owner(q, i) = Owner(o, i)
      /\ Owner(o, n + 1) = Owner(o, n) + 1
  <2>1. n \in Nat /\ Len(o) = n + 1  OBVIOUS
  <2>. QED  BY <2>1, OwnerClosed
<1>2. Owner(o, n + 1) = Top(u)  BY <1>1, OwnerIsTop
<1>3. Owner(o, n) \in Nat /\ Owner(o, n) >= 1  BY <1>1, OwnerTyped
<1>4. Top(u) > 1  BY <1>1, <1>2, <1>3
<1>5. /\ Top(w) = Top(u) - 1 /\ DOMAIN w.chain = 1 .. Top(u) - 1
      /\ \A c \in DOMAIN w.chain : w.chain[c] = u.chain[c]
  BY <1>4, LeftSound
<1>. HIDE DEF w, n, q
<1>6. ASSUME NEW i \in 0 .. n, NEW g \in 0 .. i,
             \A j \in g + 1 .. i : q[j].kind = "scope"
      PROVE  w.chain[Owner(q, i)].deep >= i - g
  <2>1. Owner(q, i) = Owner(o, i) /\ i \in 0 .. Len(o) /\ i \in Nat  BY <1>1
  <2>2. \A j \in g + 1 .. i : o[j].kind = "scope"
    <3>1. \A j \in g + 1 .. i : j \in 1 .. n  BY <1>1
    <3>. QED  BY <1>1, <1>6, <3>1
  <2>3. Owner(o, i) \in DOMAIN w.chain
    <3>1. /\ Owner(o, i) <= Owner(o, n) /\ Owner(o, i) \in Nat /\ Owner(o, i) >= 1
      <4>1. i <= n  BY <1>1
      <4>. QED  BY <1>1, <2>1, <4>1, OwnerMonotone, OwnerTyped
    <3>. QED  BY <1>1, <1>2, <1>3, <1>5, <3>1
  <2>4. u.chain[Owner(o, i)].deep >= i - g  BY <2>1, <2>2 DEF OpenInStep
  <2>. QED  BY <1>5, <2>1, <2>3, <2>4
<1>7. Owner(q, n) = Top(w)  BY <1>1, <1>2, <1>3, <1>5
<1>. QED  BY <1>1, <1>4, <1>6, <1>7 DEF OpenInStep, q, n, w

(* The brace of a body makes a head a body.                                *)
LEMMA OpenBody ==
  ASSUME NEW u, NEW o \in Seq(OpenType), OpenInStep(u, o), o # <<>>,
         o[Len(o)].kind # "scope", NEW e \in OpenType, e.kind # "scope"
  PROVE  /\ Append(SubSeq(o, 1, Len(o) - 1), e) \in Seq(OpenType)
         /\ OpenInStep(u, Append(SubSeq(o, 1, Len(o) - 1), e))
<1>. DEFINE n == Len(o) - 1
            p == SubSeq(o, 1, Len(o) - 1)
            q == Append(p, e)
<1>1. p \in Seq(OpenType) /\ Len(p) = n /\ n \in Nat /\ Len(o) = n + 1
      /\ \A j \in 1 .. n : p[j] = o[j]
  BY OwnerClosed
<1>. HIDE DEF n, p
<1>2. /\ q \in Seq(OpenType) /\ Len(q) = n + 1 /\ q # <<>>
      /\ \A j \in 1 .. n : q[j] = p[j]
      /\ q[n + 1] = e
  BY <1>1
<1>. HIDE DEF q
<1>3. \A j \in 1 .. n + 1 : q[j].kind = "scope" <=> o[j].kind = "scope"
  <2>. SUFFICES ASSUME NEW j \in 1 .. n + 1
                PROVE  q[j].kind = "scope" <=> o[j].kind = "scope"
    OBVIOUS
  <2>1. CASE j = n + 1  BY <1>1, <1>2, <2>1
  <2>2. CASE j # n + 1
    <3>1. j \in 1 .. n  BY <1>1, <2>2
    <3>. QED  BY <1>1, <1>2, <3>1
  <2>. QED  BY <2>1, <2>2
<1>4. \A i \in 0 .. n + 1 : Owner(q, i) = Owner(o, i)
  <2>. SUFFICES ASSUME NEW i \in 0 .. n + 1 PROVE Owner(q, i) = Owner(o, i)  OBVIOUS
  <2>1. i \in Nat /\ \A j \in 1 .. i : j \in 1 .. n + 1  BY <1>1
  <2>. QED  BY <1>3, <2>1, OwnerSame
<1>5. ASSUME NEW i \in 0 .. n + 1, NEW g \in 0 .. i,
             \A j \in g + 1 .. i : q[j].kind = "scope"
      PROVE  u.chain[Owner(q, i)].deep >= i - g
  <2>1. \A j \in g + 1 .. i : j \in 1 .. n + 1  BY <1>1
  <2>2. \A j \in g + 1 .. i : o[j].kind = "scope"  BY <1>3, <1>5, <2>1
  <2>. QED  BY <1>1, <1>4, <2>2 DEF OpenInStep
<1>6. Owner(q, Len(q)) = Top(u)
  <2>1. n + 1 \in 0 .. n + 1  BY <1>1
  <2>. QED  BY <1>1, <1>2, <1>4, <2>1 DEF OpenInStep
<1>. QED  BY <1>2, <1>5, <1>6 DEF OpenInStep, q, p

-----------------------------------------------------------------------------
(* Statements. *)

(* What a statement makes of the innermost Compiler when no scope begins   *)
(* or ends.                                                                *)
Follows(u, w) ==
  \E k : /\ Steps(u, w, k)
         /\ k.deep = Current(u).deep
         /\ Settled(Current(u)) => Settled(k)

(* The declaration that failed leaves the locals unsettled, but no scope.  *)
Stays(u, w) == \E k : Steps(u, w, k) /\ k.deep = Current(u).deep

(* A value that is written and dropped.                                    *)
LEMMA DroppedFollows ==
  ASSUME NEW u, UnitOK(u), NEW w, Steps(u, w, [Current(u) EXCEPT !.height = @ + 1])
  PROVE  Follows(u, Raised(w, -1))
<1>. DEFINE k == Current(u)
            i == [k EXCEPT !.height = @ + 1]
            j == [i EXCEPT !.height = @ + (-1)]
<1>1. k \in CompilerType  BY CurrentTyped
<1>2. UnitOK(w) /\ Current(w) = i /\ i \in CompilerType  BY StepsCurrent DEF Steps
<1>3. /\ i.locals = k.locals /\ i.deep = k.deep /\ i.sets = k.sets
      /\ i.height = k.height + 1
  <2>. HIDE DEF k
  <2>. QED  BY <1>1, <1>2 DEF CompilerType
<1>. HIDE DEF i, k
<1>4. Steps(w, Raised(w, -1), j)
  <2>. HIDE DEF j
  <2>. QED  BY <1>2, RaisedSound DEF j
<1>5. /\ j.locals = k.locals /\ j.deep = k.deep /\ j.sets = k.sets
      /\ j.height = k.height /\ j \in CompilerType
  <2>1. k.height \in Int  BY <1>1, DepthsTyped
  <2>2. i.height + (-1) = k.height  BY <1>3, <2>1
  <2>3. j = [i EXCEPT !.height = k.height]  BY <2>2
  <2>. HIDE DEF j
  <2>. QED  BY <1>2, <1>3, <2>1, <2>3 DEF CompilerType
<1>. HIDE DEF j
<1>7. Steps(u, Raised(w, -1), j)  BY <1>4, StepsTwice DEF i, k
<1>6. Settled(k) => Settled(j)
  <2>1. k.deep \in Nat /\ k.height \in Int /\ k.sets \in Nat  BY <1>1, DepthsTyped
  <2>2. j.deep >= k.deep /\ j.height + j.sets = k.height + k.sets  BY <1>5, <2>1
  <2>. QED  BY <1>1, <1>5, <2>2, SettledSame
<1>. QED  BY <1>5, <1>6, <1>7 DEF Follows, k

(* Where the constants change only.                                        *)
LEMMA SameFollows ==
  ASSUME NEW u, NEW w, UnitOK(u), UnitOK(w), w.chain = u.chain
  PROVE  Follows(u, w)
BY StepsSame DEF Follows

(* The value of a declaration, or the function, is defined: its local is   *)
(* ready and the value its cell.                                           *)
LEMMA ValueDefined ==
  ASSUME NEW u, UnitOK(u), NEW n \in Names,
         Current(u).deep > 0 => Len(Current(u).locals) > 1,
         NEW w, Steps(u, w, [Current(u) EXCEPT !.height = @ + 1])
  PROVE  \E j : /\ Steps(u, Defined(w, n), j)
                /\ j.deep = Current(u).deep
                /\ (IF Current(u).deep > 0
                    THEN Awaiting(Current(u)) ELSE Settled(Current(u)))
                   => Settled(j)
<1>. DEFINE k == Current(u)
            i == [k EXCEPT !.height = @ + 1]
            j == DefinedCompiler(i)
<1>1. /\ k \in CompilerType
      /\ Len(k.locals) \in Nat /\ k.deep \in Nat /\ k.sets \in Nat /\ k.height \in Int
  BY CurrentTyped, DepthsTyped
<1>2. UnitOK(w) /\ Current(w) = i /\ i \in CompilerType  BY StepsCurrent DEF Steps
<1>3. /\ i.locals = k.locals /\ i.deep = k.deep /\ i.sets = k.sets
      /\ i.height = k.height + 1
  <2>. HIDE DEF k
  <2>. QED  BY <1>1, <1>2 DEF CompilerType
<1>. HIDE DEF i
<1>4. Steps(w, Defined(w, n), j)
  BY <1>2, <1>3, DefinedSound DEF Locals
<1>5. Steps(u, Defined(w, n), j)  BY <1>4, StepsTwice DEF i
<1>6. j \in CompilerType  BY <1>2, <1>4, StepsCurrent
<1>. HIDE DEF k
<1>7. CASE k.deep = 0
  <2>1. j = [i EXCEPT !.height = @ + (-1)]  BY <1>3, <1>7 DEF DefinedCompiler
  <2>. HIDE DEF j
  <2>2. /\ j.locals = k.locals /\ j.deep = k.deep /\ j.sets = k.sets
        /\ j.height = k.height
    BY <1>1, <1>2, <1>3, <2>1 DEF CompilerType
  <2>3. j.deep >= k.deep /\ j.height + j.sets = k.height + k.sets  BY <1>1, <2>2
  <2>4. Settled(k) => Settled(j)  BY <1>1, <1>6, <2>2, <2>3, SettledSame
  <2>5. (IF k.deep > 0 THEN Awaiting(k) ELSE Settled(k)) => Settled(j)
    BY <1>1, <1>7, <2>4
  <2>. QED  BY <1>5, <2>2, <2>5 DEF k
<1>8. CASE k.deep # 0
  <2>1. k.deep > 0  BY <1>1, <1>8
  <2>2. j.deep = k.deep
    <3>1. j = [i EXCEPT !.locals[Len(i.locals)].depth = i.deep]
      BY <1>3, <1>8 DEF DefinedCompiler
    <3>. DEFINE t == [i.locals EXCEPT ![Len(i.locals)].depth = i.deep]
    <3>2. j = [i EXCEPT !.locals = t]  BY <3>1, Zenon
    <3>. HIDE DEF j, t
    <3>. QED  BY <1>2, <1>3, <3>2 DEF CompilerType
  <2>3. ASSUME Awaiting(k) PROVE Settled(j)
    <3>1. /\ Ordered(j, Len(i.locals)) /\ Len(j.locals) = Len(i.locals)
          /\ j.height = i.height /\ j.sets = i.sets
      BY <1>1, <1>2, <1>3, <2>1, <2>3, DefineOrders
    <3>2. k.height = Len(k.locals) - 1 - k.sets  BY <2>3 DEF Awaiting
    <3>3. j.height = Len(j.locals) - j.sets  BY <1>1, <1>3, <3>1, <3>2
    <3>. QED  BY <3>1, <3>3 DEF Settled
  <2>. HIDE DEF j
  <2>4. (IF k.deep > 0 THEN Awaiting(k) ELSE Settled(k)) => Settled(j)  BY <2>1, <2>3
  <2>. QED  BY <1>5, <2>2, <2>4 DEF k
<1>. QED  BY <1>7, <1>8

(* After a declaration there is a local whose initializer is not over, if  *)
(* there is a scope.                                                       *)
LEMMA DeclaredAwaits ==
  ASSUME NEW u, UnitOK(u), NEW n \in Names, ~Refused(u, n)
  PROVE  LET v == Declared(u, n)
             k == Current(v)
         IN  /\ UnitOK(v) /\ Steps(u, v, k) /\ k.deep = Current(u).deep
             /\ k.deep > 0 => Len(k.locals) > 1
             /\ Settled(Current(u)) => IF k.deep > 0 THEN Awaiting(k) ELSE Settled(k)
             /\ k.height = Current(u).height /\ k.sets = Current(u).sets
<1>. DEFINE v == Declared(u, n)
            c == Current(u)
            k == DeclaredCompiler(c, n)
            l == [name |-> n, depth |-> -1]
<1>1. Steps(u, v, k)  BY DeclaredSound
<1>2. UnitOK(v) /\ Current(v) = k  BY <1>1, StepsCurrent DEF Steps
<1>3. c \in CompilerType /\ c.deep \in Nat /\ CompilerOK(c, u.pools)
  BY CurrentTyped, DepthsTyped
<1>4. CASE c.deep = 0
  <2>1. k = c  BY <1>4 DEF DeclaredCompiler
  <2>. QED  BY <1>1, <1>2, <1>4, <2>1
<1>5. CASE c.deep # 0
  <2>. DEFINE t == Append(c.locals, l)
  <2>1. k = [c EXCEPT !.locals = t]  BY <1>5 DEF DeclaredCompiler
  <2>2. c.locals \in Seq(LocalType) /\ Len(c.locals) >= 1 /\ l \in LocalType
    <3>1. l \in LocalType  BY DEF LocalType
    <3>. HIDE DEF c, l
    <3>. QED  BY <1>3, <3>1, DepthsTyped, CompilerAssumption DEF CompilerOK
  <2>3. Len(t) > 1
    <3>. HIDE DEF c, l
    <3>. QED  BY <2>2
  <2>4. /\ k.locals = t /\ k.deep = c.deep /\ k.height = c.height /\ k.sets = c.sets
    <3>. HIDE DEF t, k, c
    <3>. QED  BY <1>3, <2>1 DEF CompilerType
  <2>5. c.deep > 0  BY <1>3, <1>5
  <2>6. Settled(c) => Awaiting(k)  BY <2>5, DeclareAwaits
  <2>. HIDE DEF t, k
  <2>. QED  BY <1>1, <1>2, <2>3, <2>4, <2>5, <2>6
<1>. QED  BY <1>4, <1>5

(* A `set` statement: a local more, or none; and a value less than there   *)
(* are locals, or globals set.                                             *)
LEMMA SetFollows ==
  ASSUME NEW u, UnitOK(u), NEW n \in Names, ~Refused(u, n),
         NEW v, Steps(Declared(u, n), v, [Current(Declared(u, n)) EXCEPT !.height = @ + 1])
  PROVE  Follows(u, SetCount(Raised(Defined(v, n), -1)))
<1>. DEFINE d == Declared(u, n)
            w == Defined(v, n)
            x == Raised(w, -1)
<1>1. /\ UnitOK(d) /\ Steps(u, d, Current(d)) /\ Current(d).deep = Current(u).deep
      /\ Current(d).deep > 0 => Len(Current(d).locals) > 1
      /\ Settled(Current(u)) =>
           IF Current(d).deep > 0 THEN Awaiting(Current(d)) ELSE Settled(Current(d))
  BY DeclaredAwaits
<1>. HIDE DEF d
<1>2. PICK j : /\ Steps(d, w, j) /\ j.deep = Current(d).deep
               /\ (IF Current(d).deep > 0
                   THEN Awaiting(Current(d)) ELSE Settled(Current(d)))
                  => Settled(j)
  BY <1>1, ValueDefined DEF d
<1>. HIDE DEF w
<1>3. UnitOK(w) /\ Current(w) = j /\ j \in CompilerType /\ Steps(u, w, j)
  <2>1. Current(w) = j /\ j \in CompilerType  BY <1>1, <1>2, StepsCurrent
  <2>2. UnitOK(w)  BY <1>2 DEF Steps
  <2>3. Steps(u, w, j)  BY <1>1, <1>2, StepsTwice
  <2>. QED  BY <2>1, <2>2, <2>3
<1>. DEFINE i == [j EXCEPT !.height = @ + (-1)]
            k == [i EXCEPT !.sets = @ + 1]
<1>4. Steps(w, x, i)  BY <1>3, RaisedSound
<1>. HIDE DEF x
<1>5. UnitOK(x) /\ Current(x) = i /\ i \in CompilerType
  BY <1>3, <1>4, StepsCurrent DEF Steps
<1>6. Steps(x, SetCount(x), k)  BY <1>5, SetCountSound
<1>7. Steps(u, SetCount(x), k)  BY <1>3, <1>4, <1>6, StepsTwice
<1>8. k \in CompilerType  BY <1>7, StepsCurrent
<1>9. /\ k.locals = j.locals /\ k.deep = j.deep
      /\ k.height = j.height - 1 /\ k.sets = j.sets + 1
  BY <1>3, <1>5 DEF CompilerType
<1>. HIDE DEF k, i
<1>10. Settled(j) => Settled(k)
  <2>1. j.deep \in Nat /\ j.height \in Int /\ j.sets \in Nat  BY <1>3, DepthsTyped
  <2>2. k.deep >= j.deep /\ k.height + k.sets = j.height + j.sets  BY <1>9, <2>1
  <2>. QED  BY <1>3, <1>8, <1>9, <2>2, SettledSame
<1>11. k.deep = Current(u).deep  BY <1>1, <1>2, <1>9
<1>12. Settled(Current(u)) => Settled(k)  BY <1>1, <1>2, <1>10
<1>. QED  BY <1>7, <1>11, <1>12 DEF Follows, x, w

(* A parameter: a local more, and the value the caller has pushed.         *)
LEMMA ParameterFollows ==
  ASSUME NEW u, UnitOK(u), NEW n \in Names, ~Refused(u, n)
  PROVE  Follows(u, Raised(Defined(Declared(u, n), n), 1))
<1>. DEFINE d == Declared(u, n)
            k == Current(d)
            w == Defined(d, n)
            j == DefinedCompiler(k)
            i == [j EXCEPT !.height = @ + 1]
<1>1. /\ UnitOK(d) /\ Steps(u, d, k) /\ k.deep = Current(u).deep
      /\ k.deep > 0 => Len(k.locals) > 1
      /\ Settled(Current(u)) => IF k.deep > 0 THEN Awaiting(k) ELSE Settled(k)
  BY DeclaredAwaits
<1>. HIDE DEF d
<1>2. Steps(d, w, j)  BY <1>1, DefinedSound DEF Locals
<1>3. UnitOK(w) /\ Current(w) = j /\ j \in CompilerType
  BY <1>1, <1>2, StepsCurrent DEF Steps
<1>. HIDE DEF w
<1>4. Steps(w, Raised(w, 1), i)  BY <1>3, RaisedSound
<1>5. Steps(u, Raised(w, 1), i)  BY <1>1, <1>2, <1>4, StepsTwice
<1>6. i \in CompilerType  BY <1>3, <1>4, StepsCurrent
<1>7. /\ k \in CompilerType /\ k.deep \in Nat /\ k.height \in Int /\ k.sets \in Nat
      /\ Len(k.locals) \in Nat
  BY <1>1, CurrentTyped, DepthsTyped
<1>. HIDE DEF k
<1>8. /\ i.locals = j.locals /\ i.deep = j.deep /\ i.sets = j.sets
      /\ i.height = j.height + 1
  <2>. HIDE DEF j
  <2>. QED  BY <1>3 DEF CompilerType
<1>. HIDE DEF i
<1>9. CASE k.deep = 0
  <2>1. j = [k EXCEPT !.height = @ + (-1)]  BY <1>9 DEF DefinedCompiler
  <2>. HIDE DEF j
  <2>2. j.locals = k.locals /\ j.deep = k.deep /\ j.sets = k.sets /\ j.height = k.height - 1
    BY <1>7, <2>1 DEF CompilerType
  <2>3. /\ i.locals = k.locals /\ i.deep >= k.deep
        /\ i.height + i.sets = k.height + k.sets
    BY <1>7, <1>8, <2>2
  <2>4. Settled(k) => Settled(i)  BY <1>6, <1>7, <2>3, SettledSame
  <2>5. i.deep = Current(u).deep  BY <1>1, <1>8, <2>2
  <2>6. ~(k.deep > 0)  BY <1>9
  <2>7. Settled(Current(u)) => Settled(i)  BY <1>1, <2>4, <2>6
  <2>. QED  BY <1>5, <2>5, <2>7 DEF Follows, w, d
<1>10. CASE k.deep # 0
  <2>1. k.deep > 0  BY <1>7, <1>10
  <2>2. j.deep = k.deep
    <3>. DEFINE t == [k.locals EXCEPT ![Len(k.locals)].depth = k.deep]
    <3>1. j = [k EXCEPT !.locals = t]  BY <1>10 DEF DefinedCompiler
    <3>. HIDE DEF j, t
    <3>. QED  BY <1>7, <3>1 DEF CompilerType
  <2>3. ASSUME Awaiting(k) PROVE Settled(i)
    <3>1. /\ Ordered(j, Len(k.locals)) /\ Len(j.locals) = Len(k.locals)
          /\ j.height = k.height /\ j.sets = k.sets
      BY <1>7, <2>1, <2>3, DefineOrders
    <3>2. k.height = Len(k.locals) - 1 - k.sets  BY <2>3 DEF Awaiting
    <3>3. i.height = Len(i.locals) - i.sets  BY <1>7, <1>8, <3>1, <3>2
    <3>4. Ordered(i, Len(i.locals))  BY <1>8, <3>1, Zenon DEF Ordered
    <3>. QED  BY <3>3, <3>4 DEF Settled
  <2>4. i.deep = Current(u).deep  BY <1>1, <1>8, <2>2
  <2>5. Settled(Current(u)) => Settled(i)  BY <1>1, <2>1, <2>3
  <2>. QED  BY <1>5, <2>4, <2>5 DEF Follows, w, d
<1>. QED  BY <1>9, <1>10 DEF d, w

(* What a statement between others preserves.                              *)
LEMMA StaysSound ==
  ASSUME NEW u, NEW w, UnitOK(u), Stays(u, w)
  PROVE  /\ UnitOK(w)
         /\ Below(u) => Below(w)
         /\ w.chain[1].deep = u.chain[1].deep /\ Top(w) = Top(u)
<1>1. PICK k : Steps(u, w, k) /\ k.deep = Current(u).deep  BY DEF Stays
<1>2. UnitOK(w) /\ (Below(u) => Below(w)) /\ Top(w) = Top(u)
  BY <1>1, StepsBelow, StepsCurrent DEF Steps
<1>3. w.chain[1].deep = u.chain[1].deep
  <2>1. CASE Top(u) = 1
    BY <1>1, <2>1, StepsCurrent DEF Current
  <2>2. CASE Top(u) # 1
    <3>1. 1 \in DOMAIN u.chain
      <4>1. u.chain \in Seq(CompilerType) /\ u.chain # <<>>  BY CurrentTyped DEF UnitOK
      <4>. QED  BY <4>1
    <3>. QED  BY <1>1, <2>2, <3>1, StepsCurrent
  <2>. QED  BY <2>1, <2>2
<1>. QED  BY <1>2, <1>3

(* What a statement may do to a unit keeps the frames of the Compilers     *)
(* and the open constructs in step.                                        *)
LEMMA FollowsSound ==
  ASSUME NEW u, NEW w, UnitOK(u), Follows(u, w)
  PROVE  /\ UnitOK(w) /\ Stays(u, w)
         /\ FramesInStep(u) => FramesInStep(w)
         /\ \A o \in Seq(OpenType) : OpenInStep(u, o) => OpenInStep(w, o)
<1>1. PICK k : /\ Steps(u, w, k) /\ k.deep = Current(u).deep
               /\ Settled(Current(u)) => Settled(k)
  BY DEF Follows
<1>2. UnitOK(w) /\ Current(w) = k /\ (AwaitingBelow(u) => AwaitingBelow(w))
  BY <1>1, StepsBelow, StepsCurrent DEF Steps
<1>3. FramesInStep(u) => FramesInStep(w)  BY <1>1, <1>2, FramesSplit
<1>4. k.deep >= Current(u).deep
  <2>1. Current(u).deep \in Nat  BY CurrentTyped, DepthsTyped
  <2>. QED  BY <1>1, <2>1
<1>5. \A o \in Seq(OpenType) : OpenInStep(u, o) => OpenInStep(w, o)
  BY <1>1, <1>4, OpenKept
<1>. QED  BY <1>1, <1>2, <1>3, <1>5 DEF Stays

-----------------------------------------------------------------------------
(* The invariant. *)

(* CInv, by what the lemmas above speak of.                                *)
Parts ==
  /\ UnitOK(unit) /\ Below(unit)
  /\ ~failed => FramesInStep(unit)
  /\ OpenInStep(unit, open)
  /\ open \in Seq(OpenType)
  /\ failed \in BOOLEAN /\ length \in 0 .. ProgramLength
  /\ status \in {"parsing", "undefined"}

(* The parts are the invariant, and nothing else.                          *)
LEMMA PartsOfCInv == Parts <=> CInv
<1>1. ASSUME Parts PROVE CInv
  <2>1. \A n \in Names :
          unit.interned[n] # NoIndex => unit.interned[n].chunk \in DOMAIN unit.pools
    BY <1>1 DEF Parts, UnitOK, ConstantsOK, InternedResolve
  <2>2. TypeOK
    BY <1>1, <2>1 DEF Parts, UnitOK, ConstantsOK, CompilerOK, TypeOK
  <2>3. \A c \in DOMAIN unit.chain :
          /\ OwnSlot(unit.chain[c])
          /\ c < Top(unit) /\ unit.chain[c].deep > 0 => Len(unit.chain[c].locals) > 1
    BY <1>1 DEF Parts, UnitOK, CompilerOK, Below
  <2>4. InternedResolve(unit) /\ ScriptConstantsResolve
    BY <1>1 DEF Parts, UnitOK, ConstantsOK, ScriptConstantsResolve
  <2>. QED  BY <1>1, <2>2, <2>3, <2>4 DEF Parts, CInv
<1>2. ASSUME CInv PROVE Parts
  <2>1. ConstantsOK(unit)
    BY <1>2 DEF CInv, TypeOK, ConstantsOK, ScriptConstantsResolve
  <2>2. UnitOK(unit)
    BY <1>2, <2>1 DEF CInv, TypeOK, UnitOK, CompilerOK
  <2>3. Below(unit)  BY <1>2 DEF CInv, Below
  <2>. QED  BY <1>2, <2>2, <2>3 DEF CInv, TypeOK, Parts
<1>. QED  BY <1>1, <1>2

(* A session begins with a script that has its own slot and no constant.   *)
LEMMA InitParts == Init => Parts
<1>. SUFFICES ASSUME Init PROVE Parts  OBVIOUS
<1>. DEFINE k == NewCompiler(Script, 0)
            z == [n \in Names |-> NoIndex]
            c == <<k>>
            p == <<<<>>>>
<1>1. /\ k.chunk = 1 /\ k.locals = <<[name |-> NoName, depth |-> 0]>> /\ k.deep = 0
      /\ k.height = 1 /\ k.sets = 0 /\ k \in CompilerType
  BY DEF NewCompiler, Script, CompilerType, LocalType
<1>2. OwnSlot(k) /\ Len(k.locals) = 1 /\ Settled(k)
  <2>1. Len(k.locals) = 1 /\ k.locals[1] = [name |-> NoName, depth |-> 0]  BY <1>1
  <2>2. k.locals[1].depth = 0  BY <2>1
  <2>. HIDE DEF k
  <2>3. Ordered(k, 1)  BY <1>1, <2>1, <2>2 DEF Ordered
  <2>. QED  BY <1>1, <2>1, <2>3 DEF OwnSlot, Settled
<1>. HIDE DEF k
<1>3. /\ unit.interned = z /\ unit.pools = p /\ unit.chain = c /\ unit.refs = {}
      /\ unit = [interned |-> z, pools |-> p, chain |-> c, refs |-> {}]
  BY DEF Init, InitialUnit, k
<1>4. z \in [Names -> [chunk : Nat, index : Nat]] /\ \A n \in Names : z[n] = NoIndex
  BY DEF NoIndex
<1>5. p \in Seq(Seq(Names \cup {Other})) /\ DOMAIN p = {1} /\ p # <<>>  OBVIOUS
<1>6. c \in Seq(CompilerType) /\ DOMAIN c = {1} /\ c # <<>> /\ c[1] = k /\ Len(c) = 1
  BY <1>1
<1>. HIDE DEF z, p, c
<1>7. unit \in UnitType  BY <1>3, <1>4, <1>5, <1>6 DEF UnitType
<1>8. ConstantsOK(unit)  BY <1>3, <1>4, <1>5 DEF ConstantsOK, InternedResolve
<1>9. \A d \in DOMAIN unit.chain : CompilerOK(unit.chain[d], unit.pools)
  <2>1. Len(k.locals) \in 1 .. LocalLimit  BY <1>2, CompilerAssumption
  <2>2. CompilerOK(k, p)  BY <1>1, <1>2, <1>5, <2>1 DEF CompilerOK
  <2>. QED  BY <1>3, <1>6, <2>2
<1>10. UnitOK(unit)  BY <1>3, <1>6, <1>7, <1>8, <1>9 DEF UnitOK
<1>11. Top(unit) = 1 /\ Current(unit) = k  BY <1>3, <1>6 DEF Top, Current
<1>12. \A d \in DOMAIN unit.chain : ~(d < Top(unit))  BY <1>3, <1>6, <1>11
<1>13. Below(unit) /\ AwaitingBelow(unit)  BY <1>12 DEF Below, AwaitingBelow
<1>14. FramesInStep(unit)  BY <1>2, <1>10, <1>11, <1>13, FramesSplit
<1>15. OpenInStep(unit, <<>>)  BY <1>10, OpenNone
<1>16. /\ open = <<>> /\ open \in Seq(OpenType)
       /\ failed \in BOOLEAN /\ length \in 0 .. ProgramLength
       /\ status \in {"parsing", "undefined"}
  <2>1. open = <<>> /\ failed = FALSE /\ length = 0 /\ status = "parsing"  BY DEF Init
  <2>2. <<>> \in Seq(OpenType)  OBVIOUS
  <2>3. 0 \in 0 .. ProgramLength  BY CompilerAssumption
  <2>. QED  BY <2>1, <2>2, <2>3
<1>. QED  BY <1>10, <1>13, <1>14, <1>15, <1>16 DEF Parts

(* Most statements: no construct begins or ends.                           *)
Quietly ==
  /\ Follows(unit, unit') /\ open' = open
  /\ failed' = failed /\ status' = status /\ length' \in 0 .. ProgramLength

(* A statement that fails.                                                 *)
Failing ==
  /\ Stays(unit, unit') /\ open' = <<>>
  /\ failed' = TRUE /\ UNCHANGED <<length, status>>

(* The length of a session stays in its bound.                             *)
LEMMA LengthBound ==
  ASSUME Parts, length < ProgramLength, length' = length + 1
  PROVE  length' \in 0 .. ProgramLength
BY CompilerAssumption DEF Parts

(* Using a name keeps the frames in step, or an error abandons the unit.   *)
LEMMA UseNameEffect ==
  ASSUME Parts, NEW n \in Names, UseName(n)
  PROVE  Quietly \/ Failing
<1>1. UnitOK(unit)  BY DEF Parts
<1>2. CASE Unready(unit, n)
  <2>1. Fail(unit)  BY <1>2 DEF UseName
  <2>2. Follows(unit, unit)  BY <1>1, SameFollows
  <2>3. Stays(unit, unit)  BY <1>1, <2>2, FollowsSound
  <2>. QED  BY <2>1, <2>3 DEF Fail, Failing
<1>3. CASE ~Unready(unit, n)
  <2>1. Follows(unit, Raised(Read(unit, n), -1))
    BY <1>1, ReadSound, DroppedFollows
  <2>. QED  BY <1>3, <2>1, LengthBound DEF UseName, Parse, Quietly
<1>. QED  BY <1>2, <1>3

(* A string literal keeps the frames in step.                              *)
LEMMA UseStringEffect ==
  ASSUME Parts, NEW n \in Names, UseString(n)
  PROVE  Quietly
<1>1. UnitOK(unit)  BY DEF Parts
<1>2. Follows(unit, NamedBy(unit, n))  BY <1>1, NamedBySound, SameFollows
<1>. QED  BY <1>2, LengthBound DEF UseString, Parse, Quietly

(* So does a value that is no string.                                      *)
LEMMA UseValueEffect ==
  ASSUME Parts, UseValue
  PROVE  Quietly
<1>1. UnitOK(unit)  BY DEF Parts
<1>2. Follows(unit, Raised(WriteConstant(unit), -1))
  BY <1>1, WriteConstantSound, DroppedFollows
<1>. QED  BY <1>2, LengthBound DEF UseValue, Parse, Quietly

(* A constant's index changes no Compiler.                                 *)
LEMMA IndexedStays ==
  ASSUME NEW u, UnitOK(u), NEW n \in Names
  PROVE  Stays(u, Indexed(u, n))
BY IndexedSound, SameFollows, FollowsSound

(* A `set` keeps the frames in step, or an error abandons the unit.        *)
LEMMA SetVariableEffect ==
  ASSUME Parts, NEW n \in Names, SetVariable(n)
  PROVE  Quietly \/ Failing
<1>1. UnitOK(unit)  BY DEF Parts
<1>2. CASE Refused(unit, n)
  <2>1. Fail(Indexed(unit, n))  BY <1>2 DEF SetVariable
  <2>. QED  BY <1>1, <2>1, IndexedStays DEF Fail, Failing
<1>3. CASE ~Refused(unit, n)
  <2>. DEFINE d == Declared(unit, n)
  <2>1. UnitOK(d) /\ Steps(unit, d, Current(d)) /\ Current(d).deep = Current(unit).deep
    BY <1>1, <1>3, DeclaredAwaits
  <2>2. CASE /\ Parse(SetCount(Raised(Defined(WriteConstant(d), n), -1)))
             /\ UNCHANGED open
    <3>1. Follows(unit, SetCount(Raised(Defined(WriteConstant(d), n), -1)))
      BY <1>1, <1>3, <2>1, WriteConstantSound, SetFollows
    <3>. QED  BY <2>2, <3>1, LengthBound DEF Parse, Quietly
  <2>3. ASSUME NEW m \in Names,
               Parse(SetCount(Raised(Defined(Read(d, m), n), -1))), UNCHANGED open
        PROVE  Quietly
    <3>1. Follows(unit, SetCount(Raised(Defined(Read(d, m), n), -1)))
      BY <1>1, <1>3, <2>1, ReadSound, SetFollows
    <3>. QED  BY <2>3, <3>1, LengthBound DEF Parse, Quietly
  <2>4. CASE Fail(d)
    <3>1. Stays(unit, d)  BY <2>1 DEF Stays
    <3>. HIDE DEF d
    <3>. QED  BY <2>4, <3>1 DEF Fail, Failing
  <2>. HIDE DEF d
  <2>5. \/ /\ Parse(SetCount(Raised(Defined(WriteConstant(d), n), -1)))
           /\ UNCHANGED open
        \/ \E m \in Names :
             IF Unready(d, m)
             THEN Fail(d)
             ELSE /\ Parse(SetCount(Raised(Defined(Read(d, m), n), -1)))
                  /\ UNCHANGED open
        \/ Fail(d)
    BY <1>3 DEF SetVariable, d
  <2>. QED  BY <2>2, <2>3, <2>4, <2>5
<1>. QED  BY <1>2, <1>3

(* So does a parameter.                                                    *)
LEMMA AddParameterEffect ==
  ASSUME Parts, NEW n \in Names, AddParameter(n)
  PROVE  Quietly \/ Failing
<1>1. UnitOK(unit)  BY DEF Parts
<1>2. CASE Refused(unit, n)
  <2>1. Fail(Indexed(unit, n))  BY <1>2 DEF AddParameter
  <2>. QED  BY <1>1, <2>1, IndexedStays DEF Fail, Failing
<1>3. CASE ~Refused(unit, n)
  <2>1. Follows(unit, Raised(Defined(Declared(unit, n), n), 1))
    BY <1>1, <1>3, ParameterFollows
  <2>. QED  BY <1>3, <2>1, LengthBound DEF AddParameter, Quietly
<1>. QED  BY <1>2, <1>3

(* A syntax error abandons the unit where it stands.                       *)
LEMMA SyntaxErrorEffect ==
  ASSUME Parts, SyntaxError
  PROVE  Failing
<1>1. UnitOK(unit)  BY DEF Parts
<1>2. Stays(unit, unit)  BY <1>1, SameFollows, FollowsSound
<1>. QED  BY <1>2 DEF SyntaxError, Fail, Failing

(* Neither of them breaks the invariant.                                   *)
LEMMA QuietlyParts ==
  ASSUME Parts, Quietly
  PROVE  Parts'
<1>1. UnitOK(unit) /\ UnitOK(unit') /\ Stays(unit, unit')
  BY FollowsSound DEF Parts, Quietly
<1>2. Below(unit')  BY <1>1, StaysSound DEF Parts
<1>3. ~failed' => FramesInStep(unit')  BY <1>1, FollowsSound DEF Parts, Quietly
<1>4. OpenInStep(unit', open')  BY <1>1, FollowsSound DEF Parts, Quietly
<1>. QED  BY <1>1, <1>2, <1>3, <1>4 DEF Parts, Quietly

(* An abandoned unit keeps what holds in the middle of a statement.        *)
LEMMA FailingParts ==
  ASSUME Parts, Failing
  PROVE  Parts'
<1>1. UnitOK(unit) /\ UnitOK(unit') /\ Below(unit')
  <2>1. UnitOK(unit) /\ Below(unit) /\ Stays(unit, unit')  BY DEF Parts, Failing
  <2>. QED  BY <2>1, StaysSound
<1>2. OpenInStep(unit', open')  BY <1>1, OpenNone DEF Failing
<1>3. open' \in Seq(OpenType)  BY DEF Failing
<1>. QED  BY <1>1, <1>2, <1>3 DEF Parts, Failing

(* The deeper Compiler of a scope is as settled as before.                 *)
LEMMA DeepenedFrames ==
  ASSUME NEW u, UnitOK(u)
  PROVE  LET w == [u EXCEPT !.chain[Top(u)].deep = @ + 1]
             k == Current(w)
         IN  /\ UnitOK(w) /\ Steps(u, w, k) /\ k.deep = Current(u).deep + 1
             /\ Below(u) => Below(w)
             /\ FramesInStep(u) => FramesInStep(w)
<1>. DEFINE w == [u EXCEPT !.chain[Top(u)].deep = @ + 1]
            c == Current(u)
            k == [c EXCEPT !.deep = @ + 1]
<1>1. Steps(u, w, k)  BY DeepenedSound
<1>. HIDE DEF w
<1>2. UnitOK(w) /\ Current(w) = k /\ k \in CompilerType
  BY <1>1, StepsCurrent DEF Steps
<1>3. c \in CompilerType  BY CurrentTyped
<1>. HIDE DEF c
<1>4. k.locals = c.locals /\ k.deep = c.deep + 1 /\ k.height = c.height /\ k.sets = c.sets
  BY <1>3 DEF CompilerType
<1>. HIDE DEF k
<1>5. Settled(c) => Settled(k)
  <2>1. c.deep \in Nat /\ c.height \in Int /\ c.sets \in Nat  BY <1>3, DepthsTyped
  <2>2. k.deep >= c.deep /\ k.height + k.sets = c.height + c.sets  BY <1>4, <2>1
  <2>. QED  BY <1>2, <1>3, <1>4, <2>2, SettledSame
<1>6. (Below(u) => Below(w)) /\ (AwaitingBelow(u) => AwaitingBelow(w))
  BY <1>1, StepsBelow
<1>7. FramesInStep(u) => FramesInStep(w)
  BY <1>2, <1>5, <1>6, FramesSplit DEF c
<1>. QED  BY <1>1, <1>2, <1>4, <1>6, <1>7 DEF w, c

(* The last of the open constructs is typed.                               *)
LEMMA InnermostTyped ==
  ASSUME open \in Seq(OpenType), NEW kind, Innermost(kind)
  PROVE  /\ open # <<>> /\ open[Len(open)] \in OpenType /\ open[Len(open)].kind = kind
         /\ Len(open) \in Nat \ {0}
BY DEF Innermost

(* A block deepens the innermost Compiler by one.                          *)
LEMMA BeginScopeParts ==
  ASSUME Parts, BeginScope
  PROVE  Parts'
<1>. DEFINE w == [unit EXCEPT !.chain[Top(unit)].deep = @ + 1]
            e == [kind |-> "scope", name |-> NoName]
<1>1. /\ unit' = w /\ open' = Append(open, e) /\ ~(Top(unit) > 1 /\ open = <<>>)
      /\ UNCHANGED <<failed, status>> /\ length' \in 0 .. ProgramLength
  BY LengthBound DEF BeginScope, Parse, Opened, Dangling
<1>2. UnitOK(unit)  BY DEF Parts
<1>3. /\ UnitOK(w) /\ Steps(unit, w, Current(w))
      /\ Current(w).deep = Current(unit).deep + 1
      /\ Below(unit) => Below(w)
      /\ FramesInStep(unit) => FramesInStep(w)
  BY <1>2, DeepenedFrames
<1>. HIDE DEF w
<1>4. e \in OpenType /\ e.kind = "scope"  BY DEF OpenType
<1>. HIDE DEF e
<1>5. open \in Seq(OpenType) /\ OpenInStep(unit, open)  BY DEF Parts
<1>6. OpenInStep(w, Append(open, e))
  BY <1>1, <1>2, <1>3, <1>4, <1>5, OpenScope
<1>7. Append(open, e) \in Seq(OpenType)  BY <1>4, <1>5
<1>. QED  BY <1>1, <1>3, <1>6, <1>7 DEF Parts

(* Its end drops the locals of the block and their cells.                  *)
LEMMA EndScopeParts ==
  ASSUME Parts, EndScope
  PROVE  Parts'
<1>. DEFINE u == unit
            w == ScopeEnded(unit)
            q == SubSeq(open, 1, Len(open) - 1)
            c == Current(unit)
<1>1. /\ unit' = w /\ open' = q /\ UNCHANGED <<failed, length, status>>
      /\ Innermost("scope")
  BY DEF EndScope, Closed
<1>2. UnitOK(unit) /\ open \in Seq(OpenType) /\ OpenInStep(unit, open)  BY DEF Parts
<1>3. open # <<>> /\ open[Len(open)].kind = "scope"  BY <1>1 DEF Innermost
<1>4. c.deep > 0  BY <1>2, <1>3, ScopeIsDeep
<1>5. PICK m \in 1 .. Len(Locals(unit)) :
        /\ Steps(unit, w, ScopeEndedCompiler(c, m))
        /\ Locals(unit)[m].depth <= c.deep - 1
  BY <1>2, <1>4, ScopeEndedSound
<1>. DEFINE k == ScopeEndedCompiler(c, m)
<1>6. UnitOK(w) /\ Current(w) = k /\ c \in CompilerType /\ Locals(unit) = c.locals
  BY <1>2, <1>5, StepsCurrent, CurrentTyped DEF Steps, Locals
<1>7. k.deep = c.deep - 1
  <2>. DEFINE s == SubSeq(c.locals, 1, m)
              h == c.height - (Len(c.locals) - m)
  <2>1. k = [c EXCEPT !.deep = c.deep - 1, !.locals = s, !.height = h]
    BY Zenon DEF ScopeEndedCompiler
  <2>. HIDE DEF k, s, h, c
  <2>. QED  BY <1>6, <2>1 DEF CompilerType
<1>8. Settled(c) => Settled(k)
  <2>. HIDE DEF c
  <2>. QED  BY <1>4, <1>5, <1>6, ScopeEndedSettles
<1>. HIDE DEF k, w
<1>9. (Below(unit) => Below(w)) /\ (AwaitingBelow(unit) => AwaitingBelow(w))
  BY <1>2, <1>5, StepsBelow DEF k
<1>10. FramesInStep(unit) => FramesInStep(w)
  BY <1>2, <1>6, <1>8, <1>9, FramesSplit
<1>11. OpenInStep(w, q)
  BY <1>2, <1>3, <1>5, <1>7, CloseScope DEF k
<1>12. q \in Seq(OpenType)  BY <1>2, <1>3, OwnerClosed
<1>. QED  BY <1>1, <1>6, <1>9, <1>10, <1>11, <1>12 DEF Parts

(* fundeclstat up to the parameters fails, or declares the name and enters *)
(* the function.                                                           *)
LEMMA BeginFunctionEffect ==
  ASSUME Parts, NEW n \in Names, BeginFunction(n)
  PROVE  \/ Failing
         \/ /\ ~Refused(unit, n) /\ ~Dangling
            /\ unit' = Entered(Declared(unit, n))
            /\ open' = Append(open, [kind |-> "head", name |-> n])
            /\ UNCHANGED <<failed, status>> /\ length' \in 0 .. ProgramLength
<1>1. UnitOK(unit)  BY DEF Parts
<1>2. CASE Refused(unit, n)
  <2>1. Fail(Indexed(unit, n))  BY <1>2 DEF BeginFunction
  <2>. QED  BY <1>1, <2>1, IndexedStays DEF Fail, Failing
<1>3. CASE ~Refused(unit, n)
  BY <1>3, LengthBound DEF BeginFunction, Parse, Opened
<1>. QED  BY <1>2, <1>3

(* A function's name is declared, and its own Compiler entered.            *)
LEMMA BeginFunctionParts ==
  ASSUME Parts, NEW n \in Names, BeginFunction(n)
  PROVE  Parts'
<1>. DEFINE d == Declared(unit, n)
            w == Entered(d)
            e == [kind |-> "head", name |-> n]
<1>1. CASE Failing  BY <1>1, FailingParts
<1>2. CASE /\ ~Refused(unit, n) /\ ~Dangling
           /\ unit' = w /\ open' = Append(open, e)
           /\ UNCHANGED <<failed, status>> /\ length' \in 0 .. ProgramLength
  <2>1. UnitOK(unit) /\ open \in Seq(OpenType) /\ OpenInStep(unit, open)  BY DEF Parts
  <2>2. /\ UnitOK(d) /\ Steps(unit, d, Current(d)) /\ Current(d).deep = Current(unit).deep
        /\ Current(d).deep > 0 => Len(Current(d).locals) > 1
        /\ Settled(Current(unit)) =>
             IF Current(d).deep > 0 THEN Awaiting(Current(d)) ELSE Settled(Current(d))
    BY <1>2, <2>1, DeclaredAwaits
  <2>. HIDE DEF d
  <2>3. UnitOK(w)  BY <2>2, EnteredSound
  <2>4. (Below(unit) => Below(d)) /\ (AwaitingBelow(unit) => AwaitingBelow(d))
    BY <2>1, <2>2, StepsBelow
  <2>5. Below(w)  BY <2>2, <2>4, EnteredBelow DEF Parts
  <2>6. FramesInStep(unit) => FramesInStep(w)
    BY <2>1, <2>2, <2>4, EnteredBelow, FramesSplit
  <2>7. e \in OpenType /\ e.kind # "scope"  BY DEF OpenType
  <2>. HIDE DEF w, e
  <2>8. OpenInStep(d, open) /\ ~(Top(d) > 1 /\ open = <<>>)
    <3>1. Current(d).deep >= Current(unit).deep
      <4>1. Current(unit).deep \in Nat  BY <2>1, CurrentTyped, DepthsTyped
      <4>. QED  BY <2>2, <4>1
    <3>2. Top(d) = Top(unit)  BY <2>1, <2>2, StepsCurrent
    <3>. QED  BY <1>2, <2>1, <2>2, <3>1, <3>2, OpenKept DEF Dangling
  <2>9. OpenInStep(w, Append(open, e))
    BY <2>1, <2>2, <2>7, <2>8, OpenFunction DEF w
  <2>10. Append(open, e) \in Seq(OpenType)  BY <2>1, <2>7
  <2>. QED  BY <1>2, <2>3, <2>5, <2>6, <2>9, <2>10 DEF Parts
<1>. QED  BY <1>1, <1>2, BeginFunctionEffect

(* A function's body is a scope of its own Compiler.                       *)
LEMMA BeginBodyParts ==
  ASSUME Parts, BeginBody
  PROVE  Parts'
<1>. DEFINE w == [unit EXCEPT !.chain[Top(unit)].deep = @ + 1]
            e == [open[Len(open)] EXCEPT !.kind = "body"]
            q == Append(SubSeq(open, 1, Len(open) - 1), e)
<1>1. /\ unit' = w /\ open' = q /\ Innermost("head")
      /\ UNCHANGED <<failed, length, status>>
  BY DEF BeginBody, Closed
<1>2. UnitOK(unit) /\ open \in Seq(OpenType) /\ OpenInStep(unit, open)  BY DEF Parts
<1>3. /\ UnitOK(w) /\ Steps(unit, w, Current(w))
      /\ Current(w).deep = Current(unit).deep + 1
      /\ Below(unit) => Below(w)
      /\ FramesInStep(unit) => FramesInStep(w)
  BY <1>2, DeepenedFrames
<1>. HIDE DEF w
<1>4. /\ open # <<>> /\ open[Len(open)] \in OpenType /\ open[Len(open)].kind = "head"
  BY <1>1, <1>2, InnermostTyped
<1>5. e \in OpenType /\ e.kind # "scope"  BY <1>4 DEF OpenType
<1>. HIDE DEF e
<1>6. q \in Seq(OpenType) /\ OpenInStep(unit, q)
  BY <1>2, <1>4, <1>5, OpenBody
<1>. HIDE DEF q
<1>7. OpenInStep(w, q)
  <2>1. Current(unit).deep \in Nat  BY <1>2, CurrentTyped, DepthsTyped
  <2>2. Current(w).deep >= Current(unit).deep  BY <1>3, <2>1
  <2>. QED  BY <1>2, <1>3, <1>6, <2>2, OpenKept
<1>. QED  BY <1>1, <1>3, <1>6, <1>7 DEF Parts

(* The function's Compiler is left, and its name defined.                  *)
LEMMA EndFunctionParts ==
  ASSUME Parts, EndFunction
  PROVE  Parts'
<1>. DEFINE l == [unit EXCEPT !.chain = SubSeq(@, 1, Len(@) - 1)]
            n == open[Len(open)].name
            v == WriteConstant(l)
            w == Defined(v, n)
            q == SubSeq(open, 1, Len(open) - 1)
            k == Current(l)
<1>1. /\ unit' = w /\ open' = q /\ Innermost("body")
      /\ UNCHANGED <<failed, length, status>>
  BY DEF EndFunction, Closed
<1>2. UnitOK(unit) /\ open \in Seq(OpenType) /\ OpenInStep(unit, open)  BY DEF Parts
<1>3. /\ open # <<>> /\ open[Len(open)] \in OpenType /\ open[Len(open)].kind = "body"
  BY <1>1, <1>2, InnermostTyped
<1>4. n \in Names  BY <1>3 DEF OpenType
<1>. HIDE DEF n
<1>5. Top(unit) > 1 /\ OpenInStep(l, q)
  BY <1>2, <1>3, CloseFunction
<1>6. /\ UnitOK(l)
      /\ Below(unit) => Below(l) /\ (k.deep > 0 => Len(k.locals) > 1)
      /\ AwaitingBelow(unit) =>
           AwaitingBelow(l) /\ (IF k.deep > 0 THEN Awaiting(k) ELSE Settled(k))
  BY <1>2, <1>5, LeftSound, LeftBelow
<1>. HIDE DEF l
<1>7. Steps(l, v, [k EXCEPT !.height = @ + 1])  BY <1>6, WriteConstantSound
<1>. HIDE DEF v
<1>8. PICK j : /\ Steps(l, w, j) /\ j.deep = k.deep
               /\ (IF k.deep > 0 THEN Awaiting(k) ELSE Settled(k)) => Settled(j)
  <2>1. k.deep > 0 => Len(k.locals) > 1  BY <1>6 DEF Parts
  <2>. QED  BY <1>4, <1>6, <1>7, <2>1, ValueDefined
<1>. HIDE DEF w
<1>9. UnitOK(w) /\ Current(w) = j  BY <1>6, <1>8, StepsCurrent DEF Steps
<1>10. (Below(l) => Below(w)) /\ (AwaitingBelow(l) => AwaitingBelow(w))
  BY <1>6, <1>8, StepsBelow
<1>11. FramesInStep(unit) => FramesInStep(w)
  BY <1>2, <1>6, <1>8, <1>9, <1>10, FramesSplit
<1>12. q \in Seq(OpenType)  BY <1>2, <1>3, OwnerClosed
<1>13. OpenInStep(w, q)
  <2>1. k.deep \in Nat  BY <1>6, CurrentTyped, DepthsTyped
  <2>2. j.deep >= k.deep  BY <1>8, <2>1
  <2>. QED  BY <1>5, <1>6, <1>8, <1>12, <2>2, OpenKept
<1>. QED  BY <1>1, <1>6, <1>9, <1>10, <1>11, <1>12, <1>13 DEF Parts

(* A use of a dangling chain changes nothing of the unit.                  *)
LEMMA UseDanglingParts == ASSUME Parts, UseDangling PROVE Parts'
BY DEF Parts, UseDangling

(* Nor does a step of none of the program's.                               *)
LEMMA StutterParts == ASSUME Parts, UNCHANGED vars PROVE Parts'
BY DEF Parts, vars

(* Every step keeps the invariant.                                         *)
LEMMA NextParts == Parts /\ [Next]_vars => Parts'
<1>. SUFFICES ASSUME Parts, [Next]_vars PROVE Parts'  OBVIOUS
<1>1. ASSUME NEW n \in Names, UseName(n) PROVE Parts'
  BY <1>1, UseNameEffect, QuietlyParts, FailingParts
<1>2. ASSUME NEW n \in Names, UseString(n) PROVE Parts'
  BY <1>2, UseStringEffect, QuietlyParts
<1>3. ASSUME NEW n \in Names, SetVariable(n) PROVE Parts'
  BY <1>3, SetVariableEffect, QuietlyParts, FailingParts
<1>4. ASSUME NEW n \in Names, BeginFunction(n) PROVE Parts'
  BY <1>4, BeginFunctionParts
<1>5. ASSUME NEW n \in Names, AddParameter(n) PROVE Parts'
  BY <1>5, AddParameterEffect, QuietlyParts, FailingParts
<1>6. CASE UseValue  BY <1>6, UseValueEffect, QuietlyParts
<1>7. CASE BeginScope  BY <1>7, BeginScopeParts
<1>8. CASE EndScope  BY <1>8, EndScopeParts
<1>9. CASE BeginBody  BY <1>9, BeginBodyParts
<1>10. CASE EndFunction  BY <1>10, EndFunctionParts
<1>11. CASE SyntaxError  BY <1>11, SyntaxErrorEffect, FailingParts
<1>12. CASE UseDangling  BY <1>12, UseDanglingParts
<1>13. CASE UNCHANGED vars  BY <1>13, StutterParts
<1>. QED
  BY <1>1, <1>2, <1>3, <1>4, <1>5, <1>6, <1>7, <1>8, <1>9, <1>10, <1>11, <1>12, <1>13
  DEF Next

(* The inductive invariant, for every set of names and every limit.        *)
THEOREM Invariance == Spec => []CInv
<1>1. Spec => []Parts  BY InitParts, NextParts, PTL DEF Spec
<1>. QED  BY <1>1, PartsOfCInv, PTL

-----------------------------------------------------------------------------
(* What the runs check. *)

(* The unit, its chain and its constants are what the code can keep; in    *)
(* particular no function has more locals than a byte can number, and slot *)
(* 0 is never dropped (compiler.c:100-115, parser.c:450-461).              *)
THEOREM TypeCorrect == Spec => []TypeOK
<1>1. CInv => TypeOK  BY DEF CInv
<1>. QED  BY <1>1, Invariance, PTL

(* What an instruction names by an index of the script's chunk is found    *)
(* there by the machine, on every later line (parser.c:130-174).           *)
THEOREM ScriptConstantsCorrect == Spec => []ScriptConstantsResolve
<1>1. CInv => ScriptConstantsResolve  BY DEF CInv
<1>. QED  BY <1>1, Invariance, PTL

(* A Compiler in step has a cell for every local that is ready.            *)
LEMMA CellsOfSettled ==
  ASSUME NEW k \in CompilerType, Settled(k) \/ Awaiting(k)
  PROVE  k.height = Cardinality(Ready(k.locals)) - k.sets
<1>. DEFINE m == Len(k.locals)
<1>1. k.locals \in Seq(LocalType) /\ m \in Nat /\ DOMAIN k.locals = 1 .. m
  BY DepthsTyped
<1>. HIDE DEF m
<1>2. CASE Settled(k)
  <2>1. \A i \in 1 .. m : k.locals[i].depth # -1
    BY <1>1, <1>2, DepthsTyped DEF Settled, Ordered, m
  <2>2. Ready(k.locals) = 1 .. m  BY <1>1, <2>1 DEF Ready
  <2>3. Cardinality(1 .. m) = m  BY <1>1, FS_Interval
  <2>. QED  BY <1>2, <2>2, <2>3 DEF Settled, m
<1>3. CASE Awaiting(k)
  <2>1. /\ m > 1 /\ k.locals[m].depth = -1 /\ k.height = m - 1 - k.sets
        /\ Ordered(k, m - 1)
    BY <1>3 DEF Awaiting, m
  <2>2. \A i \in 1 .. m - 1 : k.locals[i].depth # -1
    BY <1>1, <2>1, DepthsTyped DEF Ordered
  <2>3. \A i \in 1 .. m : i \in 1 .. m - 1 \/ i = m  BY <1>1
  <2>4. Ready(k.locals) = 1 .. m - 1  BY <1>1, <2>1, <2>2, <2>3 DEF Ready
  <2>5. Cardinality(1 .. m - 1) = m - 1  BY <1>1, <2>1, FS_Interval
  <2>. QED  BY <2>1, <2>4, <2>5
<1>. QED  BY <1>2, <1>3

(* Each ready local has its cell, but for one that every `set` takes       *)
(* (parser.c:419-461, 478-505).                                            *)
THEOREM CellsCorrect == Spec => []OneCellShortPerSet
<1>1. CInv => OneCellShortPerSet
  <2>. SUFFICES ASSUME CInv, ~failed, NEW c \in DOMAIN unit.chain
                PROVE  unit.chain[c].height =
                         Cardinality(Ready(unit.chain[c].locals)) - unit.chain[c].sets
    BY DEF OneCellShortPerSet
  <2>1. unit.chain[c] \in CompilerType  BY DEF CInv, TypeOK, UnitType
  <2>2. Settled(unit.chain[c]) \/ Awaiting(unit.chain[c])  BY DEF CInv, FramesInStep
  <2>. QED  BY <2>1, <2>2, CellsOfSettled
<1>. QED  BY <1>1, Invariance, PTL

(* resolve_local finds a local of the name if there is one, and the last.  *)
LEMMA ResolveLast ==
  ASSUME NEW u, UnitOK(u), NEW n, NEW j \in DOMAIN Locals(u), Locals(u)[j].name = n
  PROVE  LET i == ResolveLocal(u, n)
         IN  i \in DOMAIN Locals(u) /\ Locals(u)[i].name = n /\ j <= i
<1>. DEFINE found == {i \in DOMAIN Locals(u) : Locals(u)[i].name = n}
            Last(i) == \A p \in found : p <= i
<1>1. Locals(u) \in Seq(LocalType) /\ Len(Locals(u)) \in Nat
      /\ DOMAIN Locals(u) = 1 .. Len(Locals(u))
  <2>1. Locals(u) \in Seq(LocalType)  BY CurrentTyped
  <2>. HIDE DEF found
  <2>. QED  BY <2>1
<1>2. j \in found /\ found \in SUBSET (0 .. Len(Locals(u)))  BY <1>1
<1>3. \E i \in found : Last(i)
  <2>. HIDE DEF found
  <2>. QED  BY <1>1, <1>2, GreatestOf
<1>4. ResolveLocal(u, n) = CHOOSE i \in found : Last(i)
  BY <1>2 DEF ResolveLocal
<1>5. ResolveLocal(u, n) \in found /\ Last(ResolveLocal(u, n))
  <2>. HIDE DEF found, Last
  <2>. QED  BY <1>3, <1>4
<1>. QED  BY <1>2, <1>5

(* The name of a local is that of the innermost declaration, if an error   *)
(* has left no declaration unfinished (parser.c:194-216, 682-700).         *)
THEOREM InnermostCorrect == Spec => []InnermostFound
<1>1. Parts => InnermostFound
  <2>. SUFFICES ASSUME Parts, ~failed, NEW n \in Names,
                       NEW j \in DOMAIN Locals(unit),
                       ResolveLocal(unit, n) # j, Locals(unit)[j].name = n
                PROVE  Locals(unit)[j].depth < Locals(unit)[ResolveLocal(unit, n)].depth
    BY DEF InnermostFound
  <2>. DEFINE i == ResolveLocal(unit, n)
              s == Current(unit).locals
  <2>1. UnitOK(unit) /\ FramesInStep(unit) /\ Locals(unit) = s
    BY DEF Parts, Locals
  <2>2. Settled(Current(unit))  BY <2>1, FramesSplit
  <2>3. i \in DOMAIN s /\ s[i].name = n /\ j <= i /\ j \in DOMAIN s /\ s[j].name = n
    BY <2>1, ResolveLast
  <2>4. DOMAIN s = 1 .. Len(s) /\ Len(s) \in Nat
    <3>1. s \in Seq(LocalType)  BY <2>1, CurrentTyped
    <3>. HIDE DEF s
    <3>. QED  BY <3>1
  <2>. HIDE DEF i
  <2>5. i \in 1 .. Len(s) /\ j \in 1 .. Len(s) /\ j < i
    <3>1. i # j  BY DEF i
    <3>. HIDE DEF s
    <3>. QED  BY <2>3, <2>4, <3>1
  <2>6. s[j].depth < s[i].depth  BY <2>2, <2>3, <2>5 DEF Settled, Ordered
  <2>. QED  BY <2>1, <2>6 DEF i
<1>. QED  BY <1>1, PartsOfCInv, Invariance, PTL

-----------------------------------------------------------------------------
(* Scopes that an error has left open. *)

Scopes(o) == {i \in DOMAIN o : \A j \in 1 .. i : o[j].kind = "scope"}

(* The script's open scopes are finitely many.                             *)
LEMMA ScopesTyped ==
  ASSUME NEW o \in Seq(OpenType)
  PROVE  IsFiniteSet(Scopes(o)) /\ Cardinality(Scopes(o)) \in Nat
<1>1. DOMAIN o = 1 .. Len(o) /\ IsFiniteSet(1 .. Len(o))  BY FS_Interval
<1>2. Scopes(o) \in SUBSET (1 .. Len(o))  BY <1>1 DEF Scopes
<1>. QED  BY <1>1, <1>2, FS_Subset, FS_CardinalityType

(* A construct more is a scope of the script's more if all are scopes.     *)
LEMMA ScopesAppended ==
  ASSUME NEW o \in Seq(OpenType), NEW e \in OpenType
  PROVE  Cardinality(Scopes(Append(o, e))) =
           Cardinality(Scopes(o)) +
             (IF e.kind = "scope" /\ \A j \in 1 .. Len(o) : o[j].kind = "scope"
              THEN 1 ELSE 0)
<1>. DEFINE q == Append(o, e)
            n == Len(o)
            All == e.kind = "scope" /\ \A j \in 1 .. n : o[j].kind = "scope"
<1>1. /\ q \in Seq(OpenType) /\ n \in Nat /\ DOMAIN o = 1 .. n /\ DOMAIN q = 1 .. n + 1
      /\ \A j \in 1 .. n : q[j] = o[j]
      /\ q[n + 1] = e
  OBVIOUS
<1>. HIDE DEF q, n
<1>2. n + 1 \notin Scopes(o)  BY <1>1 DEF Scopes
<1>3. \A i \in 1 .. n : i \in Scopes(q) <=> i \in Scopes(o)
  <2>. SUFFICES ASSUME NEW i \in 1 .. n PROVE i \in Scopes(q) <=> i \in Scopes(o)  OBVIOUS
  <2>1. i \in DOMAIN q /\ i \in DOMAIN o  BY <1>1
  <2>2. \A j \in 1 .. i : q[j] = o[j]  BY <1>1
  <2>. QED  BY <2>1, <2>2 DEF Scopes
<1>4. n + 1 \in Scopes(q) <=> All
  <2>1. n + 1 \in DOMAIN q  BY <1>1
  <2>2. (\A j \in 1 .. n + 1 : q[j].kind = "scope") <=> All
    <3>1. \A j \in 1 .. n + 1 : j \in 1 .. n \/ j = n + 1  BY <1>1
    <3>2. n + 1 \in 1 .. n + 1 /\ \A j \in 1 .. n : j \in 1 .. n + 1  BY <1>1
    <3>. QED  BY <1>1, <3>1, <3>2
  <2>. QED  BY <2>1, <2>2 DEF Scopes
<1>5. Scopes(q) \subseteq 1 .. n + 1 /\ Scopes(o) \subseteq 1 .. n  BY <1>1 DEF Scopes
<1>6. \A i \in 1 .. n + 1 : i \in 1 .. n \/ i = n + 1  BY <1>1
<1>7. Scopes(q) = IF All THEN Scopes(o) \cup {n + 1} ELSE Scopes(o)
  <2>. HIDE DEF All
  <2>1. CASE All  BY <1>3, <1>4, <1>5, <1>6, <2>1
  <2>2. CASE ~All
    <3>1. \A x \in Scopes(q) : x \in Scopes(o)  BY <1>3, <1>4, <1>5, <1>6, <2>2
    <3>2. \A x \in Scopes(o) : x \in Scopes(q)  BY <1>3, <1>5
    <3>. QED  BY <3>1, <3>2, <2>2
  <2>. QED  BY <2>1, <2>2
<1>8. Cardinality(Scopes(o) \cup {n + 1}) = Cardinality(Scopes(o)) + 1
  BY <1>2, ScopesTyped, FS_AddElement
<1>9. Cardinality(Scopes(o)) + 0 = Cardinality(Scopes(o))  BY ScopesTyped
<1>. HIDE DEF All
<1>10. Cardinality(Scopes(q)) = Cardinality(Scopes(o)) + (IF All THEN 1 ELSE 0)
  BY <1>7, <1>8, <1>9
<1>. QED  BY <1>10 DEF All, q, n

(* The last construct ends.                                                *)
LEMMA ScopesClosed ==
  ASSUME NEW o \in Seq(OpenType), o # <<>>
  PROVE  Cardinality(Scopes(o)) =
           Cardinality(Scopes(SubSeq(o, 1, Len(o) - 1))) +
             (IF \A j \in 1 .. Len(o) : o[j].kind = "scope" THEN 1 ELSE 0)
<1>. DEFINE n == Len(o) - 1
            q == SubSeq(o, 1, Len(o) - 1)
            e == o[Len(o)]
            r == Append(q, e)
<1>1. /\ q \in Seq(OpenType) /\ Len(q) = n /\ n \in Nat /\ Len(o) = n + 1
      /\ \A j \in 1 .. n : q[j] = o[j]
  BY OwnerClosed
<1>2. e \in OpenType  OBVIOUS
<1>. HIDE DEF q, e
<1>3. /\ r \in Seq(OpenType) /\ Len(r) = n + 1
      /\ \A j \in 1 .. n : r[j] = q[j]
      /\ r[n + 1] = e
  <2>. HIDE DEF n
  <2>. QED  BY <1>1, <1>2
<1>4. r = o
  <2>1. \A j \in 1 .. n + 1 : r[j] = o[j]
    <3>1. \A j \in 1 .. n + 1 : j \in 1 .. n \/ j = n + 1  BY <1>1
    <3>. HIDE DEF r, n
    <3>. QED  BY <1>1, <1>3, <3>1 DEF e
  <2>. HIDE DEF r, n
  <2>. QED  BY <1>1, <1>3, <2>1, SeqEqual
<1>5. Cardinality(Scopes(r)) = Cardinality(Scopes(q)) +
        (IF e.kind = "scope" /\ \A j \in 1 .. Len(q) : q[j].kind = "scope"
         THEN 1 ELSE 0)
  BY <1>1, <1>2, ScopesAppended
<1>6. (e.kind = "scope" /\ \A j \in 1 .. Len(q) : q[j].kind = "scope")
        <=> \A j \in 1 .. Len(o) : o[j].kind = "scope"
  <2>. HIDE DEF n, r
  <2>1. \A j \in 1 .. n + 1 : j \in 1 .. n \/ j = n + 1  BY <1>1
  <2>2. n + 1 \in 1 .. n + 1 /\ \A j \in 1 .. n : j \in 1 .. n + 1  BY <1>1
  <2>3. o[n + 1] = e  BY <1>1 DEF e
  <2>. QED  BY <1>1, <2>1, <2>2, <2>3
<1>. HIDE DEF r
<1>. QED  BY <1>4, <1>5, <1>6 DEF q

(* No function is open exactly where the innermost Compiler is the         *)
(* script's.                                                               *)
LEMMA AllScopesInScript ==
  ASSUME NEW u, UnitOK(u), NEW o \in Seq(OpenType), OpenInStep(u, o),
         ~(Top(u) > 1 /\ o = <<>>)
  PROVE  (\A j \in 1 .. Len(o) : o[j].kind = "scope") <=> Top(u) = 1
<1>1. Owner(o, Len(o)) = Top(u) /\ Len(o) \in Nat  BY OwnerIsTop
<1>2. ASSUME Top(u) = 1 PROVE \A j \in 1 .. Len(o) : o[j].kind = "scope"
  <2>1. Owner(o, 0) = Owner(o, Len(o))  BY <1>1, <1>2, OwnerNone
  <2>2. \A j \in 0 + 1 .. Len(o) : o[j].kind = "scope"
    BY <1>1, <2>1, OwnerMonotone
  <2>. QED  BY <2>2
<1>3. ASSUME \A j \in 1 .. Len(o) : o[j].kind = "scope" PROVE Top(u) = 1
  <2>1. Functions(o, Len(o)) = {}  BY <1>3 DEF Functions
  <2>. QED  BY <1>1, <2>1, FS_EmptySet DEF Owner
<1>. QED  BY <1>2, <1>3

(* The script's depth is a number.                                         *)
LEMMA ScriptDeepTyped ==
  ASSUME NEW u, UnitOK(u)
  PROVE  u.chain[1].deep \in Nat /\ 1 \in DOMAIN u.chain
<1>1. u.chain \in Seq(CompilerType) /\ u.chain # <<>>  BY CurrentTyped DEF UnitOK
<1>2. 1 \in DOMAIN u.chain /\ u.chain[1] \in CompilerType  BY <1>1
<1>. QED  BY <1>2 DEF CompilerType

(* What an error leaves open counts: no step makes the script's depth      *)
(* beside its open scopes less.                                            *)
Abandoned(u, o) == u.chain[1].deep - Cardinality(Scopes(o))

(* A step of the innermost Compiler changes the script's depth only if it  *)
(* is the script's own.                                                    *)
LEMMA StepAbandoned ==
  ASSUME NEW u, NEW w, NEW k, UnitOK(u), Steps(u, w, k)
  PROVE  w.chain[1].deep = IF Top(u) = 1 THEN k.deep ELSE u.chain[1].deep
<1>1. 1 \in DOMAIN u.chain  BY ScriptDeepTyped
<1>. QED  BY <1>1, StepsCurrent

(* No step closes a scope that an error has left open.                     *)
LEMMA NextAbandoned ==
  ASSUME Parts, [Next]_vars
  PROVE  Abandoned(unit', open') >= Abandoned(unit, open)
<1>0. /\ UnitOK(unit) /\ open \in Seq(OpenType) /\ OpenInStep(unit, open)
      /\ unit.chain[1].deep \in Nat /\ Cardinality(Scopes(open)) \in Nat
  BY ScriptDeepTyped, ScopesTyped DEF Parts
<1>. DEFINE Goal == Abandoned(unit', open') >= Abandoned(unit, open)
<1>1. ASSUME Quietly PROVE Goal
  <2>1. unit'.chain[1].deep = unit.chain[1].deep
    BY <1>0, <1>1, FollowsSound, StaysSound DEF Quietly
  <2>. QED  BY <1>0, <1>1, <2>1 DEF Abandoned, Quietly
<1>2. ASSUME Failing PROVE Goal
  <2>1. unit'.chain[1].deep = unit.chain[1].deep
    BY <1>0, <1>2, StaysSound DEF Failing
  <2>2. Scopes(open') = {}  BY <1>2 DEF Failing, Scopes
  <2>3. Cardinality(Scopes(open')) = 0  BY <2>2, FS_EmptySet
  <2>. QED  BY <1>0, <2>1, <2>3 DEF Abandoned
<1>3. ASSUME UNCHANGED <<unit, open>> PROVE Goal
  BY <1>0, <1>3 DEF Abandoned
<1>4. ASSUME BeginScope PROVE Goal
  <2>. DEFINE w == [unit EXCEPT !.chain[Top(unit)].deep = @ + 1]
              e == [kind |-> "scope", name |-> NoName]
  <2>1. unit' = w /\ open' = Append(open, e) /\ ~(Top(unit) > 1 /\ open = <<>>)
    BY <1>4 DEF BeginScope, Parse, Opened, Dangling
  <2>2. Steps(unit, w, Current(w)) /\ Current(w).deep = Current(unit).deep + 1
    BY <1>0, DeepenedFrames
  <2>. HIDE DEF w
  <2>3. e \in OpenType /\ e.kind = "scope"  BY DEF OpenType
  <2>. HIDE DEF e
  <2>4. Cardinality(Scopes(open')) =
          Cardinality(Scopes(open)) + (IF Top(unit) = 1 THEN 1 ELSE 0)
    BY <1>0, <2>1, <2>3, ScopesAppended, AllScopesInScript
  <2>5. w.chain[1].deep = unit.chain[1].deep + (IF Top(unit) = 1 THEN 1 ELSE 0)
    BY <1>0, <2>2, StepAbandoned DEF Current
  <2>. QED  BY <1>0, <2>1, <2>4, <2>5 DEF Abandoned
<1>5. ASSUME EndScope PROVE Goal
  <2>. DEFINE w == ScopeEnded(unit)
              q == SubSeq(open, 1, Len(open) - 1)
              c == Current(unit)
  <2>1. unit' = w /\ open' = q /\ Innermost("scope")
    BY <1>5 DEF EndScope, Closed
  <2>2. open # <<>> /\ open[Len(open)].kind = "scope"  BY <2>1 DEF Innermost
  <2>3. c.deep > 0  BY <1>0, <2>2, ScopeIsDeep
  <2>4. PICK m \in 1 .. Len(Locals(unit)) : Steps(unit, w, ScopeEndedCompiler(c, m))
    BY <1>0, <2>3, ScopeEndedSound
  <2>. DEFINE k == ScopeEndedCompiler(c, m)
  <2>5. k.deep = c.deep - 1
    <3>. DEFINE s == SubSeq(c.locals, 1, m)
                h == c.height - (Len(c.locals) - m)
    <3>1. k = [c EXCEPT !.deep = c.deep - 1, !.locals = s, !.height = h]
      BY Zenon DEF ScopeEndedCompiler
    <3>2. c \in CompilerType  BY <1>0, CurrentTyped
    <3>. HIDE DEF k, s, h, c
    <3>. QED  BY <3>1, <3>2 DEF CompilerType
  <2>. HIDE DEF k, w, q
  <2>6. w.chain[1].deep = unit.chain[1].deep - (IF Top(unit) = 1 THEN 1 ELSE 0)
    BY <1>0, <2>4, <2>5, StepAbandoned DEF k, Current
  <2>7. Cardinality(Scopes(open)) =
          Cardinality(Scopes(q)) + (IF Top(unit) = 1 THEN 1 ELSE 0)
    BY <1>0, <2>2, ScopesClosed, AllScopesInScript DEF q
  <2>8. Cardinality(Scopes(q)) \in Nat
    BY <1>0, <2>2, OwnerClosed, ScopesTyped DEF q
  <2>. QED  BY <1>0, <2>1, <2>6, <2>7, <2>8 DEF Abandoned
<1>6. ASSUME NEW n \in Names, BeginFunction(n) PROVE Goal
  <2>. DEFINE d == Declared(unit, n)
              w == Entered(d)
              e == [kind |-> "head", name |-> n]
  <2>1. CASE Failing  BY <1>2, <2>1
  <2>2. CASE ~Refused(unit, n) /\ unit' = w /\ open' = Append(open, e)
    <3>1. UnitOK(d) /\ Stays(unit, d)
      BY <1>0, <2>2, DeclaredAwaits DEF Stays
    <3>2. d.chain[1].deep = unit.chain[1].deep  BY <1>0, <3>1, StaysSound
    <3>3. w.chain[1].deep = d.chain[1].deep
      BY <3>1, EnteredSound, ScriptDeepTyped
    <3>4. e \in OpenType /\ e.kind # "scope"  BY DEF OpenType
    <3>. HIDE DEF d, w, e
    <3>5. Cardinality(Scopes(open')) = Cardinality(Scopes(open)) + 0
      BY <1>0, <2>2, <3>4, ScopesAppended
    <3>. QED  BY <1>0, <2>2, <3>2, <3>3, <3>5 DEF Abandoned
  <2>. QED  BY <1>6, <2>1, <2>2, BeginFunctionEffect
<1>7. ASSUME BeginBody PROVE Goal
  <2>. DEFINE w == [unit EXCEPT !.chain[Top(unit)].deep = @ + 1]
              e == [open[Len(open)] EXCEPT !.kind = "body"]
              q == SubSeq(open, 1, Len(open) - 1)
  <2>1. unit' = w /\ open' = Append(q, e) /\ Innermost("head")
    BY <1>7 DEF BeginBody, Closed
  <2>2. Steps(unit, w, Current(w)) /\ Current(w).deep = Current(unit).deep + 1
    BY <1>0, DeepenedFrames
  <2>. HIDE DEF w
  <2>3. /\ open # <<>> /\ open[Len(open)] \in OpenType /\ open[Len(open)].kind = "head"
        /\ Len(open) \in 1 .. Len(open)
    BY <1>0, <2>1, InnermostTyped
  <2>4. e \in OpenType /\ e.kind # "scope"  BY <2>3 DEF OpenType
  <2>5. q \in Seq(OpenType)  BY <1>0, <2>3, OwnerClosed
  <2>. HIDE DEF e, q
  <2>6. Top(unit) # 1  BY <1>0, <2>3, AllScopesInScript
  <2>7. w.chain[1].deep = unit.chain[1].deep  BY <1>0, <2>2, <2>6, StepAbandoned
  <2>8. Cardinality(Scopes(open')) = Cardinality(Scopes(q)) + 0
    BY <2>1, <2>4, <2>5, ScopesAppended
  <2>9. Cardinality(Scopes(open)) = Cardinality(Scopes(q)) + 0
    BY <1>0, <2>3, ScopesClosed DEF q
  <2>. QED  BY <1>0, <2>1, <2>7, <2>8, <2>9 DEF Abandoned
<1>8. ASSUME EndFunction PROVE Goal
  <2>. DEFINE l == [unit EXCEPT !.chain = SubSeq(@, 1, Len(@) - 1)]
              n == open[Len(open)].name
              w == Defined(WriteConstant(l), n)
              q == SubSeq(open, 1, Len(open) - 1)
              k == Current(l)
  <2>1. unit' = w /\ open' = q /\ Innermost("body")
    BY <1>8 DEF EndFunction, Closed
  <2>2. /\ open # <<>> /\ open[Len(open)] \in OpenType /\ open[Len(open)].kind = "body"
        /\ Len(open) \in 1 .. Len(open)
    BY <1>0, <2>1, InnermostTyped
  <2>3. n \in Names  BY <2>2 DEF OpenType
  <2>. HIDE DEF n
  <2>4. Top(unit) > 1  BY <1>0, <2>2, CloseFunction
  <2>5. /\ UnitOK(l) /\ l.chain[1].deep = unit.chain[1].deep
    BY <1>0, <2>4, LeftSound, ScriptDeepTyped
  <2>6. k.deep > 0 => Len(k.locals) > 1
    BY <1>0, <2>4, LeftBelow DEF Parts
  <2>. HIDE DEF l
  <2>7. \E j : Steps(l, w, j) /\ j.deep = k.deep
    BY <2>3, <2>5, <2>6, WriteConstantSound, ValueDefined
  <2>. HIDE DEF w
  <2>8. w.chain[1].deep = l.chain[1].deep
    BY <2>5, <2>7, StaysSound DEF Stays
  <2>9. Cardinality(Scopes(open)) = Cardinality(Scopes(q)) + 0
    BY <1>0, <2>2, ScopesClosed
  <2>10. Cardinality(Scopes(q)) \in Nat  BY <1>0, <2>2, OwnerClosed, ScopesTyped
  <2>. HIDE DEF q
  <2>. QED  BY <1>0, <2>1, <2>5, <2>8, <2>9, <2>10 DEF Abandoned
<1>9. ASSUME NEW n \in Names,
             UseName(n) \/ UseString(n) \/ SetVariable(n) \/ AddParameter(n)
      PROVE  Quietly \/ Failing
  BY <1>9, UseNameEffect, UseStringEffect, SetVariableEffect, AddParameterEffect
<1>10. UseValue \/ SyntaxError => Quietly \/ Failing
  BY UseValueEffect, SyntaxErrorEffect
<1>11. UseDangling \/ UNCHANGED vars => UNCHANGED <<unit, open>>
  BY DEF UseDangling, vars
<1>. HIDE DEF Goal
<1>12. Goal
  BY <1>1, <1>2, <1>3, <1>4, <1>5, <1>6, <1>7, <1>8, <1>9, <1>10, <1>11 DEF Next
<1>. QED  BY <1>12 DEF Goal

(* A scope that a syntax error has left open stays open for the rest of    *)
(* the session (parser.c:448-476, main.c:125-176).                         *)
THEOREM ScopesCorrect == Spec => ScopesNeverRecover
<1>1. Parts /\ [Next]_vars => [AbandonedDepth' >= AbandonedDepth]_vars
  <2>. SUFFICES ASSUME Parts, [Next]_vars PROVE AbandonedDepth' >= AbandonedDepth  OBVIOUS
  <2>1. Abandoned(unit', open') >= Abandoned(unit, open)  BY NextAbandoned
  <2>2. AbandonedDepth = Abandoned(unit, open)
    BY DEF AbandonedDepth, ScriptScopes, Abandoned, Scopes
  <2>3. AbandonedDepth' = Abandoned(unit', open')
    BY DEF AbandonedDepth, ScriptScopes, Abandoned, Scopes
  <2>. QED  BY <2>1, <2>2, <2>3
<1>2. Spec => []Parts  BY InitParts, NextParts, PTL DEF Spec
<1>. QED  BY <1>1, <1>2, PTL DEF Spec, ScopesNeverRecover

=============================================================================
