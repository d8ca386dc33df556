---------------------------- MODULE MemoryProofs ----------------------------
(***************************************************************************)
(* The memory of requests, for any number of requests, chunks, slabs,      *)
(* compressing threads and blocks, and any sizes. Buffers that the slab    *)
(* allocator lends never overlap and slabs are never lost, and so the      *)
(* allocator is the heap of module Heap. The compressor, which writes into *)
(* such a buffer from many threads, has none of them left when it returns, *)
(* and what it returns uncompresses to the blocks in their order.          *)
(***************************************************************************)
EXTENDS ByteSlabs, Compressor, DataProofs

-----------------------------------------------------------------------------
(* The inductive invariant                                                 *)

MemoryTypeOK ==
  /\ used \in [Chunks -> SUBSET Slabs]
  /\ used_slab_count \in [Chunks -> Nat]
  /\ mem_chunk \in [Allocators -> Chunks \cup {None}]
  /\ slabs \in [Allocators -> SUBSET Slabs]
  /\ free_space \in [Allocators -> [Slabs -> 0 .. SlabSize]]
  /\ live \subseteq [owner : Owners, num : Nat, size : Nat,
                     cells : SUBSET Cells]

ControlTypeOK ==
  /\ mu \in [Chunks -> Owners \cup {None}]
  /\ curr_mem_chunk \in Chunks
  /\ pc \in [Owners -> {"idle", "scan", "routed", "release"}]
  /\ asked \in [Owners -> Nat]
  /\ scan \in [Owners -> [num : 0 .. ChunkCount, best : Chunks \cup {None},
                          free : Int]]

(* What is not there holds no slabs.                                       *)
NothingLent == \A a \in Allocators : mem_chunk[a] = None => slabs[a] = {}

(* Every cell lent is in a slab its owner holds, before the free end.      *)
Backs(a, x) ==
  /\ mem_chunk[a] = x[1]
  /\ x[2] \in slabs[a]
  /\ x[3] < SlabSize - free_space[a][x[2]]

Backed ==
  \A b \in live : \A x \in b.cells :
    \E a \in Allocators : a[1] = b.owner /\ Backs(a, x)

OneChunk == \A b \in live : \A x, y \in b.cells : x[1] = y[1]

MemoryInv ==
  /\ MemoryTypeOK /\ IsFiniteSet(live)
  /\ SlabsAccounted /\ NothingLent
  /\ Backed /\ OneChunk /\ NoOverlap

(* Which allocators there are while an owner is where it is.               *)
ControlInv ==
  /\ ControlTypeOK
  /\ \A o \in Owners :
       /\ pc[o] \in {"scan", "routed"} => asked[o] \in Sizes
       /\ pc[o] = "scan" => mem_chunk[Addl(o)] = None
       /\ pc[o] \in {"routed", "release"} => mem_chunk[Addl(o)] # None
       /\ pc[o] = "release" => mem_chunk[Own(o)] = None

IInv == MemoryInv /\ ControlInv

-----------------------------------------------------------------------------
(* Arithmetic of sizes                                                     *)

(* A buffer takes at least a slab and leaves less than one free.           *)
LEMMA SlabArithmetic ==
  ASSUME NEW size \in Sizes
  PROVE  SlabFree(size) \in Offsets /\ SlabsNeeded(size) \in Nat \ {0}
  <1> DEFINE q == size \div SlabSize
             r == size % SlabSize
  <1>1. size \in Nat \ {0} /\ SlabSize \in Nat \ {0}
    BY SlabAssumption
  <1>2. q \in Nat /\ r \in Offsets /\ size = SlabSize * q + r
    BY <1>1 DEF Offsets
  <1>3. SlabFree(size) \in Offsets
    BY <1>1, <1>2 DEF SlabFree, Offsets
  <1>4. q = 0 => SlabFree(size) > 0
    <2> SUFFICES ASSUME q = 0 PROVE SlabFree(size) > 0
      OBVIOUS
    <2>1. r = size
      BY <1>1, <1>2
    <2>2. SlabSize - r \in 1 .. SlabSize - 1
      BY <1>1, <1>2, <2>1 DEF Offsets
    <2> HIDE DEF r
    <2>3. (SlabSize - r) % SlabSize = SlabSize - r
      BY <1>1, <2>2
    <2> QED
      BY <2>2, <2>3 DEF SlabFree, r
  <1>5. SlabsNeeded(size) = q + (IF SlabFree(size) > 0 THEN 1 ELSE 0)
    BY DEF SlabsNeeded
  <1> HIDE DEF q
  <1> QED
    BY <1>2, <1>3, <1>4, <1>5

(* Chunks have finitely many slabs, so those used can be counted.          *)
LEMMA SlabsFinite ==
  ASSUME NEW S \in SUBSET Slabs
  PROVE  IsFiniteSet(S) /\ Cardinality(S) \in Nat
  <1>1. IsFiniteSet(Slabs)
    BY SlabAssumption, FS_Interval DEF Slabs
  <1> QED
    BY <1>1, FS_Subset, FS_CardinalityType

-----------------------------------------------------------------------------
(* Lending                                                                 *)

(* A buffer of cells nobody holds can be added to those lent.              *)
LEMMA BufferAdded ==
  ASSUME MemoryInv, NEW a \in Allocators, NEW size \in Nat,
         NEW cells \in SUBSET Cells,
         \A x, y \in cells : x[1] = y[1],
         \A b \in live : b.cells \cap cells = {},
         Lend(a, size, cells)
  PROVE  /\ live' \subseteq [owner : Owners, num : Nat, size : Nat,
                             cells : SUBSET Cells]
         /\ IsFiniteSet(live') /\ OneChunk' /\ NoOverlap'
         /\ \A b \in live' : b \in live \/ (b.owner = a[1] /\ b.cells = cells)
         /\ Memory!Allocate
  <1> DEFINE n == Cardinality(Held(a[1])) + 1
             new == [owner |-> a[1], num |-> n, size |-> size, cells |-> cells]
  <1>1. n \in Nat
    <2>1. Held(a[1]) \subseteq live
      BY DEF Held
    <2> QED
      BY <2>1, FS_Subset, FS_CardinalityType DEF MemoryInv
  <1>2. live' = live \cup {new} /\ a[1] \in Owners
    BY DEF Lend, Allocators
  <1> HIDE DEF n
  <1>3. new.owner = a[1] /\ new.cells = cells
    OBVIOUS
  <1>4. new \in [owner : Owners, num : Nat, size : Nat, cells : SUBSET Cells]
    BY <1>1, <1>2
  <1> HIDE DEF new
  <1>5. live' \subseteq [owner : Owners, num : Nat, size : Nat,
                         cells : SUBSET Cells]
    BY <1>2, <1>4 DEF MemoryInv, MemoryTypeOK
  <1>6. IsFiniteSet(live')
    BY <1>2, FS_AddElement DEF MemoryInv
  <1>7. OneChunk'
    BY <1>2, <1>3 DEF MemoryInv, OneChunk
  <1>8. NoOverlap'
    BY <1>2, <1>3 DEF MemoryInv, NoOverlap
  <1>9. Memory!Allocate
    BY <1>2, <1>3 DEF Memory!Allocate
  <1> QED
    BY <1>2, <1>3, <1>5, <1>6, <1>7, <1>8, <1>9

(* The free end of a slab is nobody's, and what is put there is backed.    *)
LEMMA TailTaken ==
  ASSUME MemoryInv, NEW a \in Allocators, mem_chunk[a] # None,
         NEW size \in Sizes, TakeTail(a, size), mem_chunk' = mem_chunk
  PROVE  MemoryInv' /\ Memory!Allocate
  <1> USE DEF MemoryInv
  <1>1. PICK s \in Tails(a, size) :
          /\ free_space' = [free_space EXCEPT ![a][s] = @ - size]
          /\ Lend(a, size, {mem_chunk[a]} \X {s}
                     \X ((SlabSize - free_space[a][s])
                         .. (SlabSize - free_space[a][s]) + size - 1))
          /\ UNCHANGED <<used, used_slab_count, slabs>>
    BY DEF TakeTail
  <1> DEFINE c == mem_chunk[a]
             from == SlabSize - free_space[a][s]
             cells == {c} \X {s} \X (from .. from + size - 1)
  <1>2. /\ s \in slabs[a] /\ free_space[a][s] >= size
        /\ s \in Slabs /\ c \in Chunks
        /\ free_space[a][s] \in 0 .. SlabSize
        /\ size \in Nat \ {0} /\ SlabSize \in Nat \ {0}
    BY <1>1, SlabAssumption DEF Tails, MemoryTypeOK
  <1>3. \A x \in cells : /\ x[1] = c /\ x[2] = s
                         /\ x[3] \in Offsets
                         /\ x[3] >= from /\ x[3] < from + size
    BY <1>2 DEF Offsets
  <1>4. cells \in SUBSET Cells
    BY <1>2, <1>3 DEF Cells
  <1>5. \A b \in live : b.cells \cap cells = {}
    <2> SUFFICES ASSUME NEW b \in live, NEW x \in b.cells, x \in cells
                 PROVE  FALSE
      OBVIOUS
    <2>1. PICK d \in Allocators : d[1] = b.owner /\ Backs(d, x)
      BY DEF Backed
    <2>2. d = a
      BY <1>2, <1>3, <2>1 DEF Backs, SlabsAccounted
    <2> QED
      BY <1>2, <1>3, <2>1, <2>2 DEF Backs, Offsets
  <1>6. \A x, y \in cells : x[1] = y[1]
    BY <1>3
  <1>7. size \in Nat /\ Lend(a, size, cells)
    BY <1>1, <1>2
  <1>8. /\ live' \subseteq [owner : Owners, num : Nat, size : Nat,
                            cells : SUBSET Cells]
        /\ IsFiniteSet(live') /\ OneChunk' /\ NoOverlap'
        /\ \A b \in live' : b \in live \/ (b.owner = a[1] /\ b.cells = cells)
        /\ Memory!Allocate
    <2> HIDE DEF cells, MemoryInv
    <2> QED
      BY <1>4, <1>5, <1>6, <1>7, BufferAdded
  <1>9. /\ free_space' \in [Allocators -> [Slabs -> 0 .. SlabSize]]
        /\ free_space'[a][s] = free_space[a][s] - size
        /\ \A d \in Allocators, t \in Slabs :
             d # a \/ t # s => free_space'[d][t] = free_space[d][t]
    BY <1>1, <1>2 DEF MemoryTypeOK
  <1>10. MemoryTypeOK'
    BY <1>1, <1>8, <1>9 DEF MemoryTypeOK
  <1>11. SlabsAccounted' /\ NothingLent'
    BY <1>1 DEF SlabsAccounted, NothingLent
  <1>12. Backed'
    <2> SUFFICES ASSUME NEW b \in live', NEW x \in b.cells
                 PROVE  \E d \in Allocators : d[1] = b.owner /\ Backs(d, x)'
      BY DEF Backed
    <2>1. CASE b \in live
      <3>1. PICK d \in Allocators : d[1] = b.owner /\ Backs(d, x)
        BY <2>1 DEF Backed
      <3>2. x \in Cells /\ x[2] \in Slabs /\ x[3] \in Offsets
        BY <2>1 DEF MemoryTypeOK, Cells
      <3>3. free_space[d][x[2]] \in 0 .. SlabSize
        BY <3>2 DEF MemoryTypeOK
      <3>4. free_space'[d][x[2]] <= free_space[d][x[2]]
        <4>1. CASE d = a /\ x[2] = s
          BY <1>2, <1>9, <4>1
        <4>2. CASE d # a \/ x[2] # s
          BY <1>9, <3>2, <3>3, <4>2
        <4> QED
          BY <4>1, <4>2
      <3>5. free_space'[d][x[2]] \in 0 .. SlabSize
        BY <1>9, <3>2
      <3>6. x[3] < SlabSize - free_space'[d][x[2]]
        BY <1>2, <3>1, <3>2, <3>3, <3>4, <3>5 DEF Backs, Offsets
      <3> QED
        BY <1>1, <3>1, <3>6 DEF Backs
    <2>2. CASE b.owner = a[1] /\ b.cells = cells
      <3>1. x[1] = c /\ x[2] = s /\ x[3] \in Offsets /\ x[3] < from + size
        BY <1>3, <2>2
      <3>2. x[3] < SlabSize - free_space'[a][s]
        BY <1>2, <1>9, <3>1 DEF Offsets
      <3> QED
        BY <1>1, <1>2, <2>2, <3>1, <3>2 DEF Backs
    <2> QED
      BY <1>8, <2>1, <2>2
  <1> QED
    BY <1>8, <1>10, <1>11, <1>12

(* Slabs nobody uses can be taken, and their bytes are nobody's.           *)
LEMMA SlabsTaken ==
  ASSUME MemoryInv, NEW a \in Allocators, mem_chunk[a] # None,
         NEW size \in Sizes, TakeSlabs(a, size), mem_chunk' = mem_chunk
  PROVE  MemoryInv' /\ Memory!Allocate
  <1> USE DEF MemoryInv
  <1> DEFINE c == mem_chunk[a]
             need == SlabsNeeded(size)
             rest == SlabFree(size)
  <1>1. PICK first \in Places(c, size) :
          /\ used' = [used EXCEPT ![c] = @ \cup (first .. first + need - 1)]
          /\ used_slab_count' = [used_slab_count EXCEPT ![c] = @ + need]
          /\ slabs' = [slabs EXCEPT ![a] = @ \cup (first .. first + need - 1)]
          /\ free_space' = [free_space EXCEPT ![a] =
               [s \in Slabs |-> IF s = first + need - 1 THEN rest
                                ELSE IF s \in first .. first + need - 1 THEN 0
                                ELSE free_space[a][s]]]
          /\ Lend(a, size, CellsOf(c, first, first + need - 1, rest))
    BY DEF TakeSlabs
  <1>2. rest \in Offsets /\ need \in Nat \ {0}
    BY SlabArithmetic
  <1> HIDE DEF need, rest
  <1> DEFINE last == first + need - 1
             taken == first .. last
             cells == CellsOf(c, first, last, rest)
  <1>3. /\ c \in Chunks /\ first \in Slabs /\ last \in Slabs
        /\ taken \subseteq Slabs /\ taken \cap used[c] = {} /\ last \in taken
        /\ SlabSize \in Nat \ {0} /\ size \in Nat
    <2>1. c \in Chunks
      BY DEF MemoryTypeOK
    <2>2. /\ first \in Slabs /\ first + need <= SlabCount
          /\ (first .. first + need - 1) \cap used[c] = {}
      BY <1>1 DEF Places, need
    <2> QED
      BY <1>2, <2>1, <2>2, SlabAssumption DEF Slabs
  <1>4. /\ used' \in [Chunks -> SUBSET Slabs]
        /\ used'[c] = used[c] \cup taken
        /\ \A d \in Chunks : d # c => used'[d] = used[d]
    BY <1>1, <1>3 DEF MemoryTypeOK
  <1>5. /\ slabs' \in [Allocators -> SUBSET Slabs]
        /\ slabs'[a] = slabs[a] \cup taken
        /\ \A d \in Allocators : d # a => slabs'[d] = slabs[d]
    BY <1>1, <1>3 DEF MemoryTypeOK
  <1>6. /\ free_space' \in [Allocators -> [Slabs -> 0 .. SlabSize]]
        /\ free_space'[a][last] = rest
        /\ \A s \in taken : s # last => free_space'[a][s] = 0
        /\ \A s \in Slabs \ taken : free_space'[a][s] = free_space[a][s]
        /\ \A d \in Allocators : d # a => free_space'[d] = free_space[d]
    <2> DEFINE row == [s \in Slabs |-> IF s = last THEN rest
                                       ELSE IF s \in taken THEN 0
                                       ELSE free_space[a][s]]
    <2>1. row \in [Slabs -> 0 .. SlabSize]
      BY <1>2, <1>3 DEF MemoryTypeOK, Offsets
    <2>2. /\ row[last] = rest /\ \A s \in taken : s # last => row[s] = 0
          /\ \A s \in Slabs \ taken : row[s] = free_space[a][s]
      BY <1>3
    <2>3. free_space' = [free_space EXCEPT ![a] = row]
      BY <1>1
    <2> HIDE DEF row
    <2>4. free_space'[a] = row
      BY <2>3 DEF MemoryTypeOK
    <2> QED
      BY <2>1, <2>2, <2>3, <2>4 DEF MemoryTypeOK
  <1>7. /\ used_slab_count' \in [Chunks -> Nat]
        /\ \A d \in Chunks : used_slab_count'[d] = Cardinality(used'[d])
    <2>1. used_slab_count'[c] = used_slab_count[c] + need
      BY <1>1, <1>3 DEF MemoryTypeOK
    <2>2. /\ \A d \in Chunks : d # c => used_slab_count'[d] = used_slab_count[d]
          /\ DOMAIN used_slab_count' = Chunks
          /\ used_slab_count' = [d \in Chunks |-> used_slab_count'[d]]
      BY <1>1, <1>3 DEF MemoryTypeOK
    <2>3. IsFiniteSet(taken) /\ Cardinality(taken) = need
      <3>1. first \in Int /\ last \in Int /\ first <= last
        BY <1>2, <1>3 DEF Slabs
      <3>2. IsFiniteSet(taken) /\ Cardinality(taken) = last - first + 1
        BY <3>1, FS_Interval
      <3> QED
        BY <1>2, <3>1, <3>2
    <2>4. Cardinality(used[c] \cup taken) = used_slab_count[c] + need
      <3>1. IsFiniteSet(used[c]) /\ Cardinality(used[c]) = used_slab_count[c]
        BY <1>3, SlabsFinite DEF MemoryTypeOK, SlabsAccounted
      <3>2. used[c] \cap taken = {}
        BY <1>3
      <3> HIDE DEF taken
      <3>3. Cardinality(used[c] \cup taken)
              = Cardinality(used[c]) + Cardinality(taken)
                - Cardinality(used[c] \cap taken)
        BY <3>1, <2>3, FS_Union
      <3>4. Cardinality(used[c] \cap taken) = 0
        BY <3>2, FS_EmptySet, Zenon
      <3>5. used_slab_count[c] \in Nat
        BY <1>3 DEF MemoryTypeOK
      <3> QED
        BY <1>2, <2>3, <3>1, <3>2, <3>3, <3>4, <3>5
    <2>5. \A d \in Chunks : used_slab_count'[d] = Cardinality(used'[d])
      BY <1>4, <2>1, <2>2, <2>4 DEF SlabsAccounted
    <2>6. \A d \in Chunks : used_slab_count'[d] \in Nat
      BY <1>4, <2>5, SlabsFinite
    <2> QED
      BY <2>2, <2>5, <2>6
  <1>8. \A d \in Allocators : mem_chunk[d] = c => slabs[d] \subseteq used[c]
    BY <1>3 DEF SlabsAccounted
  <1>9. SlabsAccounted' /\ NothingLent'
    <2>1. ASSUME NEW d \in Chunks
          PROVE  used'[d] = UNION {slabs'[b] : b \in {e \in Allocators :
                                                       mem_chunk'[e] = d}}
      <3>1. used[d] = UNION {slabs[b] : b \in {e \in Allocators :
                                                mem_chunk[e] = d}}
        BY DEF SlabsAccounted
      <3>2. CASE d = c
        BY <1>4, <1>5, <3>1, <3>2
      <3>3. CASE d # c
        BY <1>4, <1>5, <3>1, <3>3
      <3> QED
        BY <3>2, <3>3
    <2>2. ASSUME NEW d \in Allocators, NEW e \in Allocators, d # e,
                 mem_chunk'[d] = mem_chunk'[e]
          PROVE  slabs'[d] \cap slabs'[e] = {}
      BY <1>3, <1>5, <1>8, <2>2 DEF SlabsAccounted
    <2>3. NothingLent'
      BY <1>5 DEF NothingLent
    <2> QED
      BY <1>7, <2>1, <2>2, <2>3 DEF SlabsAccounted
  <1>10. \A x \in cells : /\ x \in Cells /\ x[1] = c /\ x[2] \in taken
                          /\ x[3] \in Offsets
                          /\ x[2] = last => x[3] < SlabSize - rest
    BY <1>3 DEF CellsOf, Cells
  <1>11. \A b \in live : b.cells \cap cells = {}
    <2> SUFFICES ASSUME NEW b \in live, NEW x \in b.cells, x \in cells
                 PROVE  FALSE
      OBVIOUS
    <2>1. PICK d \in Allocators : d[1] = b.owner /\ Backs(d, x)
      BY DEF Backed
    <2>2. x[2] \in used[c] /\ x[2] \in taken
      BY <1>8, <1>10, <2>1 DEF Backs
    <2> QED
      BY <1>3, <2>2
  <1>12. /\ live' \subseteq [owner : Owners, num : Nat, size : Nat,
                             cells : SUBSET Cells]
         /\ IsFiniteSet(live') /\ OneChunk' /\ NoOverlap'
         /\ \A b \in live' : b \in live \/ (b.owner = a[1] /\ b.cells = cells)
         /\ Memory!Allocate
    <2>1. cells \in SUBSET Cells /\ \A x, y \in cells : x[1] = y[1]
      BY <1>10
    <2>2. size \in Nat /\ Lend(a, size, cells)
      BY <1>1, <1>3
    <2> HIDE DEF cells, MemoryInv
    <2> QED
      BY <1>11, <2>1, <2>2, BufferAdded
  <1>13. MemoryTypeOK'
    BY <1>4, <1>5, <1>6, <1>7, <1>12 DEF MemoryTypeOK
  <1>14. Backed'
    <2> SUFFICES ASSUME NEW b \in live', NEW x \in b.cells
                 PROVE  \E d \in Allocators : d[1] = b.owner /\ Backs(d, x)'
      BY DEF Backed
    <2>1. CASE b \in live
      <3>1. PICK d \in Allocators : d[1] = b.owner /\ Backs(d, x)
        BY <2>1 DEF Backed
      <3>2. x[2] \in Slabs
        BY <2>1 DEF MemoryTypeOK, Cells
      <3>3. CASE d = a
        <4>1. x[2] \notin taken
          BY <1>3, <1>8, <3>1, <3>3 DEF Backs
        <4> QED
          BY <1>5, <1>6, <3>1, <3>2, <3>3, <4>1 DEF Backs
      <3>4. CASE d # a
        BY <1>5, <1>6, <3>1, <3>4 DEF Backs
      <3> QED
        BY <3>3, <3>4
    <2>2. CASE b.owner = a[1] /\ b.cells = cells
      <3>1. /\ x[1] = c /\ x[2] \in taken /\ x[3] \in Offsets
            /\ x[2] = last => x[3] < SlabSize - rest
        BY <1>10, <2>2
      <3>2. x[3] < SlabSize - free_space'[a][x[2]]
        BY <1>3, <1>6, <3>1 DEF Offsets
      <3> QED
        BY <1>5, <2>2, <3>1, <3>2 DEF Backs
    <2> QED
      BY <1>12, <2>1, <2>2
  <1> QED
    BY <1>9, <1>12, <1>13, <1>14

(* So a chunk serves a request without harm to the others.                 *)
LEMMA SlabAllocated ==
  ASSUME MemoryInv, NEW a \in Allocators, mem_chunk[a] # None,
         NEW size \in Sizes, AllocateSlab(a, size), mem_chunk' = mem_chunk
  PROVE  MemoryInv' /\ Memory!Allocate
  BY TailTaken, SlabsTaken DEF AllocateSlab

-----------------------------------------------------------------------------
(* Giving back                                                             *)

(* The slabs of an allocator go back to its chunk, and every buffer that   *)
(* was in them with them; all others stay where they are.                  *)
LEMMA GivenBack ==
  ASSUME MemoryInv, NEW a \in Allocators, mem_chunk[a] # None, GiveBack(a)
  PROVE  MemoryInv' /\ Memory!Free(a[1])
  <1> USE DEF MemoryInv
  <1> DEFINE c == mem_chunk[a]
             gone(b) == b.owner = a[1] /\ \A x \in b.cells : x[1] = c
  <1>1. /\ used' = [used EXCEPT ![c] = @ \ slabs[a]]
        /\ used_slab_count' = [used_slab_count EXCEPT ![c] =
                                 @ - Cardinality(slabs[a])]
        /\ slabs' = [slabs EXCEPT ![a] = {}]
        /\ free_space' = [free_space EXCEPT ![a] = [s \in Slabs |-> 0]]
        /\ mem_chunk' = [mem_chunk EXCEPT ![a] = None]
        /\ live' = {b \in live : ~ gone(b)}
    BY DEF GiveBack
  <1>2. c \in Chunks /\ slabs[a] \subseteq used[c] /\ slabs[a] \subseteq Slabs
    BY DEF MemoryTypeOK, SlabsAccounted
  <1>3. /\ used' \in [Chunks -> SUBSET Slabs]
        /\ used'[c] = used[c] \ slabs[a]
        /\ \A d \in Chunks : d # c => used'[d] = used[d]
    BY <1>1, <1>2 DEF MemoryTypeOK
  <1>4. /\ slabs' \in [Allocators -> SUBSET Slabs] /\ slabs'[a] = {}
        /\ \A d \in Allocators : d # a => slabs'[d] = slabs[d]
    BY <1>1 DEF MemoryTypeOK
  <1>5. /\ mem_chunk' \in [Allocators -> Chunks \cup {None}]
        /\ mem_chunk'[a] = None
        /\ \A d \in Allocators : d # a => mem_chunk'[d] = mem_chunk[d]
    BY <1>1 DEF MemoryTypeOK
  <1>6. /\ free_space' \in [Allocators -> [Slabs -> 0 .. SlabSize]]
        /\ \A d \in Allocators : d # a => free_space'[d] = free_space[d]
    <2>1. [s \in Slabs |-> 0] \in [Slabs -> 0 .. SlabSize]
      BY SlabAssumption
    <2> QED
      BY <1>1, <2>1 DEF MemoryTypeOK
  <1>7. /\ used_slab_count' \in [Chunks -> Nat]
        /\ \A d \in Chunks : used_slab_count'[d] = Cardinality(used'[d])
    <2>1. Cardinality(used[c] \ slabs[a])
            = used_slab_count[c] - Cardinality(slabs[a])
      <3>1. IsFiniteSet(used[c]) /\ Cardinality(used[c]) = used_slab_count[c]
        BY <1>2, SlabsFinite DEF MemoryTypeOK, SlabsAccounted
      <3>2. used[c] \cap slabs[a] = slabs[a]
        BY <1>2
      <3>3. Cardinality(used[c] \ slabs[a])
              = Cardinality(used[c]) - Cardinality(used[c] \cap slabs[a])
        BY <3>1, <1>2, SlabsFinite, FS_Difference
      <3> QED
        BY <3>1, <3>2, <3>3, Zenon
    <2>2. /\ used_slab_count'[c] = used_slab_count[c] - Cardinality(slabs[a])
          /\ \A d \in Chunks : d # c => used_slab_count'[d] = used_slab_count[d]
          /\ used_slab_count' = [d \in Chunks |-> used_slab_count'[d]]
      BY <1>1, <1>2 DEF MemoryTypeOK
    <2>3. \A d \in Chunks : used_slab_count'[d] = Cardinality(used'[d])
      BY <1>3, <2>1, <2>2 DEF SlabsAccounted
    <2>4. \A d \in Chunks : used_slab_count'[d] \in Nat
      BY <1>3, <2>3, SlabsFinite
    <2> QED
      BY <2>2, <2>3, <2>4
  <1>8. SlabsAccounted'
    <2>1. ASSUME NEW d \in Chunks
          PROVE  used'[d] = UNION {slabs'[b] : b \in {e \in Allocators :
                                                       mem_chunk'[e] = d}}
      <3>1. used[d] = UNION {slabs[b] : b \in {e \in Allocators :
                                                mem_chunk[e] = d}}
        BY DEF SlabsAccounted
      <3>2. d # None
        BY SlabAssumption DEF Chunks
      <3>3. CASE d = c
        <4>1. ASSUME NEW s \in used'[d]
              PROVE  s \in UNION {slabs'[b] : b \in {e \in Allocators :
                                                      mem_chunk'[e] = d}}
          <5>1. PICK e \in Allocators : mem_chunk[e] = d /\ s \in slabs[e]
            BY <1>3, <3>1, <3>3, <4>1
          <5>2. e # a
            BY <1>3, <3>3, <4>1, <5>1
          <5> QED
            BY <1>4, <1>5, <5>1, <5>2
        <4>2. ASSUME NEW e \in Allocators, mem_chunk'[e] = d, NEW s \in slabs'[e]
              PROVE  s \in used'[d]
          <5>1. e # a /\ mem_chunk[e] = d /\ s \in slabs[e]
            BY <1>4, <1>5, <4>2
          <5>2. s \in used[d] /\ slabs[e] \cap slabs[a] = {}
            BY <3>1, <3>3, <5>1 DEF SlabsAccounted
          <5> QED
            BY <1>3, <3>3, <5>1, <5>2
        <4> QED
          BY <4>1, <4>2
      <3>4. CASE d # c
        <4>1. {e \in Allocators : mem_chunk'[e] = d}
                = {e \in Allocators : mem_chunk[e] = d}
          BY <1>5, <3>2, <3>4
        <4>2. a \notin {e \in Allocators : mem_chunk[e] = d}
          BY <3>4
        <4> QED
          BY <1>3, <1>4, <3>1, <3>4, <4>1, <4>2
      <3> QED
        BY <3>3, <3>4
    <2>2. ASSUME NEW d \in Allocators, NEW e \in Allocators, d # e,
                 mem_chunk'[d] = mem_chunk'[e]
          PROVE  slabs'[d] \cap slabs'[e] = {}
      BY <1>4, <1>5, <2>2 DEF SlabsAccounted
    <2> QED
      BY <1>7, <2>1, <2>2 DEF SlabsAccounted
  <1>9. live' \subseteq live /\ \A b \in live \ live' : b.owner = a[1]
    BY <1>1
  <1>10. NothingLent' /\ OneChunk' /\ NoOverlap' /\ IsFiniteSet(live')
    <2>1. NothingLent'
      BY <1>4, <1>5 DEF NothingLent
    <2>2. OneChunk' /\ NoOverlap'
      BY <1>9 DEF OneChunk, NoOverlap
    <2> QED
      BY <1>9, <2>1, <2>2, FS_Subset
  <1>11. Backed'
    <2> SUFFICES ASSUME NEW b \in live', NEW x \in b.cells
                 PROVE  \E d \in Allocators : d[1] = b.owner /\ Backs(d, x)'
      BY DEF Backed
    <2>1. PICK d \in Allocators : d[1] = b.owner /\ Backs(d, x)
      BY <1>9 DEF Backed
    <2>2. d # a
      <3>1. CASE b.owner # a[1]
        BY <2>1, <3>1
      <3>2. CASE \E y \in b.cells : y[1] # c
        BY <1>9, <2>1, <3>2 DEF OneChunk, Backs
      <3> QED
        BY <1>1, <3>1, <3>2
    <2> QED
      BY <1>4, <1>5, <1>6, <2>1, <2>2 DEF Backs
  <1>12. MemoryTypeOK'
    BY <1>3, <1>4, <1>5, <1>6, <1>7, <1>9 DEF MemoryTypeOK
  <1>13. Memory!Free(a[1])
    BY <1>9 DEF Memory!Free
  <1> QED
    BY <1>8, <1>10, <1>11, <1>12, <1>13

(* Giving an allocator its chunk disturbs nobody: it holds nothing yet.    *)
LEMMA AllocatorBound ==
  ASSUME MemoryInv, NEW a \in Allocators, mem_chunk[a] = None,
         NEW c \in Chunks \cup {None},
         mem_chunk' = [mem_chunk EXCEPT ![a] = c],
         UNCHANGED <<used, used_slab_count, slabs, free_space, live>>
  PROVE  MemoryInv'
  <1> USE DEF MemoryInv
  <1>1. /\ mem_chunk' \in [Allocators -> Chunks \cup {None}]
        /\ mem_chunk'[a] = c /\ slabs[a] = {}
        /\ \A d \in Allocators : d # a => mem_chunk'[d] = mem_chunk[d]
    BY DEF MemoryTypeOK, NothingLent
  <1>2. MemoryTypeOK' /\ IsFiniteSet(live') /\ OneChunk' /\ NoOverlap'
    BY <1>1 DEF MemoryTypeOK, OneChunk, NoOverlap
  <1>3. NothingLent'
    BY <1>1 DEF NothingLent
  <1>4. Backed'
    <2> SUFFICES ASSUME NEW b \in live, NEW x \in b.cells
                 PROVE  \E d \in Allocators : d[1] = b.owner /\ Backs(d, x)'
      BY DEF Backed
    <2>1. PICK d \in Allocators : d[1] = b.owner /\ Backs(d, x)
      BY DEF Backed
    <2> QED
      BY <1>1, <2>1 DEF Backs
  <1>5. ASSUME NEW d \in Chunks
        PROVE  used'[d] = UNION {slabs'[b] : b \in {e \in Allocators :
                                                     mem_chunk'[e] = d}}
    <2>1. used[d] = UNION {slabs[b] : b \in {e \in Allocators :
                                              mem_chunk[e] = d}}
      BY DEF SlabsAccounted
    <2>2. \A e \in Allocators : slabs[e] # {} =>
            (mem_chunk'[e] = d <=> mem_chunk[e] = d)
      BY <1>1
    <2> QED
      BY <2>1, <2>2
  <1>6. SlabsAccounted'
    <2>1. ASSUME NEW d \in Allocators, NEW e \in Allocators, d # e,
                 mem_chunk'[d] = mem_chunk'[e]
          PROVE  slabs'[d] \cap slabs'[e] = {}
      BY <1>1, <2>1 DEF SlabsAccounted
    <2>2. \A d \in Chunks : used_slab_count'[d] = Cardinality(used'[d])
      BY DEF SlabsAccounted
    <2> QED
      BY <1>5, <2>1, <2>2 DEF SlabsAccounted
  <1> QED
    BY <1>2, <1>3, <1>4, <1>6

-----------------------------------------------------------------------------
(* Steps                                                                   *)

(* Allocators are told apart by owner and kind.                            *)
LEMMA AllocatorNames ==
  ASSUME NEW o \in Owners
  PROVE  /\ Own(o) \in Allocators /\ Addl(o) \in Allocators
         /\ Own(o)[1] = o /\ Addl(o)[1] = o
         /\ \A p \in Owners : Own(o) # Addl(p) /\ Addl(o) # Own(p)
         /\ \A p \in Owners : p # o => Own(p) # Own(o) /\ Addl(p) # Addl(o)
  BY DEF Own, Addl, Allocators

(* A step of memory either changes no buffer, lends one, or takes back.    *)
MemoryStep == UNCHANGED live \/ Memory!Allocate \/ \E o \in Owners : Memory!Free(o)

(* One step per action.                                                    *)
LEMMA StepKeepsInv ==
  ASSUME IInv, NEW o \in Owners, OwnerStep(o)
  PROVE  IInv' /\ MemoryStep
  <1> USE DEF IInv
  <1>1. /\ Own(o) \in Allocators /\ Addl(o) \in Allocators
        /\ Own(o)[1] = o /\ Addl(o)[1] = o
        /\ \A p \in Owners : Own(o) # Addl(p) /\ Addl(o) # Own(p)
        /\ \A p \in Owners : p # o => Own(p) # Own(o) /\ Addl(p) # Addl(o)
    BY AllocatorNames
  <1>2. CASE MakeAllocator(o)
    <2>1. curr_mem_chunk' \in Chunks
      BY <1>2, SlabAssumption DEF MakeAllocator, Chunks, ControlInv, ControlTypeOK
    <2>2. MemoryInv'
      BY <1>1, <1>2, <2>1, AllocatorBound DEF MakeAllocator, chunkVars
    <2>3. \A a \in Allocators : a # Own(o) => mem_chunk'[a] = mem_chunk[a]
      BY <1>1, <1>2 DEF MakeAllocator, MemoryInv, MemoryTypeOK
    <2>4. pc[o] # "release"
      BY <1>2 DEF MakeAllocator
    <2>5. ControlTypeOK'
      BY <1>2, <2>1 DEF MakeAllocator, chunkVars, ControlInv, ControlTypeOK
    <2>6. ASSUME NEW p \in Owners
          PROVE  /\ pc'[p] = pc[p] /\ asked'[p] = asked[p]
                 /\ p # o => mem_chunk'[Own(p)] = mem_chunk[Own(p)]
                 /\ mem_chunk'[Addl(p)] = mem_chunk[Addl(p)]
      BY <1>1, <1>2, <2>3, AllocatorNames DEF MakeAllocator
    <2>7. ControlInv'
      BY <2>4, <2>5, <2>6 DEF ControlInv
    <2> QED
      BY <1>2, <2>2, <2>7 DEF MakeAllocator, MemoryStep
  <1>3. ASSUME NEW size \in Sizes, AllocateOwn(o, size)
        PROVE  IInv' /\ MemoryStep
    <2>1. /\ mem_chunk[Own(o)] # None /\ AllocateSlab(Own(o), size)
          /\ UNCHANGED <<mu, curr_mem_chunk, mem_chunk, pc, asked, scan>>
      BY <1>3 DEF AllocateOwn, Begins
    <2>2. MemoryInv' /\ Memory!Allocate
      BY <1>1, <2>1, SlabAllocated
    <2>3. ControlInv'
      BY <2>1 DEF ControlInv, ControlTypeOK
    <2> QED
      BY <2>2, <2>3 DEF MemoryStep
  <1>4. ASSUME NEW size \in Sizes, AllocateElsewhere(o, size)
        PROVE  IInv' /\ MemoryStep
    <2>1. MemoryInv' /\ UNCHANGED live
      BY <1>4 DEF AllocateElsewhere, allocatorVars, MemoryInv, MemoryTypeOK,
                  SlabsAccounted, NothingLent, Backed, Backs, OneChunk, NoOverlap
    <2>2. mem_chunk[Own(o)] \in Chunks
      BY <1>1, <1>4 DEF AllocateElsewhere, Begins, MemoryInv, MemoryTypeOK
    <2>3. size \in Nat
      BY SlabAssumption
    <2>4. ControlTypeOK'
      BY <1>4, <2>2, <2>3 DEF AllocateElsewhere, ControlInv, ControlTypeOK
    <2>5. ControlInv'
      BY <1>4, <2>4 DEF AllocateElsewhere, allocatorVars, ControlInv,
                        ControlTypeOK
    <2> QED
      BY <2>1, <2>5 DEF MemoryStep
  <1>5. CASE ScanChunk(o)
    <2>1. MemoryInv' /\ UNCHANGED live
      BY <1>5 DEF ScanChunk, chunkVars, allocatorVars, MemoryInv, MemoryTypeOK,
                  SlabsAccounted, NothingLent, Backed, Backs, OneChunk, NoOverlap
    <2>2. scan' \in [Owners -> [num : 0 .. ChunkCount,
                                best : Chunks \cup {None}, free : Int]]
      <3>1. scan[o] \in [num : 0 .. ChunkCount, best : Chunks \cup {None},
                         free : Int]
        BY DEF ControlInv, ControlTypeOK
      <3>2. /\ scan[o].num + 1 \in 0 .. ChunkCount /\ scan[o].num \in Chunks
            /\ SlabCount - used_slab_count[scan[o].num] \in Int
        BY <1>5, <3>1, SlabAssumption, SMTT(30)
           DEF ScanChunk, Chunks, MemoryInv, MemoryTypeOK
      <3>3. PICK better \in BOOLEAN :
              scan' = [scan EXCEPT ![o] =
                [num |-> scan[o].num + 1,
                 best |-> IF better THEN scan[o].num ELSE scan[o].best,
                 free |-> IF better THEN SlabCount - used_slab_count[scan[o].num]
                          ELSE scan[o].free]]
        BY <1>5 DEF ScanChunk
      <3> QED
        BY <3>1, <3>2, <3>3 DEF ControlInv, ControlTypeOK
    <2>3. ControlInv'
      BY <1>5, <2>2 DEF ScanChunk, chunkVars, allocatorVars, ControlInv,
                        ControlTypeOK
    <2> QED
      BY <2>1, <2>3 DEF MemoryStep
  <1>6. CASE ScanDone(o)
    <2>1. scan[o].best \in Chunks \cup {None} /\ mem_chunk[Addl(o)] = None
      BY <1>6 DEF ScanDone, ControlInv, ControlTypeOK
    <2>2. MemoryInv'
      BY <1>1, <1>6, <2>1, AllocatorBound DEF ScanDone
    <2>3. /\ mem_chunk'[Addl(o)] = scan[o].best
          /\ \A a \in Allocators : a # Addl(o) => mem_chunk'[a] = mem_chunk[a]
      BY <1>1, <1>6 DEF ScanDone, MemoryInv, MemoryTypeOK
    <2>4. scan' \in [Owners -> [num : 0 .. ChunkCount,
                                best : Chunks \cup {None}, free : Int]]
      BY <1>6, SlabAssumption DEF ScanDone, NoScan, ControlInv, ControlTypeOK
    <2>5. /\ mu' \in [Chunks -> Owners \cup {None}]
          /\ pc' \in [Owners -> {"idle", "scan", "routed", "release"}]
          /\ asked' \in [Owners -> Nat] /\ UNCHANGED curr_mem_chunk
      BY <1>6 DEF ScanDone, ControlInv, ControlTypeOK
    <2>6. ControlTypeOK'
      BY <2>4, <2>5 DEF ControlInv, ControlTypeOK
    <2>7. ASSUME NEW p \in Owners
          PROVE  /\ pc'[p] \in {"scan", "routed"} => asked'[p] \in Sizes
                 /\ pc'[p] = "scan" => mem_chunk'[Addl(p)] = None
                 /\ pc'[p] \in {"routed", "release"} => mem_chunk'[Addl(p)] # None
                 /\ pc'[p] = "release" => mem_chunk'[Own(p)] = None
      <3>1. Own(p) \in Allocators /\ Addl(p) \in Allocators /\ Own(p) # Addl(o)
        BY <1>1, AllocatorNames
      <3>2. CASE p = o
        <4>1. /\ pc'[o] = IF scan[o].best = None THEN "idle" ELSE "routed"
              /\ scan[o].best # None => asked'[o] = asked[o]
              /\ asked[o] \in Sizes
          BY <1>6 DEF ScanDone, ControlInv, ControlTypeOK
        <4> QED
          BY <2>3, <3>2, <4>1
      <3>3. CASE p # o
        <4>1. pc'[p] = pc[p] /\ asked'[p] = asked[p] /\ Addl(p) # Addl(o)
          BY <1>1, <1>6, <3>3 DEF ScanDone, ControlInv, ControlTypeOK
        <4> QED
          BY <2>3, <3>1, <4>1 DEF ControlInv
      <3> QED
        BY <3>2, <3>3
    <2>8. ControlInv'
      BY <2>6, <2>7 DEF ControlInv
    <2> QED
      BY <1>6, <2>2, <2>8 DEF ScanDone, MemoryStep
  <1>7. CASE AllocateRouted(o)
    <2>1. /\ mem_chunk[Addl(o)] # None /\ asked[o] \in Sizes
          /\ UNCHANGED <<mu, curr_mem_chunk, mem_chunk, scan>>
      BY <1>7 DEF AllocateRouted, ControlInv
    <2>2. MemoryInv' /\ MemoryStep
      <3>1. CASE AllocateSlab(Addl(o), asked[o])
        BY <1>1, <2>1, <3>1, SlabAllocated DEF MemoryStep
      <3>2. CASE UNCHANGED <<used, used_slab_count, slabs, free_space, live>>
        BY <2>1, <3>2 DEF MemoryInv, MemoryTypeOK, SlabsAccounted, NothingLent,
                          Backed, Backs, OneChunk, NoOverlap, MemoryStep
      <3> QED
        BY <1>7, <3>1, <3>2 DEF AllocateRouted
    <2>3. ControlInv'
      BY <1>7, <2>1 DEF AllocateRouted, ControlInv, ControlTypeOK
    <2> QED
      BY <2>2, <2>3
  <1>8. CASE ReleaseAdditional(o)
    <2>1. /\ pc[o] = "release" /\ mem_chunk[Addl(o)] # None /\ GiveBack(Addl(o))
          /\ pc' = [pc EXCEPT ![o] = "idle"]
          /\ UNCHANGED <<mu, curr_mem_chunk, asked, scan>>
      BY <1>8 DEF ReleaseAdditional, ControlInv
    <2>2. MemoryInv' /\ MemoryStep
      BY <1>1, <2>1, GivenBack DEF MemoryStep
    <2>3. \A a \in Allocators : a # Addl(o) => mem_chunk'[a] = mem_chunk[a]
      BY <1>1, <2>1 DEF GiveBack, MemoryInv, MemoryTypeOK
    <2>4. ControlTypeOK'
      BY <2>1 DEF ControlInv, ControlTypeOK
    <2>5. ASSUME NEW p \in Owners, p # o
          PROVE  /\ pc'[p] = pc[p] /\ asked'[p] = asked[p]
                 /\ mem_chunk'[Own(p)] = mem_chunk[Own(p)]
                 /\ mem_chunk'[Addl(p)] = mem_chunk[Addl(p)]
      BY <1>1, <2>1, <2>3, <2>5, AllocatorNames DEF ControlInv, ControlTypeOK
    <2>6. pc'[o] = "idle"
      BY <2>1 DEF ControlInv, ControlTypeOK
    <2>7. ControlInv'
      BY <2>4, <2>5, <2>6 DEF ControlInv
    <2> QED
      BY <2>2, <2>7
  <1>9. CASE Release(o)
    <2>1. /\ pc[o] = "idle" /\ mem_chunk[Own(o)] # None /\ GiveBack(Own(o))
          /\ pc' = [pc EXCEPT ![o] = IF mem_chunk[Addl(o)] = None THEN "idle"
                                     ELSE "release"]
          /\ UNCHANGED <<mu, curr_mem_chunk, asked, scan>>
      BY <1>9 DEF Release
    <2>2. MemoryInv' /\ MemoryStep
      BY <1>1, <2>1, GivenBack DEF MemoryStep
    <2>3. /\ mem_chunk'[Own(o)] = None
          /\ \A a \in Allocators : a # Own(o) => mem_chunk'[a] = mem_chunk[a]
      BY <1>1, <2>1 DEF GiveBack, MemoryInv, MemoryTypeOK
    <2>4. ControlTypeOK'
      BY <2>1 DEF ControlInv, ControlTypeOK
    <2>5. ASSUME NEW p \in Owners, p # o
          PROVE  /\ pc'[p] = pc[p] /\ asked'[p] = asked[p]
                 /\ mem_chunk'[Own(p)] = mem_chunk[Own(p)]
                 /\ mem_chunk'[Addl(p)] = mem_chunk[Addl(p)]
      BY <1>1, <2>1, <2>3, <2>5, AllocatorNames DEF ControlInv, ControlTypeOK
    <2>6. /\ pc'[o] = IF mem_chunk[Addl(o)] = None THEN "idle" ELSE "release"
          /\ mem_chunk'[Addl(o)] = mem_chunk[Addl(o)]
      BY <1>1, <2>1, <2>3 DEF ControlInv, ControlTypeOK
    <2>7. ControlInv'
      BY <2>3, <2>4, <2>5, <2>6 DEF ControlInv
    <2> QED
      BY <2>2, <2>7
  <1> QED
    BY <1>2, <1>3, <1>4, <1>5, <1>6, <1>7, <1>8, <1>9 DEF OwnerStep, Continue

-----------------------------------------------------------------------------
(* Sizes of buffers                                                        *)

(* Cells of a chunk are as many as the places in it.                       *)
CellsAt(c, P) == {<<c, p[1], p[2]>> : p \in P}

LEMMA CellsCounted ==
  ASSUME NEW c, NEW P, IsFiniteSet(P), \A p \in P : p = <<p[1], p[2]>>
  PROVE  Cardinality(CellsAt(c, P)) = Cardinality(P)
  <1> DEFINE f == [p \in P |-> <<c, p[1], p[2]>>]
             cells == CellsAt(c, P)
  <1>1. f \in Injection(P, cells)
    BY DEF Injection, IsInjective, CellsAt
  <1>2. f \in Surjection(P, cells)
    BY DEF Surjection, CellsAt
  <1>3. f \in Bijection(P, cells)
    BY <1>1, <1>2 DEF Bijection
  <1> QED
    BY <1>3, FS_Bijection DEF ExistsBijection

(* The slabs a buffer takes hold it and the free end.                      *)
LEMMA SlabsHoldSize ==
  ASSUME NEW size \in Sizes
  PROVE  (SlabsNeeded(size) - 1) * SlabSize + (SlabSize - SlabFree(size)) = size
  <1>1. PICK n \in Nat, m \in Nat \ {0} : n = size /\ m = SlabSize
    BY SlabAssumption
  <1>2. PICK q \in Nat, r \in 0 .. m - 1 :
          q = n \div m /\ r = n % m /\ n = m * q + r
    BY <1>1
  <1>3. PICK e \in 0 .. m - 1 : e = SlabFree(size) /\ e = (m - r) % m
    BY <1>1, <1>2 DEF SlabFree
  <1>4. e = IF r = 0 THEN 0 ELSE m - r
    <2>1. CASE r = 0
      BY <1>1, <1>3, <2>1
    <2>2. CASE r # 0
      <3>1. PICK x \in 1 .. m - 1 : x = m - r
        BY <1>1, <1>2, <2>2
      <3>2. x % m = x
        BY <1>1, <3>1
      <3> QED
        BY <1>3, <2>2, <3>1, <3>2
    <2> QED
      BY <2>1, <2>2
  <1>5. PICK k \in Nat : k = SlabsNeeded(size) /\ k = IF r = 0 THEN q ELSE q + 1
    BY <1>1, <1>2, <1>3, <1>4 DEF SlabsNeeded
  <1>6. PICK p \in Nat : p = m * q
    BY <1>1
  <1>7. (k - 1) * m = IF r = 0 THEN p - m ELSE p
    BY <1>1, <1>2, <1>5, <1>6
  <1>8. (k - 1) * m + (m - e) = n
    BY <1>2, <1>4, <1>6, <1>7
  <1> QED
    BY <1>1, <1>3, <1>5, <1>8

(* A buffer at the end of a slab, and one in slabs of its own.             *)
LEMMA TailSize ==
  ASSUME NEW c, NEW s, NEW from \in Nat, NEW size \in Nat,
         from + size <= SlabSize
  PROVE  Cardinality({c} \X {s} \X (from .. from + size - 1)) = size
  <1> DEFINE P == {s} \X (from .. from + size - 1)
             cells == {c} \X {s} \X (from .. from + size - 1)
  <1>1. IsFiniteSet(from .. from + size - 1) /\ Cardinality(from .. from + size - 1) = size
    BY FS_Interval
  <1>2. IsFiniteSet({s}) /\ Cardinality({s}) = 1
    BY FS_Singleton
  <1>3. IsFiniteSet(P) /\ Cardinality(P) = 1 * size
    BY <1>1, <1>2, FS_Product
  <1>4. \A p \in P : p = <<p[1], p[2]>>
    OBVIOUS
  <1>5. cells = CellsAt(c, P)
    <2>1. ASSUME NEW x \in cells PROVE \E p \in P : x = <<c, p[1], p[2]>>
      <3>1. PICK i \in from .. from + size - 1 : x = <<c, s, i>>
        OBVIOUS
      <3>2. PICK p \in P : p = <<s, i>>
        OBVIOUS
      <3> QED
        BY <3>1, <3>2
    <2>2. \A p \in P : <<c, p[1], p[2]>> \in cells
      OBVIOUS
    <2> HIDE DEF P, cells
    <2> QED
      BY <2>1, <2>2 DEF CellsAt
  <1> HIDE DEF P, cells
  <1>6. Cardinality(cells) = Cardinality(P)
    BY <1>3, <1>4, <1>5, CellsCounted
  <1> QED
    BY <1>3, <1>6 DEF cells

LEMMA SlabsSize ==
  ASSUME NEW c, NEW first \in Nat, NEW last \in Nat, first <= last,
         NEW free \in Offsets
  PROVE  Cardinality(CellsOf(c, first, last, free))
           = (last - first) * SlabSize + (SlabSize - free)
  <1> DEFINE A == (first .. last - 1) \X Offsets
             B == {last} \X (0 .. SlabSize - free - 1)
             P == A \cup B
             cells == CellsOf(c, first, last, free)
  <1>1. SlabSize \in Nat \ {0} /\ free \in Nat /\ free < SlabSize
    BY SlabAssumption DEF Offsets
  <1>2. IsFiniteSet(A) /\ Cardinality(A) = (last - first) * SlabSize
    <2>1. IsFiniteSet(first .. last - 1) /\ Cardinality(first .. last - 1) = last - first
      <3>1. PICK hi \in Int : hi = last - 1
        OBVIOUS
      <3>2. first \in Int /\ first <= hi + 1 /\ last - first = hi - first + 1
        BY <3>1
      <3>3. IsFiniteSet(first .. hi) /\ Cardinality(first .. hi) = hi - first + 1
        <4>1. CASE first > hi
          <5>1. hi - first + 1 = 0
            BY <3>1, <3>2, <4>1
          <5> QED
            BY <3>1, <3>2, <4>1, <5>1, FS_Interval
        <4>2. CASE ~(first > hi)
          BY <3>1, <3>2, <4>2, FS_Interval
        <4> QED
          BY <4>1, <4>2
      <3> QED
        BY <3>1, <3>2, <3>3
    <2>2. IsFiniteSet(Offsets) /\ Cardinality(Offsets) = SlabSize
      BY <1>1, FS_Interval DEF Offsets
    <2> QED
      BY <2>1, <2>2, FS_Product
  <1>3. IsFiniteSet(B) /\ Cardinality(B) = SlabSize - free
    <2>1. PICK n \in Nat : n = SlabSize - free /\ n > 0
      BY <1>1
    <2>2. IsFiniteSet(0 .. n - 1) /\ Cardinality(0 .. n - 1) = n
      <3>1. n - 1 \in Int /\ 0 \in Int /\ n - 1 - 0 + 1 = n /\ ~(0 > n - 1)
        BY <2>1
      <3> QED
        BY <3>1, FS_Interval
    <2>3. IsFiniteSet({last}) /\ Cardinality({last}) = 1
      BY FS_Singleton
    <2>4. IsFiniteSet({last} \X (0 .. n - 1)) /\ Cardinality({last} \X (0 .. n - 1)) = 1 * n
      BY <2>2, <2>3, FS_Product
    <2> QED
      BY <2>1, <2>4
  <1>4. A \cap B = {}
    OBVIOUS
  <1>5. \A p \in P : p = <<p[1], p[2]>>
    OBVIOUS
  <1>6. cells = CellsAt(c, P)
    <2>1. ASSUME NEW x \in cells PROVE \E p \in P : x = <<c, p[1], p[2]>>
      <3>1. PICK t \in first .. last, i \in Offsets :
              x = <<c, t, i>> /\ (t = last => i < SlabSize - free)
        BY <2>1 DEF CellsOf
      <3>2. PICK p : p = <<t, i>> /\ p[1] = t /\ p[2] = i
        <4>1. <<t, i>>[1] = t /\ <<t, i>>[2] = i
          OBVIOUS
        <4> QED
          BY <4>1
      <3>3. CASE t = last
        <4>1. i \in 0 .. SlabSize - free - 1
          BY <1>1, <3>1, <3>3 DEF Offsets
        <4> QED
          BY <3>1, <3>2, <3>3, <4>1
      <3>4. CASE t # last
        <4>1. t \in first .. last - 1
          BY <3>4
        <4> QED
          BY <3>1, <3>2, <4>1
      <3> QED
        BY <3>3, <3>4
    <2>2. ASSUME NEW p \in P PROVE <<c, p[1], p[2]>> \in cells
      <3>1. CASE p \in A
        BY <3>1 DEF CellsOf
      <3>2. CASE p \in B
        <4>1. p[2] \in Offsets /\ p[2] < SlabSize - free /\ p[1] = last
          BY <1>1, <3>2 DEF Offsets
        <4> QED
          BY <4>1 DEF CellsOf
      <3> QED
        BY <3>1, <3>2
    <2> HIDE DEF P, cells
    <2> QED
      BY <2>1, <2>2 DEF CellsAt
  <1>7. IsFiniteSet(P) /\ Cardinality(P) = Cardinality(A) + Cardinality(B)
    <2> HIDE DEF A, B
    <2>1. IsFiniteSet(A \cup B)
      BY <1>2, <1>3, FS_Union
    <2>2. Cardinality(A \cup B) = Cardinality(A) + Cardinality(B) - Cardinality(A \cap B)
      BY <1>2, <1>3, FS_Union
    <2>3. Cardinality(A \cap B) = 0
      BY <1>4, FS_EmptySet, Zenon
    <2>4. Cardinality(A) \in Nat /\ Cardinality(B) \in Nat
      BY <1>2, <1>3, FS_CardinalityType
    <2> QED
      BY <2>1, <2>2, <2>3, <2>4
  <1> HIDE DEF A, B, P, cells
  <1>8. Cardinality(cells) = Cardinality(P)
    BY <1>5, <1>6, <1>7, CellsCounted
  <1> QED
    BY <1>2, <1>3, <1>7, <1>8 DEF cells

(* What is lent is as large as was asked for.                              *)
LEMMA LentSize ==
  ASSUME RightSize, NEW a, NEW size, NEW cells, Cardinality(cells) = size,
         Lend(a, size, cells)
  PROVE  RightSize'
  <1>1. PICK new : /\ live' = live \cup {new}
                   /\ new.size = size /\ new.cells = cells
    <2>1. PICK n : live' = live \cup {[owner |-> a[1], num |-> n, size |-> size, cells |-> cells]}
      BY DEF Lend
    <2>2. PICK new : new = [owner |-> a[1], num |-> n, size |-> size, cells |-> cells]
      OBVIOUS
    <2> QED
      BY <2>1, <2>2
  <1> QED
    BY <1>1 DEF RightSize

LEMMA AllocatedSize ==
  ASSUME IInv, RightSize, NEW a \in Allocators, mem_chunk[a] # None, NEW size \in Sizes,
         AllocateSlab(a, size)
  PROVE  RightSize'
  <1>1. size \in Nat /\ SlabSize \in Nat \ {0} /\ size > 0
    BY SlabAssumption
  <1>2. CASE TakeTail(a, size)
    <2>1. PICK s \in Tails(a, size) :
            Lend(a, size, {mem_chunk[a]} \X {s}
                   \X ((SlabSize - free_space[a][s])
                       .. (SlabSize - free_space[a][s]) + size - 1))
      BY <1>2 DEF TakeTail
    <2>2. PICK free \in 0 .. SlabSize : free = free_space[a][s] /\ free >= size
      BY <2>1 DEF Tails, IInv, MemoryInv, MemoryTypeOK
    <2>3. PICK from \in Nat : from = SlabSize - free /\ from + size <= SlabSize
      BY <1>1, <2>2
    <2>4. Cardinality({mem_chunk[a]} \X {s} \X (from .. from + size - 1)) = size
      BY <1>1, <2>3, TailSize
    <2> QED
      BY <2>1, <2>2, <2>3, <2>4, LentSize
  <1>3. CASE TakeSlabs(a, size)
    <2>1. PICK need \in Nat \ {0}, rest \in Offsets :
            need = SlabsNeeded(size) /\ rest = SlabFree(size)
      BY SlabArithmetic
    <2>2. PICK first \in Places(mem_chunk[a], size) :
            Lend(a, size, CellsOf(mem_chunk[a], first, first + need - 1, rest))
      BY <1>3, <2>1 DEF TakeSlabs
    <2>3. first \in Nat
      BY SlabAssumption DEF Places, Slabs
    <2>4. PICK last \in Nat : last = first + need - 1 /\ last - first = need - 1 /\ first <= last
      BY <2>1, <2>3
    <2>5. Cardinality(CellsOf(mem_chunk[a], first, last, rest))
            = (need - 1) * SlabSize + (SlabSize - rest)
      BY <2>1, <2>3, <2>4, SlabsSize
    <2>6. (need - 1) * SlabSize + (SlabSize - rest) = size
      BY <2>1, SlabsHoldSize
    <2> QED
      BY <2>2, <2>4, <2>5, <2>6, LentSize
  <1> QED
    BY <1>2, <1>3 DEF AllocateSlab

-----------------------------------------------------------------------------
(* Theorems                                                                *)

(* The invariant is inductive.                                             *)
THEOREM Invariant == Spec => []IInv
  <1>1. Init => IInv
    <2> SUFFICES ASSUME Init PROVE IInv
      OBVIOUS
    <2> USE DEF Init
    <2>1. MemoryTypeOK
      BY SlabAssumption DEF MemoryTypeOK
    <2>2. ControlInv
      BY SlabAssumption DEF ControlInv, ControlTypeOK, NoScan, Chunks
    <2>3. NothingLent /\ Backed /\ OneChunk /\ NoOverlap
      BY DEF NothingLent, Backed, OneChunk, NoOverlap
    <2>4. IsFiniteSet(live) /\ SlabsAccounted
      <3>1. \A c \in Chunks : used[c] = {} /\ used_slab_count[c] = 0
        OBVIOUS
      <3>2. \A a \in Allocators : slabs[a] = {}
        OBVIOUS
      <3>3. \A c \in Chunks : used_slab_count[c] = Cardinality(used[c])
        BY <3>1, FS_EmptySet
      <3>4. IsFiniteSet(live)
        BY FS_EmptySet
      <3> QED
        BY <3>1, <3>2, <3>3, <3>4 DEF SlabsAccounted
    <2> QED
      BY <2>1, <2>2, <2>3, <2>4 DEF IInv, MemoryInv
  <1>2. IInv /\ [Next]_vars => IInv'
    <2> SUFFICES ASSUME IInv, [Next]_vars PROVE IInv'
      OBVIOUS
    <2>1. CASE Next
      BY <2>1, StepKeepsInv DEF Next
    <2>2. CASE UNCHANGED vars
      BY <2>2 DEF vars, chunkVars, allocatorVars, IInv, MemoryInv, ControlInv,
                  MemoryTypeOK, ControlTypeOK, SlabsAccounted, NothingLent,
                  Backed, Backs, OneChunk, NoOverlap
    <2> QED
      BY <2>1, <2>2
  <1> QED
    BY <1>1, <1>2, PTL DEF Spec

(* Counters, lists and free space stay within the memory there is.         *)
THEOREM TypeCorrect == Spec => []TypeOK
  <1>1. IInv => TypeOK
    BY DEF IInv, MemoryInv, ControlInv, MemoryTypeOK, ControlTypeOK, TypeOK
  <1> QED
    BY <1>1, Invariant, PTL

(* Two buffers never share a byte, whichever requests they belong to.      *)
THEOREM BuffersDisjoint == Spec => []NoOverlap
  <1>1. IInv => NoOverlap
    BY DEF IInv, MemoryInv
  <1> QED
    BY <1>1, Invariant, PTL

(* A buffer has room for exactly what was asked for, wherever it was put   *)
(* (byteslabs.go:137, 205).                                                *)
THEOREM BuffersHaveTheirSize == Spec => []RightSize
  <1>1. Init => RightSize
    BY DEF Init, RightSize
  <1>2. IInv /\ RightSize /\ [Next]_vars => RightSize'
    <2> SUFFICES ASSUME IInv, RightSize, [Next]_vars PROVE RightSize'
      OBVIOUS
    <2>1. CASE live' \subseteq live
      BY <2>1 DEF RightSize
    <2>2. ASSUME NEW o \in Owners, OwnerStep(o) PROVE RightSize'
      <3>1. Own(o) \in Allocators /\ Addl(o) \in Allocators
        BY AllocatorNames
      <3>2. ASSUME NEW size \in Sizes, AllocateOwn(o, size) PROVE RightSize'
        BY <3>1, <3>2, AllocatedSize DEF AllocateOwn, Begins
      <3>3. CASE AllocateRouted(o)
        <4>1. mem_chunk[Addl(o)] # None /\ asked[o] \in Sizes
          BY <3>3 DEF AllocateRouted, IInv, ControlInv
        <4> QED
          BY <2>1, <3>1, <3>3, <4>1, AllocatedSize DEF AllocateRouted
      <3>4. ASSUME NEW size \in Sizes, AllocateElsewhere(o, size) PROVE RightSize'
        BY <2>1, <3>4 DEF AllocateElsewhere
      <3>5. CASE MakeAllocator(o) \/ ScanChunk(o) \/ ScanDone(o)
        BY <2>1, <3>5 DEF MakeAllocator, ScanChunk, ScanDone
      <3>6. CASE ReleaseAdditional(o) \/ Release(o)
        BY <2>1, <3>6 DEF ReleaseAdditional, Release, GiveBack
      <3> QED
        BY <2>2, <3>2, <3>3, <3>4, <3>5, <3>6 DEF OwnerStep, Continue
    <2>3. CASE UNCHANGED vars
      BY <2>1, <2>3 DEF vars
    <2> QED
      BY <2>2, <2>3 DEF Next
  <1> QED
    BY <1>1, <1>2, Invariant, PTL DEF Spec

(* used_slab_count is exact and every used slab has one owner who will     *)
(* give it back.                                                           *)
THEOREM NoSlabLost == Spec => []SlabsAccounted
  <1>1. IInv => SlabsAccounted
    BY DEF IInv, MemoryInv
  <1> QED
    BY <1>1, Invariant, PTL

(* The slab allocator is the abstract heap: every step lends cells nobody  *)
(* holds, takes back buffers of one owner, or leaves the buffers alone.    *)
THEOREM ImplementsHeap == Spec => HeapSpec
  <1>1. Init => Memory!Init
    BY DEF Init, Memory!Init
  <1>2. IInv /\ [Next]_vars => [Memory!Next]_live
    <2> SUFFICES ASSUME IInv, [Next]_vars PROVE [Memory!Next]_live
      OBVIOUS
    <2>1. CASE Next
      BY <2>1, StepKeepsInv DEF Next, MemoryStep, Memory!Next
    <2>2. CASE UNCHANGED vars
      BY <2>2 DEF vars
    <2> QED
      BY <2>1, <2>2
  <1> QED
    BY <1>1, <1>2, Invariant, PTL DEF Spec, HeapSpec, Memory!Spec

-----------------------------------------------------------------------------
(* The blocks of a caller, counted                                         *)

Mine(s, c) == {i \in 1 .. Len(s) : s[i].caller = c}
Queued(c) ==
  {x \in Channels \X (1 .. QueueCap + FastCap) :
     x[2] <= Len(queue[x[1]]) /\ queue[x[1]][x[2]].caller = c}
AtWork(c) == {w \in Threads : worker[w] # Nil /\ worker[w].caller = c}

Counted(c) ==
  Cardinality(Mine(queue["normal"], c)) + Cardinality(Mine(queue["fast"], c))
    + Cardinality(AtWork(c)) + Len(ch_out[c])

(* Every block a caller waits for is in a queue, at a thread or in its     *)
(* channel; with none at work it may send, and it starts and ends so.      *)
CountInv ==
  \A c \in Callers :
    /\ IsFiniteSet(AtWork(c))
    /\ in_progress[c] = Counted(c)
    /\ stage[c] = "send" => in_progress[c] < MaxInProgress
    /\ stage[c] \in {"idle", "fast"} => in_progress[c] = 0

LEMMA CapsTyped ==
  /\ QueueCap \in Nat /\ FastCap \in Nat /\ OutCap \in Nat /\ OutCap >= 1
  /\ BlockSize \in Nat /\ BlockSize >= 1 /\ MaxInProgress \in Nat /\ MaxInProgress >= 2
BY CompressorAssumption

LEMMA ChannelsKnown ==
  /\ "normal" \in Channels /\ "fast" \in Channels /\ "normal" # "fast"
  /\ \A q \in Channels : q = "normal" \/ q = "fast"
  /\ \A w \in Threads : ChannelOf(w) \in Channels
BY DEF Channels, ChannelOf

LEMMA MineFinite ==
  ASSUME NEW S, NEW s \in Seq(S), NEW c
  PROVE  IsFiniteSet(Mine(s, c)) /\ Cardinality(Mine(s, c)) \in Nat
<1>1. Len(s) \in Nat
  BY LenProperties
<1>2. IsFiniteSet(1 .. Len(s))
  BY <1>1, FS_Interval
<1>3. Mine(s, c) \subseteq 1 .. Len(s)
  BY DEF Mine
<1> QED
  BY <1>2, <1>3, FS_Subset, FS_CardinalityType

(* A block put into a queue is one more of its caller's.                   *)
LEMMA MineAppend ==
  ASSUME NEW S, NEW s \in Seq(S), NEW b \in S, NEW c
  PROVE  Cardinality(Mine(Append(s, b), c)) =
           Cardinality(Mine(s, c)) + IF b.caller = c THEN 1 ELSE 0
<1> DEFINE t == Append(s, b)
<1>1. /\ Len(s) \in Nat /\ Len(t) = Len(s) + 1 /\ t[Len(s) + 1] = b
      /\ \A i \in 1 .. Len(s) : t[i] = s[i]
  BY LenProperties, AppendProperties
<1> HIDE DEF t
<1>2. Mine(t, c) = Mine(s, c) \cup (IF b.caller = c THEN {Len(s) + 1} ELSE {})
  <2>1. \A i : i \in 1 .. Len(t) <=> i \in 1 .. Len(s) \/ i = Len(s) + 1
    BY <1>1
  <2>2. ASSUME NEW i PROVE i \in Mine(t, c) <=> i \in Mine(s, c) \/ (b.caller = c /\ i = Len(s) + 1)
    <3>1. CASE i \in 1 .. Len(s)
      <4>1. i # Len(s) + 1 /\ t[i] = s[i] /\ i \in 1 .. Len(t)
        BY <1>1, <2>1, <3>1
      <4> QED
        BY <3>1, <4>1 DEF Mine
    <3>2. CASE i = Len(s) + 1
      <4>1. i \notin 1 .. Len(s) /\ t[i] = b /\ i \in 1 .. Len(t)
        BY <1>1, <2>1, <3>2
      <4> QED
        BY <3>2, <4>1 DEF Mine
    <3>3. CASE i \notin 1 .. Len(s) /\ i # Len(s) + 1
      <4>1. i \notin 1 .. Len(t)
        BY <2>1, <3>3
      <4> QED
        BY <3>3, <4>1 DEF Mine
    <3> QED
      BY <3>1, <3>2, <3>3
  <2>3. \A i : i \in Mine(t, c) <=> i \in Mine(s, c) \/ (b.caller = c /\ i = Len(s) + 1)
    BY <2>2
  <2> QED
    BY <2>3
<1>3. Len(s) + 1 \notin Mine(s, c)
  BY <1>1 DEF Mine
<1>4. IsFiniteSet(Mine(s, c)) /\ Cardinality(Mine(s, c)) \in Nat
  BY MineFinite
<1>5. CASE b.caller = c
  <2>1. Mine(t, c) = Mine(s, c) \cup {Len(s) + 1}
    BY <1>2, <1>5
  <2>2. Cardinality(Mine(t, c)) = Cardinality(Mine(s, c)) + 1
    BY <1>3, <1>4, <2>1, FS_AddElement
  <2> QED
    BY <1>5, <2>2 DEF t
<1>6. CASE b.caller # c
  <2>1. Mine(t, c) = Mine(s, c)
    BY <1>2, <1>6
  <2> QED
    BY <1>4, <1>6, <2>1 DEF t
<1> QED
  BY <1>5, <1>6

(* A block taken from a queue is one less of its caller's.                 *)
LEMMA MineTail ==
  ASSUME NEW S, NEW s \in Seq(S), s # <<>>, NEW c
  PROVE  Cardinality(Mine(Tail(s), c)) =
           Cardinality(Mine(s, c)) - IF Head(s).caller = c THEN 1 ELSE 0
<1> DEFINE t == Tail(s)
           rest == Mine(s, c) \ {1}
           f == [i \in Mine(t, c) |-> i + 1]
<1>1. /\ Len(s) \in Nat /\ Len(s) >= 1 /\ Head(s) = s[1]
      /\ t \in Seq(S) /\ Len(t) = Len(s) - 1
      /\ \A i \in 1 .. Len(t) : t[i] = s[i + 1]
  <2>1. Len(s) \in Nat /\ Len(s) # 0
    BY LenProperties, EmptySeq
  <2>2. t \in Seq(S) /\ Len(t) = Len(s) - 1 /\ \A i \in 1 .. Len(t) : t[i] = s[i + 1]
    BY HeadTailProperties
  <2>3. Head(s) = s[1]
    BY HeadTailProperties
  <2> QED
    BY <2>1, <2>2, <2>3
<1> HIDE DEF t
<1>2. \A i \in Mine(t, c) : i \in Int /\ i + 1 \in rest
  BY <1>1 DEF Mine
<1>3. \A j \in rest : j - 1 \in Mine(t, c) /\ (j - 1) + 1 = j
  <2> SUFFICES ASSUME NEW j \in rest PROVE j - 1 \in Mine(t, c) /\ (j - 1) + 1 = j
    OBVIOUS
  <2>1. j \in 1 .. Len(s) /\ j # 1 /\ s[j].caller = c
    BY DEF Mine
  <2>2. j - 1 \in 1 .. Len(t) /\ (j - 1) + 1 = j
    BY <1>1, <2>1
  <2>3. t[j - 1] = s[j]
    BY <1>1, <2>2
  <2> QED
    BY <2>1, <2>2, <2>3 DEF Mine
<1>4. f \in Bijection(Mine(t, c), rest)
  <2>1. f \in [Mine(t, c) -> rest]
    BY <1>2
  <2>2. \A a, b \in Mine(t, c) : f[a] = f[b] => a = b
    BY <1>2
  <2>3. \A j \in rest : \E i \in Mine(t, c) : f[i] = j
    BY <1>3
  <2> HIDE DEF f, rest
  <2> QED
    BY <2>1, <2>2, <2>3 DEF Bijection, Injection, Surjection, IsInjective
<1>5. IsFiniteSet(Mine(t, c)) /\ Cardinality(Mine(t, c)) \in Nat
  BY <1>1, MineFinite
<1>6. IsFiniteSet(Mine(s, c)) /\ Cardinality(Mine(s, c)) \in Nat
  BY MineFinite
<1>7. Cardinality(Mine(t, c)) = Cardinality(rest)
  <2> HIDE DEF f, rest
  <2>1. ExistsBijection(Mine(t, c), rest)
    BY <1>4 DEF ExistsBijection
  <2> QED
    BY <1>5, <2>1, FS_Bijection
<1>8. CASE Head(s).caller = c
  <2>1. 1 \in Mine(s, c)
    BY <1>1, <1>8 DEF Mine
  <2>2. Cardinality(rest) = Cardinality(Mine(s, c)) - 1
    BY <1>6, <2>1, FS_RemoveElement
  <2> QED
    BY <1>7, <1>8, <2>2 DEF t
<1>9. CASE Head(s).caller # c
  <2>1. rest = Mine(s, c)
    BY <1>1, <1>9 DEF Mine
  <2>2. Cardinality(Mine(t, c)) = Cardinality(Mine(s, c))
    BY <1>7, <2>1
  <2> HIDE DEF rest
  <2> QED
    BY <1>6, <1>9, <2>2 DEF t
<1> QED
  BY <1>8, <1>9
LEMMA CountedTyped ==
  ASSUME CompressorTypeOK, NEW c \in Callers, IsFiniteSet(AtWork(c))
  PROVE  /\ \A q \in Channels : Cardinality(Mine(queue[q], c)) \in Nat
         /\ Cardinality(AtWork(c)) \in Nat /\ Len(ch_out[c]) \in Nat
         /\ Counted(c) \in Nat /\ Counted(c) >= Len(ch_out[c])
<1>1. \A q \in Channels : Cardinality(Mine(queue[q], c)) \in Nat
  <2> SUFFICES ASSUME NEW q \in Channels PROVE Cardinality(Mine(queue[q], c)) \in Nat
    OBVIOUS
  <2>1. queue[q] \in Seq(Block)
    BY DEF CompressorTypeOK
  <2> QED
    BY <2>1, MineFinite
<1>2. Cardinality(AtWork(c)) \in Nat
  BY FS_CardinalityType
<1>3. Len(ch_out[c]) \in Nat
  <2>1. ch_out[c] \in Seq([piece : Nat, size : Size])
    BY DEF CompressorTypeOK
  <2> QED
    BY <2>1, LenProperties
<1> QED
  BY <1>1, <1>2, <1>3, ChannelsKnown DEF Counted

LEMMA PutCounted ==
  ASSUME CompressorTypeOK, NEW c \in Callers, NEW q \in Channels, Put(q, c),
         UNCHANGED <<worker, ch_out>>
  PROVE  /\ queue' = [queue EXCEPT ![q] = Append(queue[q], [caller |-> c, piece |-> piece_no[c]])]
         /\ [caller |-> c, piece |-> piece_no[c]] \in Block
         /\ \A d \in Callers :
              /\ AtWork(d)' = AtWork(d)
              /\ IsFiniteSet(AtWork(d)) =>
                   Counted(d)' = Counted(d) + IF d = c THEN 1 ELSE 0
<1> DEFINE b == [caller |-> c, piece |-> piece_no[c]]
<1>1. queue' = [queue EXCEPT ![q] = Append(queue[q], b)]
  BY DEF Put
<1>2. b \in Block
  BY DEF CompressorTypeOK, Block
<1>3. ASSUME NEW d \in Callers PROVE AtWork(d)' = AtWork(d)
  BY DEF AtWork
<1>4. ASSUME NEW d \in Callers, IsFiniteSet(AtWork(d))
      PROVE  Counted(d)' = Counted(d) + IF d = c THEN 1 ELSE 0
  <2>1. queue \in [Channels -> Seq(Block)] /\ queue[q] \in Seq(Block)
    BY DEF CompressorTypeOK
  <2>2. Cardinality(Mine(Append(queue[q], b), d)) =
          Cardinality(Mine(queue[q], d)) + IF b.caller = d THEN 1 ELSE 0
    BY <1>2, <2>1, MineAppend
  <2>3. /\ queue'[q] = Append(queue[q], b)
        /\ \A r \in Channels : r # q => queue'[r] = queue[r]
    BY <1>1, <2>1
  <2>4. b.caller = c
    OBVIOUS
  <2> HIDE DEF b
  <2>5. Cardinality(Mine(queue'[q], d)) = Cardinality(Mine(queue[q], d)) + IF d = c THEN 1 ELSE 0
    BY <2>2, <2>3, <2>4
  <2>6. \A r \in Channels : r # q => Mine(queue'[r], d) = Mine(queue[r], d)
    BY <2>3
  <2>7. Counted(d)' = Cardinality(Mine(queue'["normal"], d)) + Cardinality(Mine(queue'["fast"], d))
                        + Cardinality(AtWork(d)) + Len(ch_out[d])
    BY <1>3 DEF Counted
  <2>8. /\ \A r \in Channels : Cardinality(Mine(queue[r], d)) \in Nat
        /\ Cardinality(AtWork(d)) \in Nat /\ Len(ch_out[d]) \in Nat
    BY <1>4, CountedTyped
  <2>9. CASE q = "normal"
    <3>1. Mine(queue'["fast"], d) = Mine(queue["fast"], d)
      BY <2>6, <2>9, ChannelsKnown
    <3> QED
      BY <2>5, <2>7, <2>8, <2>9, <3>1, ChannelsKnown DEF Counted
  <2>10. CASE q = "fast"
    <3>1. Mine(queue'["normal"], d) = Mine(queue["normal"], d)
      BY <2>6, <2>10, ChannelsKnown
    <3> QED
      BY <2>5, <2>7, <2>8, <2>10, <3>1, ChannelsKnown DEF Counted
  <2> QED
    BY <2>9, <2>10, ChannelsKnown
<1> QED
  BY <1>1, <1>2, <1>3, <1>4

LEMMA GotCounted ==
  ASSUME CompressorTypeOK, NEW c \in Callers, ch_out[c] # <<>>,
         ch_out' = [ch_out EXCEPT ![c] = Tail(ch_out[c])],
         UNCHANGED <<worker, queue>>
  PROVE  /\ Got(c) \in [piece : Nat, size : Size]
         /\ ch_out' \in [Callers -> Seq([piece : Nat, size : Size])]
         /\ Len(ch_out[c]) >= 1
         /\ \A d \in Callers : Len(ch_out'[d]) = Len(ch_out[d]) - IF d = c THEN 1 ELSE 0
         /\ \A d \in Callers :
              /\ AtWork(d)' = AtWork(d)
              /\ IsFiniteSet(AtWork(d)) =>
                   Counted(d)' = Counted(d) - IF d = c THEN 1 ELSE 0
<1> DEFINE R == [piece : Nat, size : Size]
<1>1. ch_out \in [Callers -> Seq(R)] /\ \A d \in Callers : ch_out[d] \in Seq(R)
  BY DEF CompressorTypeOK
<1> HIDE DEF R
<1>2. /\ Len(ch_out[c]) \in Nat /\ Len(ch_out[c]) >= 1
      /\ Head(ch_out[c]) \in R /\ Tail(ch_out[c]) \in Seq(R)
      /\ Len(Tail(ch_out[c])) = Len(ch_out[c]) - 1
  <2>1. Len(ch_out[c]) \in Nat /\ Len(ch_out[c]) # 0
    BY <1>1, LenProperties, EmptySeq
  <2> QED
    BY <1>1, <2>1, HeadTailProperties
<1>3. ch_out'[c] = Tail(ch_out[c]) /\ \A d \in Callers : d # c => ch_out'[d] = ch_out[d]
  BY <1>1
<1>4. \A d \in Callers : Len(ch_out[d]) \in Nat
  BY <1>1, LenProperties
<1>5. ASSUME NEW d \in Callers PROVE Len(ch_out'[d]) = Len(ch_out[d]) - IF d = c THEN 1 ELSE 0
  <2>1. CASE d = c
    <3>1. Len(ch_out'[d]) = Len(ch_out[d]) - 1
      BY <1>2, <1>3, <2>1
    <3> QED
      BY <2>1, <3>1
  <2>2. CASE d # c
    <3>1. ch_out'[d] = ch_out[d]
      BY <1>3, <2>2
    <3>2. Len(ch_out[d]) \in Nat
      BY <1>4
    <3> QED
      BY <2>2, <3>1, <3>2
  <2> QED
    BY <2>1, <2>2
<1>6. ASSUME NEW d \in Callers PROVE AtWork(d)' = AtWork(d)
  BY DEF AtWork
<1>7. ASSUME NEW d \in Callers, IsFiniteSet(AtWork(d))
      PROVE  Counted(d)' = Counted(d) - IF d = c THEN 1 ELSE 0
  <2>1. Counted(d)' = Cardinality(Mine(queue["normal"], d)) + Cardinality(Mine(queue["fast"], d))
                        + Cardinality(AtWork(d)) + Len(ch_out'[d])
    BY <1>6 DEF Counted
  <2>2. /\ Cardinality(Mine(queue["normal"], d)) \in Nat /\ Cardinality(Mine(queue["fast"], d)) \in Nat
        /\ Cardinality(AtWork(d)) \in Nat
    BY <1>7, CountedTyped, ChannelsKnown
  <2>3. PICK k \in Int : k = IF d = c THEN 1 ELSE 0
    OBVIOUS
  <2>4. Len(ch_out'[d]) = Len(ch_out[d]) - k /\ Len(ch_out[d]) \in Nat
    BY <1>4, <1>5, <2>3
  <2>5. Counted(d)' = Counted(d) - k
    BY <2>1, <2>2, <2>4 DEF Counted
  <2> QED
    BY <2>3, <2>5
<1>8. ch_out' \in [Callers -> Seq(R)]
  BY <1>1, <1>2
<1> QED
  BY <1>2, <1>5, <1>6, <1>7, <1>8 DEF Got, R

(* What a thread takes it has taken from a queue.                          *)
LEMMA TakeCounted ==
  ASSUME CompressorTypeOK, NEW w \in Threads, Take(w)
  PROVE  /\ worker' \in [Threads -> [caller : Callers, piece : Nat, size : Size] \cup {Nil}]
         /\ queue' \in [Channels -> Seq(Block)]
         /\ \A q \in Channels : Len(queue'[q]) <= Len(queue[q])
         /\ \A d \in Callers :
              IsFiniteSet(AtWork(d)) => IsFiniteSet(AtWork(d)') /\ Counted(d)' = Counted(d)
<1> DEFINE q == ChannelOf(w)
           s == queue[q]
           b == Head(s)
<1>1. /\ worker[w] = Nil /\ q \in Channels /\ queue \in [Channels -> Seq(Block)]
      /\ s \in Seq(Block) /\ s # <<>> /\ queue' = [queue EXCEPT ![q] = Tail(s)]
  BY ChannelsKnown DEF Take, CompressorTypeOK
<1>2. PICK n \in Results(b) : worker' = [worker EXCEPT ![w] = [caller |-> b.caller, piece |-> b.piece, size |-> n]]
  BY DEF Take
<1> HIDE DEF q, s
<1>3. b \in Block /\ Tail(s) \in Seq(Block) /\ Len(Tail(s)) = Len(s) - 1 /\ Len(s) \in Nat
  BY <1>1, HeadTailProperties, LenProperties
<1> HIDE DEF b
<1>4. n \in Size
  BY DEF Results, Size
<1> DEFINE r == [caller |-> b.caller, piece |-> b.piece, size |-> n]
<1>5. r \in [caller : Callers, piece : Nat, size : Size] /\ r.caller = b.caller
  BY <1>3, <1>4 DEF Block
<1>6. r # Nil
  <2>1. Size \subseteq Int
    BY CompressorAssumption DEF Size
  <2> QED
    BY <1>5, <2>1, CompressorAssumption
<1> HIDE DEF r
<1>7. worker \in [Threads -> [caller : Callers, piece : Nat, size : Size] \cup {Nil}] /\ worker' = [worker EXCEPT ![w] = r]
  BY <1>2 DEF CompressorTypeOK, r
<1>8. /\ queue'[q] = Tail(s) /\ queue[q] = s
      /\ \A p \in Channels : p # q => queue'[p] = queue[p]
  BY <1>1 DEF s
<1>9. \A p \in Channels : Len(queue[p]) \in Nat
  BY LenProperties, <1>1
<1>10. \A p \in Channels : Len(queue'[p]) <= Len(queue[p])
  BY <1>3, <1>8, <1>9
<1>11. ASSUME NEW d \in Callers
       PROVE  AtWork(d)' = AtWork(d) \cup (IF b.caller = d THEN {w} ELSE {}) /\ w \notin AtWork(d)
  <2>1. w \notin AtWork(d)
    BY <1>1 DEF AtWork
  <2>2. worker'[w] = r /\ \A v \in Threads : v # w => worker'[v] = worker[v]
    BY <1>7
  <2> QED
    BY <1>5, <1>6, <2>1, <2>2 DEF AtWork
<1>12. ASSUME NEW d \in Callers, IsFiniteSet(AtWork(d))
       PROVE  IsFiniteSet(AtWork(d)') /\ Counted(d)' = Counted(d)
  <2> DEFINE k == IF b.caller = d THEN 1 ELSE 0
  <2>1. /\ IsFiniteSet(AtWork(d)') /\ Cardinality(AtWork(d)) \in Nat
        /\ Cardinality(AtWork(d)') = Cardinality(AtWork(d)) + k
    <3>1. CASE b.caller = d
      <4>1. AtWork(d)' = AtWork(d) \cup {w} /\ w \notin AtWork(d)
        BY <1>11, <3>1
      <4> QED
        BY <1>12, <3>1, <4>1, FS_AddElement, FS_CardinalityType
    <3>2. CASE b.caller # d
      <4>1. AtWork(d)' = AtWork(d)
        BY <1>11, <3>2
      <4>2. Cardinality(AtWork(d)) \in Nat
        BY <1>12, FS_CardinalityType
      <4> QED
        BY <1>12, <3>2, <4>1, <4>2
    <3> QED
      BY <3>1, <3>2
  <2>2. Cardinality(Mine(Tail(s), d)) = Cardinality(Mine(s, d)) - k
    BY <1>1, MineTail DEF b
  <2>3. k \in Int
    OBVIOUS
  <2> HIDE DEF k
  <2>4. /\ Cardinality(Mine(queue'[q], d)) = Cardinality(Mine(queue[q], d)) - k
        /\ \A p \in Channels : p # q => Mine(queue'[p], d) = Mine(queue[p], d)
    BY <1>8, <2>2
  <2>5. Counted(d)' = Cardinality(Mine(queue'["normal"], d)) + Cardinality(Mine(queue'["fast"], d))
                        + Cardinality(AtWork(d)') + Len(ch_out[d])
    BY DEF Counted, Take
  <2>6. /\ \A p \in Channels : Cardinality(Mine(queue[p], d)) \in Nat
        /\ Len(ch_out[d]) \in Nat
    BY <1>12, CountedTyped
  <2>7. CASE q = "normal"
    <3>1. Mine(queue'["fast"], d) = Mine(queue["fast"], d)
      BY <2>4, <2>7, ChannelsKnown
    <3> QED
      BY <2>1, <2>3, <2>4, <2>5, <2>6, <2>7, <3>1, ChannelsKnown DEF Counted
  <2>8. CASE q = "fast"
    <3>1. Mine(queue'["normal"], d) = Mine(queue["normal"], d)
      BY <2>4, <2>8, ChannelsKnown
    <3> QED
      BY <2>1, <2>3, <2>4, <2>5, <2>6, <2>8, <3>1, ChannelsKnown DEF Counted
  <2> QED
    BY <1>1, <2>1, <2>7, <2>8, ChannelsKnown
<1>13. queue' \in [Channels -> Seq(Block)]
  BY <1>1, <1>3
<1>14. worker' \in [Threads -> [caller : Callers, piece : Nat, size : Size] \cup {Nil}]
  BY <1>5, <1>7
<1> QED
  BY <1>10, <1>12, <1>13, <1>14

(* What a thread is done with is in its caller's channel.                  *)
LEMMA DoneCounted ==
  ASSUME CompressorTypeOK, NEW w \in Threads, Done(w)
  PROVE  /\ worker' \in [Threads -> [caller : Callers, piece : Nat, size : Size] \cup {Nil}]
         /\ ch_out' \in [Callers -> Seq([piece : Nat, size : Size])]
         /\ \A d \in Callers :
              /\ Len(ch_out'[d]) <= OutCap
              /\ IsFiniteSet(AtWork(d)) => IsFiniteSet(AtWork(d)') /\ Counted(d)' = Counted(d)
<1> DEFINE R == [piece : Nat, size : Size]
           b == worker[w]
           o == [piece |-> b.piece, size |-> b.size]
           c == b.caller
           s == ch_out[c]
<1>1. b \in [caller : Callers, piece : Nat, size : Size] /\ b # Nil
  BY DEF Done, CompressorTypeOK
<1>2. o \in R /\ c \in Callers
  BY <1>1
<1>3. /\ ch_out \in [Callers -> Seq(R)] /\ s \in Seq(R)
      /\ ch_out' = [ch_out EXCEPT ![c] = Append(s, o)]
  BY <1>2 DEF Done, Give, CompressorTypeOK
<1>4. Len(s) < OutCap
  <2>1. ChannelRoom(c) <= OutCap
    BY CapsTyped DEF ChannelRoom
  <2>2. Len(s) < ChannelRoom(c) /\ ChannelRoom(c) \in Int /\ OutCap \in Int
    BY CapsTyped DEF Done, ChannelRoom
  <2>3. Len(s) \in Nat
    BY <1>3, LenProperties
  <2> QED
    BY <2>1, <2>2, <2>3
<1>5. worker \in [Threads -> [caller : Callers, piece : Nat, size : Size] \cup {Nil}] /\ worker' = [worker EXCEPT ![w] = Nil]
  BY DEF Done, CompressorTypeOK
<1>6. UNCHANGED queue
  BY DEF Done
<1> HIDE DEF o, R
<1>7. Append(s, o) \in Seq(R) /\ Len(Append(s, o)) = Len(s) + 1 /\ Len(s) \in Nat
  BY <1>2, <1>3, AppendProperties, LenProperties
<1>8. /\ ch_out'[c] = Append(s, o) /\ ch_out[c] = s
      /\ \A d \in Callers : d # c => ch_out'[d] = ch_out[d]
  BY <1>2, <1>3
<1>9. ASSUME NEW d \in Callers PROVE Len(ch_out'[d]) <= OutCap
  <2>1. Len(ch_out[d]) <= OutCap
    BY DEF CompressorTypeOK
  <2> QED
    BY <1>4, <1>7, <1>8, <2>1, CapsTyped
<1>10. ASSUME NEW d \in Callers
       PROVE  AtWork(d)' = AtWork(d) \ (IF c = d THEN {w} ELSE {}) /\ (c = d => w \in AtWork(d))
  <2>1. worker'[w] = Nil /\ \A v \in Threads : v # w => worker'[v] = worker[v]
    BY <1>5
  <2>2. c = d => w \in AtWork(d)
    BY <1>1 DEF AtWork
  <2>3. c # d => w \notin AtWork(d)
    BY DEF AtWork
  <2> QED
    BY <2>1, <2>2, <2>3 DEF AtWork
<1> HIDE DEF b, c, s
<1>11. ASSUME NEW d \in Callers, IsFiniteSet(AtWork(d))
       PROVE  IsFiniteSet(AtWork(d)') /\ Counted(d)' = Counted(d)
  <2> DEFINE k == IF c = d THEN 1 ELSE 0
  <2>1. /\ IsFiniteSet(AtWork(d)') /\ Cardinality(AtWork(d)) \in Nat
        /\ Cardinality(AtWork(d)') = Cardinality(AtWork(d)) - k
    <3>1. CASE c = d
      <4>1. AtWork(d)' = AtWork(d) \ {w} /\ w \in AtWork(d)
        BY <1>10, <3>1
      <4> QED
        BY <1>11, <3>1, <4>1, FS_RemoveElement, FS_CardinalityType
    <3>2. CASE c # d
      <4>1. AtWork(d)' = AtWork(d)
        BY <1>10, <3>2
      <4>2. Cardinality(AtWork(d)) \in Nat
        BY <1>11, FS_CardinalityType
      <4> QED
        BY <1>11, <3>2, <4>1, <4>2
    <3> QED
      BY <3>1, <3>2
  <2>2. Len(ch_out'[d]) = Len(ch_out[d]) + k
    <3>1. Len(ch_out[d]) \in Nat
      BY <1>11, CountedTyped
    <3>2. CASE c = d
      <4>1. Len(ch_out'[d]) = Len(ch_out[d]) + 1
        BY <1>7, <1>8, <3>2
      <4> QED
        BY <3>2, <4>1
    <3>3. CASE c # d
      <4>1. ch_out'[d] = ch_out[d]
        BY <1>8, <3>3
      <4> QED
        BY <3>1, <3>3, <4>1
    <3> QED
      BY <3>2, <3>3
  <2>3. k \in Int
    OBVIOUS
  <2> HIDE DEF k
  <2>4. Counted(d)' = Cardinality(Mine(queue["normal"], d)) + Cardinality(Mine(queue["fast"], d))
                        + Cardinality(AtWork(d)') + Len(ch_out'[d])
    BY <1>6 DEF Counted
  <2>5. /\ Cardinality(Mine(queue["normal"], d)) \in Nat /\ Cardinality(Mine(queue["fast"], d)) \in Nat
        /\ Len(ch_out[d]) \in Nat
    BY <1>11, CountedTyped, ChannelsKnown
  <2> QED
    BY <2>1, <2>2, <2>3, <2>4, <2>5 DEF Counted
<1>12. ch_out' \in [Callers -> Seq(R)]
  BY <1>2, <1>3, <1>7
<1>13. worker' \in [Threads -> [caller : Callers, piece : Nat, size : Size] \cup {Nil}]
  BY <1>5
<1> QED
  BY <1>9, <1>11, <1>12, <1>13 DEF R
(* The parts of the types that get_next_piece touches.                     *)
LEMMA GotTyped ==
  ASSUME CompressorTypeOK, CountInv, NEW c \in Callers, GetNextPiece(c), UNCHANGED <<worker, queue>>
  PROVE  /\ in_progress' \in [Callers -> 0 .. MaxInProgress]
         /\ in_progress'[c] = in_progress[c] - 1 /\ in_progress[c] \in Nat
         /\ is_broken' \in [Callers -> BOOLEAN] /\ total' \in [Callers -> Nat]
         /\ ch_out' \in [Callers -> Seq([piece : Nat, size : Size])]
         /\ \A d \in Callers :
              /\ Len(ch_out'[d]) <= OutCap
              /\ d # c => in_progress'[d] = in_progress[d]
              /\ IsFiniteSet(AtWork(d)') /\ in_progress'[d] = Counted(d)'
<1>1. /\ ch_out[c] # <<>> /\ ch_out' = [ch_out EXCEPT ![c] = Tail(ch_out[c])]
      /\ in_progress' = [in_progress EXCEPT ![c] = in_progress[c] - 1]
      /\ total' = [total EXCEPT ![c] = total[c] + IF Got(c).size < 0 THEN 0 ELSE Got(c).size]
      /\ is_broken' = [is_broken EXCEPT ![c] = is_broken[c] \/ Got(c).size < 0]
  BY DEF GetNextPiece
<1>2. /\ Got(c) \in [piece : Nat, size : Size] /\ Len(ch_out[c]) >= 1
      /\ ch_out' \in [Callers -> Seq([piece : Nat, size : Size])]
      /\ \A d \in Callers :
           /\ Len(ch_out'[d]) = Len(ch_out[d]) - IF d = c THEN 1 ELSE 0
           /\ AtWork(d)' = AtWork(d)
           /\ IsFiniteSet(AtWork(d)) => Counted(d)' = Counted(d) - IF d = c THEN 1 ELSE 0
  BY <1>1, GotCounted
<1>3. \A d \in Callers : /\ IsFiniteSet(AtWork(d)) /\ Len(ch_out[d]) \in Nat
                         /\ Counted(d) \in Nat /\ Counted(d) >= Len(ch_out[d])
                         /\ in_progress[d] = Counted(d)
  BY CountedTyped DEF CountInv
<1>4. in_progress \in [Callers -> 0 .. MaxInProgress] /\ \A d \in Callers : in_progress[d] \in Nat
  BY CapsTyped DEF CompressorTypeOK
<1>5. in_progress[c] >= 1
  BY <1>2, <1>3
<1>6. /\ in_progress' \in [Callers -> 0 .. MaxInProgress]
      /\ in_progress'[c] = in_progress[c] - 1
      /\ \A d \in Callers : d # c => in_progress'[d] = in_progress[d]
  <2>1. in_progress[c] - 1 \in 0 .. MaxInProgress
    BY <1>4, <1>5, CapsTyped
  <2> QED
    BY <1>1, <1>4, <2>1
<1>7. ASSUME NEW d \in Callers
      PROVE  /\ Len(ch_out'[d]) <= OutCap
             /\ IsFiniteSet(AtWork(d)') /\ in_progress'[d] = Counted(d)'
  <2>1. Len(ch_out[d]) <= OutCap /\ OutCap \in Nat
    BY CapsTyped DEF CompressorTypeOK
  <2>2. PICK k \in Nat : k = IF d = c THEN 1 ELSE 0
    OBVIOUS
  <2>3. in_progress'[d] = in_progress[d] - k
    BY <1>4, <1>6, <2>2
  <2>4. Len(ch_out'[d]) = Len(ch_out[d]) - k /\ Counted(d)' = Counted(d) - k
    BY <1>2, <1>3, <2>2
  <2>5. Len(ch_out'[d]) <= OutCap
    BY <1>3, <2>1, <2>2, <2>4
  <2>6. IsFiniteSet(AtWork(d)')
    BY <1>2, <1>3
  <2>7. in_progress'[d] = Counted(d)'
    BY <1>3, <2>3, <2>4
  <2> QED
    BY <2>5, <2>6, <2>7
<1>8. is_broken' \in [Callers -> BOOLEAN]
  BY <1>1 DEF CompressorTypeOK
<1>9. total' \in [Callers -> Nat]
  <2>1. total \in [Callers -> Nat]
    BY DEF CompressorTypeOK
  <2>2. Got(c).size \in Int
    <3>1. Size \subseteq Int /\ Got(c).size \in Size
      BY <1>2, CompressorAssumption DEF Size
    <3> QED
      BY <3>1
  <2>3. PICK n \in Nat : n = IF Got(c).size < 0 THEN 0 ELSE Got(c).size
    BY <2>2
  <2>4. total' = [total EXCEPT ![c] = total[c] + n]
    BY <1>1, <2>3
  <2> QED
    BY <2>1, <2>4
<1> QED
  BY <1>2, <1>4, <1>6, <1>7, <1>8, <1>9

(* What is not about pc, counters and channels.                            *)
LEMMA SentTyped ==
  ASSUME CompressorTypeOK, CountInv, NEW c \in Callers, NEW q \in Channels, Put(q, c),
         NEW n \in Nat, n = in_progress[c] + 1, n <= MaxInProgress,
         in_progress' = [in_progress EXCEPT ![c] = n],
         q = "normal" => Len(queue[q]) < QueueCap,
         q = "fast" => Len(queue[q]) < FastCap,
         UNCHANGED <<worker, ch_out>>
  PROVE  /\ in_progress' \in [Callers -> 0 .. MaxInProgress]
         /\ queue' \in [Channels -> Seq(Block)]
         /\ Len(queue'["normal"]) <= QueueCap /\ Len(queue'["fast"]) <= FastCap
         /\ in_progress'[c] = n
         /\ \A d \in Callers :
              /\ d # c => in_progress'[d] = in_progress[d]
              /\ IsFiniteSet(AtWork(d)') /\ in_progress'[d] = Counted(d)'
<1> DEFINE b == [caller |-> c, piece |-> piece_no[c]]
<1>1. /\ queue' = [queue EXCEPT ![q] = Append(queue[q], b)] /\ b \in Block
      /\ \A d \in Callers :
           /\ AtWork(d)' = AtWork(d)
           /\ IsFiniteSet(AtWork(d)) => Counted(d)' = Counted(d) + IF d = c THEN 1 ELSE 0
  BY PutCounted
<1> HIDE DEF b
<1>2. queue \in [Channels -> Seq(Block)] /\ in_progress \in [Callers -> 0 .. MaxInProgress]
  BY DEF CompressorTypeOK
<1>3. Append(queue[q], b) \in Seq(Block) /\ Len(Append(queue[q], b)) = Len(queue[q]) + 1 /\ Len(queue[q]) \in Nat
  BY <1>1, <1>2, AppendProperties, LenProperties
<1>4. queue' \in [Channels -> Seq(Block)]
  BY <1>1, <1>2, <1>3
<1>5. Len(queue'["normal"]) <= QueueCap /\ Len(queue'["fast"]) <= FastCap
  <2>1. Len(queue["normal"]) <= QueueCap /\ Len(queue["fast"]) <= FastCap
    BY DEF CompressorTypeOK
  <2>2. /\ queue'[q] = Append(queue[q], b)
        /\ \A r \in Channels : r # q => queue'[r] = queue[r]
    BY <1>1, <1>2
  <2>3. CASE q = "normal"
    <3>1. queue'["fast"] = queue["fast"]
      BY <2>2, <2>3, ChannelsKnown
    <3>2. Len(queue'["normal"]) <= QueueCap
      BY <1>3, <2>2, <2>3, CapsTyped
    <3> QED
      BY <2>1, <3>1, <3>2
  <2>4. CASE q = "fast"
    <3>1. queue'["normal"] = queue["normal"]
      BY <2>2, <2>4, ChannelsKnown
    <3>2. Len(queue'["fast"]) <= FastCap
      BY <1>3, <2>2, <2>4, CapsTyped
    <3> QED
      BY <2>1, <3>1, <3>2
  <2> QED
    BY <2>3, <2>4, ChannelsKnown
<1>6. /\ in_progress' \in [Callers -> 0 .. MaxInProgress] /\ in_progress'[c] = n
      /\ \A d \in Callers : d # c => in_progress'[d] = in_progress[d]
  BY <1>2, CapsTyped
<1>7. ASSUME NEW d \in Callers
      PROVE  IsFiniteSet(AtWork(d)') /\ in_progress'[d] = Counted(d)'
  <2>1. IsFiniteSet(AtWork(d)) /\ in_progress[d] = Counted(d)
    BY DEF CountInv
  <2>2. Counted(d) \in Nat
    BY <2>1, CountedTyped
  <2>3. CASE d = c
    <3>1. Counted(d)' = Counted(d) + 1
      BY <1>1, <2>1, <2>3
    <3> QED
      BY <1>1, <1>6, <2>1, <2>3, <3>1
  <2>4. CASE d # c
    <3>1. Counted(d)' = Counted(d) + 0
      BY <1>1, <2>1, <2>4
    <3> QED
      BY <1>1, <1>6, <2>1, <2>2, <2>4, <3>1
  <2> QED
    BY <2>3, <2>4
<1> QED
  BY <1>4, <1>5, <1>6, <1>7

LEMMA BlocksTyped ==
  ASSUME NEW len \in Nat
  PROVE  Blocks(len) \in Nat /\ Blocks(len) * BlockSize >= len
         /\ (Blocks(len) > 0 => (Blocks(len) - 1) * BlockSize < len)
         /\ (len > 0 => Blocks(len) >= 1)
<1>1. PICK n \in Nat : n = len + BlockSize - 1
  BY CapsTyped
<1>2. Blocks(len) = n \div BlockSize
  BY <1>1 DEF Blocks
<1>3. PICK k \in Int : k = n \div BlockSize
  BY CapsTyped
<1>4. /\ k >= 0 /\ k * BlockSize <= n /\ n < (k + 1) * BlockSize
  BY <1>1, <1>3, CapsTyped, Division
<1> QED
  BY <1>1, <1>2, <1>3, <1>4, CapsTyped
LEMMA NextCount ==
  ASSUME CompressorTypeOK, CountInv, [CompressorNext]_compressorVars
  PROVE  CompressorTypeOK' /\ CountInv'
<1>1. ASSUME NEW c \in Callers, Begin(c) PROVE CompressorTypeOK' /\ CountInv'
  <2>1. PICK len \in Lengths[c] :
          /\ stage[c] = "idle" /\ length' = [length EXCEPT ![c] = len]
          /\ stage' = [stage EXCEPT ![c] = IF Short(len) THEN "fast" ELSE "send"]
          /\ UNCHANGED <<piece_no, in_progress, is_broken, total, ch_out, queue, worker>>
    BY <1>1 DEF Begin
  <2>2. len \in Nat
    BY CompressorAssumption
  <2>3. CompressorTypeOK'
    BY <2>1, <2>2 DEF CompressorTypeOK
  <2>4. \A d \in Callers : AtWork(d)' = AtWork(d) /\ Counted(d)' = Counted(d)
    BY <2>1 DEF AtWork, Counted
  <2>5. /\ in_progress[c] = 0
        /\ \A d \in Callers : d # c => stage'[d] = stage[d]
    BY <2>1 DEF CountInv, CompressorTypeOK
  <2>6. CountInv'
    BY <2>1, <2>4, <2>5, CapsTyped DEF CountInv
  <2> QED
    BY <2>3, <2>6
<1>2. ASSUME NEW c \in Callers, SendFast(c) PROVE CompressorTypeOK' /\ CountInv'
  <2>1. /\ stage[c] = "fast" /\ Len(queue["fast"]) < FastCap /\ Put("fast", c)
        /\ piece_no' = [piece_no EXCEPT ![c] = 1]
        /\ in_progress' = [in_progress EXCEPT ![c] = 1]
        /\ stage' = [stage EXCEPT ![c] = "wait"]
        /\ UNCHANGED <<length, is_broken, total, chunks, ch_out, worker>>
    BY <1>2 DEF SendFast
  <2>2. in_progress[c] = 0
    BY <2>1 DEF CountInv
  <2>3. PICK n \in Nat : n = 1
    OBVIOUS
  <2>4. n = in_progress[c] + 1 /\ n <= MaxInProgress /\ in_progress' = [in_progress EXCEPT ![c] = n]
    BY <2>1, <2>2, <2>3, CapsTyped
  <2>5. /\ in_progress' \in [Callers -> 0 .. MaxInProgress]
        /\ queue' \in [Channels -> Seq(Block)]
        /\ Len(queue'["normal"]) <= QueueCap /\ Len(queue'["fast"]) <= FastCap
        /\ \A d \in Callers :
             /\ d # c => in_progress'[d] = in_progress[d]
             /\ IsFiniteSet(AtWork(d)') /\ in_progress'[d] = Counted(d)'
    BY <2>1, <2>4, ChannelsKnown, SentTyped
  <2>6. CompressorTypeOK'
    BY <2>1, <2>5 DEF CompressorTypeOK
  <2>7. stage'[c] = "wait" /\ \A d \in Callers : d # c => stage'[d] = stage[d]
    BY <2>1 DEF CompressorTypeOK
  <2>8. CountInv'
    BY <2>5, <2>7 DEF CountInv
  <2> QED
    BY <2>6, <2>8
<1>3. ASSUME NEW c \in Callers, SendPiece(c) PROVE CompressorTypeOK' /\ CountInv'
  <2>1. /\ stage[c] = "send" /\ Len(queue["normal"]) < QueueCap /\ Put("normal", c)
        /\ piece_no' = [piece_no EXCEPT ![c] = piece_no[c] + 1]
        /\ in_progress' = [in_progress EXCEPT ![c] = in_progress[c] + 1]
        /\ stage' = [stage EXCEPT ![c] = AfterSending(c)]
        /\ UNCHANGED <<length, is_broken, total, chunks, ch_out, worker>>
    BY <1>3 DEF SendPiece
  <2>2. in_progress[c] \in Nat /\ in_progress[c] < MaxInProgress
    BY <2>1, CapsTyped DEF CountInv, CompressorTypeOK
  <2>3. PICK n \in Nat : n = in_progress[c] + 1
    BY <2>2
  <2>4. n <= MaxInProgress /\ in_progress' = [in_progress EXCEPT ![c] = n]
    BY <2>1, <2>2, <2>3, CapsTyped
  <2>5. /\ in_progress' \in [Callers -> 0 .. MaxInProgress]
        /\ queue' \in [Channels -> Seq(Block)]
        /\ Len(queue'["normal"]) <= QueueCap /\ Len(queue'["fast"]) <= FastCap
        /\ in_progress'[c] = n
        /\ \A d \in Callers :
             /\ d # c => in_progress'[d] = in_progress[d]
             /\ IsFiniteSet(AtWork(d)') /\ in_progress'[d] = Counted(d)'
    BY <2>1, <2>3, <2>4, ChannelsKnown, SentTyped
  <2>6. /\ AfterSending(c) \in {"get", "drain", "send"}
        /\ AfterSending(c) = "send" => n < MaxInProgress
    BY <2>3, <2>5, CapsTyped DEF AfterSending
  <2>7. piece_no' \in [Callers -> Nat] /\ stage' \in [Callers -> {"idle", "fast", "wait", "send", "get", "drain"}]
    BY <2>1, <2>6 DEF CompressorTypeOK
  <2>8. CompressorTypeOK'
    BY <2>1, <2>5, <2>7 DEF CompressorTypeOK
  <2>9. stage'[c] = AfterSending(c) /\ \A d \in Callers : d # c => stage'[d] = stage[d]
    BY <2>1 DEF CompressorTypeOK
  <2>10. CountInv'
    <3> SUFFICES ASSUME NEW d \in Callers
                 PROVE  /\ stage'[d] = "send" => in_progress'[d] < MaxInProgress
                        /\ stage'[d] \in {"idle", "fast"} => in_progress'[d] = 0
      BY <2>5 DEF CountInv
    <3>1. CASE d = c
      BY <2>5, <2>6, <2>9, <3>1
    <3>2. CASE d # c
      BY <2>5, <2>9, <3>2 DEF CountInv
    <3> QED
      BY <3>1, <3>2
  <2> QED
    BY <2>8, <2>10
<1>4. ASSUME NEW c \in Callers, NEW next \in {"drain", "send"}, GetNextPiece(c),
             stage[c] \in {"wait", "get", "drain"},
             stage' = [stage EXCEPT ![c] = next], UNCHANGED <<length, piece_no, queue, worker>>
      PROVE  CompressorTypeOK' /\ CountInv'
  <2>1. /\ in_progress' \in [Callers -> 0 .. MaxInProgress]
        /\ in_progress'[c] = in_progress[c] - 1 /\ in_progress[c] \in Nat
        /\ is_broken' \in [Callers -> BOOLEAN] /\ total' \in [Callers -> Nat]
        /\ ch_out' \in [Callers -> Seq([piece : Nat, size : Size])]
        /\ \A d \in Callers :
             /\ Len(ch_out'[d]) <= OutCap
             /\ d # c => in_progress'[d] = in_progress[d]
             /\ IsFiniteSet(AtWork(d)') /\ in_progress'[d] = Counted(d)'
    BY <1>4, GotTyped
  <2>2. stage' \in [Callers -> {"idle", "fast", "wait", "send", "get", "drain"}]
        /\ stage'[c] = next /\ \A d \in Callers : d # c => stage'[d] = stage[d]
    BY <1>4 DEF CompressorTypeOK
  <2>3. CompressorTypeOK'
    BY <1>4, <2>1, <2>2 DEF CompressorTypeOK
  <2>4. CountInv'
    <3> SUFFICES ASSUME NEW d \in Callers
                 PROVE  /\ stage'[d] = "send" => in_progress'[d] < MaxInProgress
                        /\ stage'[d] \in {"idle", "fast"} => in_progress'[d] = 0
      BY <2>1 DEF CountInv
    <3>1. CASE d = c
      <4>1. in_progress[c] <= MaxInProgress
        BY DEF CompressorTypeOK
      <4>2. in_progress'[d] < MaxInProgress
        BY <2>1, <3>1, <4>1, CapsTyped
      <4>3. stage'[d] \notin {"idle", "fast"}
        BY <1>4, <2>2, <3>1
      <4> QED
        BY <4>2, <4>3
    <3>2. CASE d # c
      BY <2>1, <2>2, <3>2 DEF CountInv
    <3> QED
      BY <3>1, <3>2
  <2> QED
    BY <2>3, <2>4
<1>5. ASSUME NEW c \in Callers, GetPiece(c) PROVE CompressorTypeOK' /\ CountInv'
  <2>1. PICK next \in {"drain", "send"} : next = AfterGetting(c)
    BY DEF AfterGetting
  <2>2. /\ GetNextPiece(c) /\ stage[c] \in {"wait", "get", "drain"}
        /\ stage' = [stage EXCEPT ![c] = next] /\ UNCHANGED <<length, piece_no, queue, worker>>
    BY <1>5, <2>1 DEF GetPiece
  <2> QED
    BY <1>4, <2>2
<1>6. ASSUME NEW c \in Callers, GetFast(c) \/ Drain(c) PROVE CompressorTypeOK' /\ CountInv'
  <2>1. PICK next \in {"drain", "send"} : next = "drain"
    OBVIOUS
  <2>2. /\ GetNextPiece(c) /\ stage[c] \in {"wait", "get", "drain"}
        /\ stage' = [stage EXCEPT ![c] = next] /\ UNCHANGED <<length, piece_no, queue, worker>>
    BY <1>6, <2>1 DEF GetFast, Drain, CompressorTypeOK
  <2> QED
    BY <1>4, <2>2
<1>7. ASSUME NEW c \in Callers, Finish(c) PROVE CompressorTypeOK' /\ CountInv'
  <2>1. /\ in_progress[c] = 0
        /\ stage' = [stage EXCEPT ![c] = "idle"] /\ length' = [length EXCEPT ![c] = 0]
        /\ piece_no' = [piece_no EXCEPT ![c] = 0]
        /\ is_broken' = [is_broken EXCEPT ![c] = FALSE]
        /\ total' = [total EXCEPT ![c] = 0]
        /\ UNCHANGED <<in_progress, ch_out, queue, worker>>
    BY <1>7 DEF Finish, Ready
  <2>2. CompressorTypeOK'
    BY <2>1 DEF CompressorTypeOK
  <2>3. \A d \in Callers : AtWork(d)' = AtWork(d) /\ Counted(d)' = Counted(d)
    BY <2>1 DEF AtWork, Counted
  <2>4. stage'[c] = "idle" /\ \A d \in Callers : d # c => stage'[d] = stage[d]
    BY <2>1 DEF CompressorTypeOK
  <2>5. CountInv'
    BY <2>1, <2>3, <2>4 DEF CountInv
  <2> QED
    BY <2>2, <2>5
<1>8. ASSUME NEW w \in Threads, Take(w) PROVE CompressorTypeOK' /\ CountInv'
  <2>1. /\ worker' \in [Threads -> [caller : Callers, piece : Nat, size : Size] \cup {Nil}]
        /\ queue' \in [Channels -> Seq(Block)]
        /\ \A q \in Channels : Len(queue'[q]) <= Len(queue[q])
        /\ \A d \in Callers :
             IsFiniteSet(AtWork(d)) => IsFiniteSet(AtWork(d)') /\ Counted(d)' = Counted(d)
    BY <1>8, TakeCounted
  <2>2. UNCHANGED callerVars /\ UNCHANGED ch_out
    BY <1>8 DEF Take
  <2>3. Len(queue'["normal"]) <= QueueCap /\ Len(queue'["fast"]) <= FastCap
    <3>1. \A q \in Channels : Len(queue[q]) \in Nat /\ Len(queue'[q]) \in Nat
      <4>1. queue \in [Channels -> Seq(Block)]
        BY DEF CompressorTypeOK
      <4> QED
        BY <2>1, <4>1, LenProperties
    <3>2. Len(queue["normal"]) <= QueueCap /\ Len(queue["fast"]) <= FastCap
      BY DEF CompressorTypeOK
    <3>3. Len(queue'["normal"]) <= Len(queue["normal"]) /\ Len(queue'["fast"]) <= Len(queue["fast"])
      BY <2>1, ChannelsKnown
    <3> QED
      BY <3>1, <3>2, <3>3, ChannelsKnown, CapsTyped
  <2>4. CompressorTypeOK'
    BY <2>1, <2>2, <2>3 DEF CompressorTypeOK, callerVars
  <2>5. CountInv'
    BY <2>1, <2>2 DEF CountInv, callerVars
  <2> QED
    BY <2>4, <2>5
<1>9. ASSUME NEW w \in Threads, Done(w) PROVE CompressorTypeOK' /\ CountInv'
  <2>1. /\ worker' \in [Threads -> [caller : Callers, piece : Nat, size : Size] \cup {Nil}]
        /\ ch_out' \in [Callers -> Seq([piece : Nat, size : Size])]
        /\ \A d \in Callers :
             /\ Len(ch_out'[d]) <= OutCap
             /\ IsFiniteSet(AtWork(d)) => IsFiniteSet(AtWork(d)') /\ Counted(d)' = Counted(d)
    BY <1>9, DoneCounted
  <2>2. UNCHANGED callerVars /\ UNCHANGED queue
    BY <1>9 DEF Done
  <2>3. CompressorTypeOK'
    BY <2>1, <2>2 DEF CompressorTypeOK, callerVars
  <2>4. CountInv'
    BY <2>1, <2>2 DEF CountInv, callerVars
  <2> QED
    BY <2>3, <2>4
<1>10. CASE UNCHANGED compressorVars
  <2>1. CompressorTypeOK'
    BY <1>10 DEF CompressorTypeOK, compressorVars, callerVars
  <2>2. \A d \in Callers : AtWork(d)' = AtWork(d) /\ Counted(d)' = Counted(d)
    BY <1>10 DEF AtWork, Counted, compressorVars, callerVars
  <2>3. CountInv'
    BY <1>10, <2>2 DEF CountInv, compressorVars, callerVars
  <2> QED
    BY <2>1, <2>3
<1> QED
  BY <1>1, <1>2, <1>3, <1>5, <1>6, <1>7, <1>8, <1>9, <1>10 DEF CompressorNext, Call, Thread

LEMMA InitCount ==
  ASSUME CompressorInit
  PROVE  CompressorTypeOK /\ CountInv
<1>1. /\ \A S : <<>> \in Seq(S) /\ Len(<<>>) = 0
  OBVIOUS
<1>2. CompressorTypeOK
  BY <1>1, CapsTyped, ChannelsKnown DEF CompressorInit, CompressorTypeOK
<1>3. ASSUME NEW c \in Callers
      PROVE  AtWork(c) = {} /\ Mine(queue["normal"], c) = {} /\ Mine(queue["fast"], c) = {}
  BY <1>1, ChannelsKnown DEF CompressorInit, AtWork, Mine
<1>4. ASSUME NEW c \in Callers PROVE IsFiniteSet(AtWork(c)) /\ Counted(c) = 0
  <2>1. Len(ch_out[c]) = 0
    BY <1>1 DEF CompressorInit
  <2>2. IsFiniteSet({}) /\ Cardinality({}) = 0
    BY FS_EmptySet
  <2>3. /\ Cardinality(AtWork(c)) = 0 /\ Cardinality(Mine(queue["normal"], c)) = 0
        /\ Cardinality(Mine(queue["fast"], c)) = 0
    BY <1>3, <2>2
  <2>4. Counted(c) = 0
    BY <2>1, <2>3 DEF Counted
  <2> QED
    BY <1>3, <2>2, <2>4
<1>5. CountInv
  BY <1>4 DEF CompressorInit, CountInv
<1> QED
  BY <1>2, <1>5

(* What is counted by places in both queues is what is counted in each.    *)
LEMMA QueuedCounted ==
  ASSUME CompressorTypeOK, NEW c \in Callers
  PROVE  Cardinality(Queued(c)) =
           Cardinality(Mine(queue["normal"], c)) + Cardinality(Mine(queue["fast"], c))
<1> DEFINE M(q) == Mine(queue[q], c)
           P(q) == {<<q, i>> : i \in M(q)}
<1>1. \A q \in Channels : IsFiniteSet(M(q)) /\ Cardinality(M(q)) \in Nat
  <2> SUFFICES ASSUME NEW q \in Channels PROVE IsFiniteSet(M(q)) /\ Cardinality(M(q)) \in Nat
    OBVIOUS
  <2>1. queue[q] \in Seq(Block)
    BY DEF CompressorTypeOK
  <2> QED
    BY <2>1, MineFinite
<1>2. Queued(c) = P("normal") \cup P("fast")
  <2>1. ASSUME NEW q \in Channels, NEW i
        PROVE  <<q, i>> \in Queued(c) <=> i \in M(q)
    <3>1. Len(queue[q]) \in Nat /\ Len(queue[q]) <= QueueCap + FastCap
      <4>1. queue[q] \in Seq(Block)
        BY DEF CompressorTypeOK
      <4>2. Len(queue[q]) \in Nat
        BY <4>1, LenProperties
      <4>3. Len(queue["normal"]) <= QueueCap /\ Len(queue["fast"]) <= FastCap
        BY DEF CompressorTypeOK
      <4> QED
        BY <4>2, <4>3, ChannelsKnown, CapsTyped
    <3>2. i \in 1 .. Len(queue[q]) <=> i \in 1 .. QueueCap + FastCap /\ i <= Len(queue[q])
      BY <3>1, CapsTyped
    <3> QED
      BY <3>2 DEF Queued, Mine
  <2>2. \A x \in Queued(c) : \E q \in Channels, i \in 1 .. QueueCap + FastCap : x = <<q, i>>
    BY DEF Queued
  <2>3. \A x \in Queued(c) : x \in P("normal") \/ x \in P("fast")
    BY <2>1, <2>2, ChannelsKnown
  <2>4. \A q \in Channels : P(q) \subseteq Queued(c)
    BY <2>1
  <2> HIDE DEF P
  <2> QED
    BY <2>3, <2>4, ChannelsKnown
<1>3. \A q \in Channels : IsFiniteSet(P(q)) /\ Cardinality(P(q)) = Cardinality(M(q))
  <2> SUFFICES ASSUME NEW q \in Channels
               PROVE  IsFiniteSet(P(q)) /\ Cardinality(P(q)) = Cardinality(M(q))
    OBVIOUS
  <2> DEFINE S == M(q)
             T == P(q)
             f == [i \in S |-> <<q, i>>]
  <2>1. f \in [S -> T] /\ (\A a, b \in S : f[a] = f[b] => a = b) /\ \A x \in T : \E i \in S : f[i] = x
    OBVIOUS
  <2> HIDE DEF f, S, T
  <2>2. ExistsBijection(S, T)
    BY <2>1 DEF ExistsBijection, Bijection, Injection, Surjection, IsInjective
  <2>3. IsFiniteSet(S)
    BY <1>1 DEF S
  <2>4. IsFiniteSet(T) /\ Cardinality(T) = Cardinality(S)
    BY <2>2, <2>3, FS_Bijection
  <2> QED
    BY <2>4 DEF S, T
<1>4. P("normal") \cap P("fast") = {}
  BY ChannelsKnown
<1>5. IsFiniteSet(P("normal")) /\ IsFiniteSet(P("fast"))
  BY <1>3, ChannelsKnown
<1> HIDE DEF P
<1>6. Cardinality(P("normal") \cup P("fast")) =
        Cardinality(P("normal")) + Cardinality(P("fast")) - Cardinality(P("normal") \cap P("fast"))
  BY <1>5, FS_Union
<1>7. Cardinality(P("normal") \cap P("fast")) = 0
  BY <1>4, FS_EmptySet
<1>8. Cardinality(P("normal")) = Cardinality(M("normal")) /\ Cardinality(P("fast")) = Cardinality(M("fast"))
  BY <1>3, ChannelsKnown
<1>9. Cardinality(M("normal")) \in Nat /\ Cardinality(M("fast")) \in Nat
  BY <1>1, ChannelsKnown
<1> QED
  BY <1>2, <1>6, <1>7, <1>8, <1>9

-----------------------------------------------------------------------------
(* Theorems about who works on what                                        *)

(* Channels hold what they have room for, and a caller has no more than    *)
(* MaxInProgress blocks at work (engine.go:41-42, 97, 120).                *)
THEOREM ChannelsHaveRoom == CompressorSpec => []CompressorTypeOK
<1>1. CompressorInit => CompressorTypeOK /\ CountInv
  BY InitCount
<1>2. CompressorTypeOK /\ CountInv /\ [CompressorNext]_compressorVars => (CompressorTypeOK /\ CountInv)'
  BY NextCount
<1> QED
  BY <1>1, <1>2, PTL DEF CompressorSpec

(* The blocks a caller waits for are in queues, at threads or in its       *)
(* channel, each once; a caller that is done has none left, so no thread   *)
(* writes into a buffer that was given back (engine.go:94-130).            *)
THEOREM NoPieceLeftBehind == CompressorSpec => []PiecesAccounted
<1>1. CompressorInit => CompressorTypeOK /\ CountInv
  BY InitCount
<1>2. CompressorTypeOK /\ CountInv /\ [CompressorNext]_compressorVars => (CompressorTypeOK /\ CountInv)'
  BY NextCount
<1>3. CompressorTypeOK /\ CountInv => PiecesAccounted
  <2> SUFFICES ASSUME CompressorTypeOK, CountInv, NEW c \in Callers
               PROVE  /\ in_progress[c] = Cardinality(Queued(c)) + Cardinality(AtWork(c)) + Len(ch_out[c])
                      /\ stage[c] = "idle" => in_progress[c] = 0
    BY DEF PiecesAccounted, Queued, AtWork
  <2> QED
    BY QueuedCounted DEF CountInv, Counted
<1> QED
  BY <1>1, <1>2, <1>3, PTL DEF CompressorSpec
-----------------------------------------------------------------------------
(* Where the blocks of a call are, and what is known of them               *)

QueuedPiece(c, p) ==
  \E q \in Channels : \E i \in 1 .. Len(queue[q]) : queue[q][i] = [caller |-> c, piece |-> p]
WorkPiece(c, p, n) ==
  \E w \in Threads : worker[w] # Nil /\ worker[w] = [caller |-> c, piece |-> p, size |-> n]
OutPiece(c, p, n) ==
  \E i \in 1 .. Len(ch_out[c]) : ch_out[c][i] = [piece |-> p, size |-> n]

(* A block handed over is held until it is back.                           *)
Holds(c, p) ==
  \/ QueuedPiece(c, p)
  \/ \E n \in Size : WorkPiece(c, p, n) \/ OutPiece(c, p, n)

(* Blocks held were handed over, and have sizes they may have.             *)
Good(len, p, n) == n \in Compressed /\ n <= BlockLen(len, p)
Known(c, p, n) == p < piece_no[c] /\ (n = -1 \/ Good(length[c], p, n))
HeldOK(c) ==
  /\ \A p \in Nat : QueuedPiece(c, p) => p < piece_no[c]
  /\ \A p \in Nat, n \in Size : WorkPiece(c, p, n) \/ OutPiece(c, p, n) => Known(c, p, n)

(* A call that is not broken waits with all its blocks handed over.        *)
CallOK(c) ==
  /\ stage[c] = "idle" => piece_no[c] = 0 /\ ~ is_broken[c]
  /\ stage[c] # "idle" => length[c] \in Lengths[c]
  /\ piece_no[c] <= Blocks(length[c])
  /\ stage[c] = "send" => piece_no[c] < Blocks(length[c])
  /\ stage[c] = "fast" => piece_no[c] = 0 /\ Short(length[c])
  /\ stage[c] \in {"wait", "drain"} /\ ~ is_broken[c] => piece_no[c] = Blocks(length[c])

(* A block handed over is held, or its size is in the table.               *)
TableOK(c) ==
  stage[c] # "idle" /\ ~ is_broken[c] =>
    /\ chunks[c] \in [0 .. Blocks(length[c]) -> Nat]
    /\ chunks[c][Blocks(length[c])] = 0
    /\ \A p \in 0 .. piece_no[c] - 1 : Holds(c, p) \/ Good(length[c], p, chunks[c][p])
    /\ \A p \in 0 .. Blocks(length[c]) : chunks[c][p] <= total[c]

GatherInv ==
  /\ chunks = [c \in Callers |-> chunks[c]]
  /\ \A c \in Callers : HeldOK(c) /\ CallOK(c) /\ TableOK(c)

(* How sending, getting, taking and giving move blocks.                    *)
LEMMA PutMoves ==
  ASSUME CompressorTypeOK, NEW c \in Callers, NEW q \in Channels, Put(q, c)
  PROVE  \A d \in Callers, p \in Nat :
           QueuedPiece(d, p)' <=> QueuedPiece(d, p) \/ (d = c /\ p = piece_no[c])
<1> DEFINE b == [caller |-> c, piece |-> piece_no[c]]
<1>1. /\ queue \in [Channels -> Seq(Block)] /\ b \in Block
      /\ queue' = [queue EXCEPT ![q] = Append(queue[q], b)]
  BY DEF CompressorTypeOK, Put, Block
<1> SUFFICES ASSUME NEW d \in Callers, NEW p \in Nat
             PROVE  QueuedPiece(d, p)' <=> QueuedPiece(d, p) \/ (d = c /\ p = piece_no[c])
  OBVIOUS
<1> DEFINE e == [caller |-> d, piece |-> p]
<1>2. e = b <=> d = c /\ p = piece_no[c]
  OBVIOUS
<1> HIDE DEF b, e
<1>3. /\ Len(queue[q]) \in Nat /\ Len(Append(queue[q], b)) = Len(queue[q]) + 1
      /\ Append(queue[q], b)[Len(queue[q]) + 1] = b
      /\ \A i \in 1 .. Len(queue[q]) : Append(queue[q], b)[i] = queue[q][i]
  BY <1>1, LenProperties, AppendProperties
<1>4. queue'[q] = Append(queue[q], b) /\ \A r \in Channels : r # q => queue'[r] = queue[r]
  BY <1>1
<1>5. ASSUME NEW r \in Channels
      PROVE  (\E i \in 1 .. Len(queue'[r]) : queue'[r][i] = e) <=>
               (\E i \in 1 .. Len(queue[r]) : queue[r][i] = e) \/ (r = q /\ e = b)
  <2>1. CASE r # q
    BY <1>4, <2>1
  <2>2. CASE r = q
    <3>1. \A i \in 1 .. Len(queue'[r]) : i \in 1 .. Len(queue[r]) \/ i = Len(queue[r]) + 1
      BY <1>3, <1>4, <2>2
    <3>2. Len(queue[r]) + 1 \in 1 .. Len(queue'[r]) /\ queue'[r][Len(queue[r]) + 1] = b
      BY <1>3, <1>4, <2>2
    <3>3. \A i \in 1 .. Len(queue[r]) : i \in 1 .. Len(queue'[r]) /\ queue'[r][i] = queue[r][i]
      BY <1>3, <1>4, <2>2
    <3> QED
      BY <2>2, <3>1, <3>2, <3>3
  <2> QED
    BY <2>1, <2>2
<1>6. QueuedPiece(d, p) <=> \E r \in Channels : \E i \in 1 .. Len(queue[r]) : queue[r][i] = e
  BY DEF QueuedPiece, e
<1>7. QueuedPiece(d, p)' <=> \E r \in Channels : \E i \in 1 .. Len(queue'[r]) : queue'[r][i] = e
  BY DEF QueuedPiece, e
<1> QED
  BY <1>2, <1>5, <1>6, <1>7

LEMMA GotMoves ==
  ASSUME CompressorTypeOK, NEW c \in Callers, ch_out[c] # <<>>,
         ch_out' = [ch_out EXCEPT ![c] = Tail(ch_out[c])]
  PROVE  /\ Got(c) \in [piece : Nat, size : Size]
         /\ OutPiece(c, Got(c).piece, Got(c).size)
         /\ \A d \in Callers, p \in Nat, n \in Size :
              /\ OutPiece(d, p, n)' => OutPiece(d, p, n)
              /\ OutPiece(d, p, n) =>
                   OutPiece(d, p, n)' \/ (d = c /\ p = Got(c).piece /\ n = Got(c).size)
<1> DEFINE R == [piece : Nat, size : Size]
           s == ch_out[c]
           t == Tail(s)
<1>1. ch_out \in [Callers -> Seq(R)] /\ s \in Seq(R)
  BY DEF CompressorTypeOK
<1>2. ch_out'[c] = t /\ \A d \in Callers : d # c => ch_out'[d] = ch_out[d]
  BY <1>1
<1>3. /\ Len(s) \in Nat /\ Len(s) >= 1 /\ Got(c) = s[1] /\ s[1] \in R
      /\ Len(t) = Len(s) - 1 /\ \A i \in 1 .. Len(t) : t[i] = s[i + 1]
  <2> HIDE DEF R, s, t
  <2>1. Len(s) \in Nat /\ Len(s) # 0 /\ s # <<>>
    BY <1>1, LenProperties, EmptySeq DEF s
  <2>2. 1 \in 1 .. Len(s) /\ Head(s) = s[1]
    BY <1>1, <2>1, HeadTailProperties
  <2>3. Len(t) = Len(s) - 1 /\ \A i \in 1 .. Len(t) : t[i] = s[i + 1]
    BY <1>1, <2>1, HeadTailProperties DEF t
  <2> QED
    BY <1>1, <2>1, <2>2, <2>3, ElementOfSeq DEF Got, s
<1> HIDE DEF R, t
<1>4. OutPiece(c, Got(c).piece, Got(c).size)
  <2>1. s[1] = [piece |-> Got(c).piece, size |-> Got(c).size] /\ 1 \in 1 .. Len(s)
    BY <1>3 DEF R
  <2> QED
    BY <2>1 DEF OutPiece
<1>5. ASSUME NEW d \in Callers, NEW p \in Nat, NEW n \in Size
      PROVE  /\ OutPiece(d, p, n)' => OutPiece(d, p, n)
             /\ OutPiece(d, p, n) =>
                  OutPiece(d, p, n)' \/ (d = c /\ p = Got(c).piece /\ n = Got(c).size)
  <2> DEFINE e == [piece |-> p, size |-> n]
  <2>1. e = Got(c) => p = Got(c).piece /\ n = Got(c).size
    OBVIOUS
  <2> HIDE DEF e
  <2>2. OutPiece(d, p, n) <=> \E i \in 1 .. Len(ch_out[d]) : ch_out[d][i] = e
    BY DEF OutPiece, e
  <2>3. OutPiece(d, p, n)' <=> \E i \in 1 .. Len(ch_out'[d]) : ch_out'[d][i] = e
    BY DEF OutPiece, e
  <2>4. CASE d # c
    BY <1>2, <2>2, <2>3, <2>4
  <2>5. CASE d = c
    <3>1. ASSUME NEW i \in 1 .. Len(t) PROVE i + 1 \in 1 .. Len(s) /\ t[i] = s[i + 1]
      BY <1>3
    <3>2. ASSUME NEW i \in 1 .. Len(s), i # 1 PROVE i - 1 \in 1 .. Len(t) /\ t[i - 1] = s[i]
      <4>1. i - 1 \in 1 .. Len(t) /\ (i - 1) + 1 = i
        BY <1>3, <3>2
      <4> QED
        BY <1>3, <4>1
    <3>3. OutPiece(d, p, n)' => OutPiece(d, p, n)
      BY <1>2, <2>2, <2>3, <2>5, <3>1
    <3>4. ASSUME OutPiece(d, p, n), ~ OutPiece(d, p, n)' PROVE e = Got(c)
      <4>1. PICK i \in 1 .. Len(s) : s[i] = e
        BY <2>2, <2>5, <3>4
      <4>2. i = 1
        BY <1>2, <2>3, <2>5, <3>2, <3>4, <4>1
      <4> QED
        BY <1>3, <4>1, <4>2
    <3> QED
      BY <2>1, <2>5, <3>3, <3>4
  <2> QED
    BY <2>4, <2>5
<1> QED
  BY <1>3, <1>4, <1>5 DEF R
LEMMA TakeMoves ==
  ASSUME CompressorTypeOK, NEW w \in Threads, Take(w)
  PROVE  \E b \in Block, m \in Size :
           /\ m \in Results(b) /\ QueuedPiece(b.caller, b.piece)
           /\ \A d \in Callers, p \in Nat :
                /\ QueuedPiece(d, p)' => QueuedPiece(d, p)
                /\ QueuedPiece(d, p) => QueuedPiece(d, p)' \/ (d = b.caller /\ p = b.piece)
           /\ \A d \in Callers, p \in Nat, n \in Size :
                WorkPiece(d, p, n)' <=>
                  WorkPiece(d, p, n) \/ (d = b.caller /\ p = b.piece /\ n = m)
<1> DEFINE q == ChannelOf(w)
           s == queue[q]
           t == Tail(s)
           b == Head(s)
<1>1. /\ worker[w] = Nil /\ q \in Channels /\ queue \in [Channels -> Seq(Block)]
      /\ s \in Seq(Block) /\ s # <<>> /\ queue' = [queue EXCEPT ![q] = t]
  BY ChannelsKnown DEF Take, CompressorTypeOK
<1>2. PICK m \in Results(b) : worker' = [worker EXCEPT ![w] = [caller |-> b.caller, piece |-> b.piece, size |-> m]]
  BY DEF Take
<1>3. m \in Size
  BY DEF Results, Size
<1>4. queue'[q] = t /\ queue[q] = s /\ \A r \in Channels : r # q => queue'[r] = queue[r]
  BY <1>1
<1> HIDE DEF q, s
<1>5. /\ Len(s) \in Nat /\ Len(s) >= 1 /\ b = s[1] /\ b \in Block
      /\ Len(t) = Len(s) - 1 /\ \A i \in 1 .. Len(t) : t[i] = s[i + 1]
  <2>1. Len(s) \in Nat /\ Len(s) # 0
    BY <1>1, LenProperties, EmptySeq
  <2>2. 1 \in 1 .. Len(s) /\ b = s[1]
    BY <1>1, <2>1, HeadTailProperties
  <2>3. Len(t) = Len(s) - 1 /\ \A i \in 1 .. Len(t) : t[i] = s[i + 1]
    BY <1>1, <2>1, HeadTailProperties
  <2>4. b \in Block
    BY <1>1, <2>2, ElementOfSeq
  <2> QED
    BY <2>1, <2>2, <2>3, <2>4
<1> HIDE DEF t, b
<1>6. b = [caller |-> b.caller, piece |-> b.piece] /\ b.caller \in Callers /\ b.piece \in Nat
  BY <1>5 DEF Block
<1>7. QueuedPiece(b.caller, b.piece)
  <2>1. 1 \in 1 .. Len(queue[q]) /\ queue[q][1] = b
    BY <1>4, <1>5
  <2> QED
    BY <1>1, <1>6, <2>1 DEF QueuedPiece
<1>8. ASSUME NEW d \in Callers, NEW p \in Nat
      PROVE  /\ QueuedPiece(d, p)' => QueuedPiece(d, p)
             /\ QueuedPiece(d, p) => QueuedPiece(d, p)' \/ (d = b.caller /\ p = b.piece)
  <2> DEFINE e == [caller |-> d, piece |-> p]
  <2>1. e = b => d = b.caller /\ p = b.piece
    OBVIOUS
  <2> HIDE DEF e
  <2>2. QueuedPiece(d, p) <=> \E r \in Channels : \E i \in 1 .. Len(queue[r]) : queue[r][i] = e
    BY DEF QueuedPiece, e
  <2>3. QueuedPiece(d, p)' <=> \E r \in Channels : \E i \in 1 .. Len(queue'[r]) : queue'[r][i] = e
    BY DEF QueuedPiece, e
  <2>4. ASSUME NEW i \in 1 .. Len(t) PROVE i + 1 \in 1 .. Len(s) /\ t[i] = s[i + 1]
    BY <1>5
  <2>5. ASSUME NEW i \in 1 .. Len(s), i # 1 PROVE i - 1 \in 1 .. Len(t) /\ t[i - 1] = s[i]
    <3>1. i - 1 \in 1 .. Len(t) /\ (i - 1) + 1 = i
      BY <1>5, <2>5
    <3> QED
      BY <1>5, <3>1
  <2>6. ASSUME QueuedPiece(d, p)' PROVE QueuedPiece(d, p)
    <3>1. PICK r \in Channels : \E j \in 1 .. Len(queue'[r]) : queue'[r][j] = e
      BY <2>3, <2>6
    <3>2. PICK i \in 1 .. Len(queue'[r]) : queue'[r][i] = e
      BY <3>1
    <3>3. CASE r = q
      <4>1. i \in 1 .. Len(t) /\ t[i] = e
        BY <1>4, <3>2, <3>3
      <4>2. i + 1 \in 1 .. Len(queue[q]) /\ queue[q][i + 1] = e
        BY <1>4, <2>4, <4>1
      <4> QED
        BY <1>1, <2>2, <4>2
    <3>4. CASE r # q
      <4>1. queue'[r] = queue[r]
        BY <1>4, <3>4
      <4> QED
        BY <2>2, <3>2, <4>1
    <3> QED
      BY <3>3, <3>4
  <2>7. ASSUME QueuedPiece(d, p), ~ QueuedPiece(d, p)' PROVE e = b
    <3>1. PICK r \in Channels : \E j \in 1 .. Len(queue[r]) : queue[r][j] = e
      BY <2>2, <2>7
    <3>2. PICK i \in 1 .. Len(queue[r]) : queue[r][i] = e
      BY <3>1
    <3>3. CASE r = q /\ i = 1
      BY <1>4, <1>5, <3>2, <3>3
    <3>4. CASE r = q /\ i # 1
      <4>1. i \in 1 .. Len(s) /\ i # 1 /\ s[i] = e
        BY <1>4, <3>2, <3>4
      <4>2. i - 1 \in 1 .. Len(queue'[q]) /\ queue'[q][i - 1] = e
        BY <1>4, <2>5, <4>1
      <4> QED
        BY <1>1, <2>3, <2>7, <4>2
    <3>5. CASE r # q
      <4>1. queue'[r] = queue[r]
        BY <1>4, <3>5
      <4> QED
        BY <2>3, <2>7, <3>2, <4>1
    <3> QED
      BY <3>3, <3>4, <3>5
  <2> QED
    BY <2>1, <2>6, <2>7
<1> DEFINE r == [caller |-> b.caller, piece |-> b.piece, size |-> m]
<1>9. r # Nil
  <2>1. Size \subseteq Int /\ r \in [caller : Callers, piece : Nat, size : Size]
    BY <1>3, <1>6, CompressorAssumption DEF Size
  <2> QED
    BY <2>1, CompressorAssumption
<1>10. ASSUME NEW d \in Callers, NEW p \in Nat, NEW n \in Size
       PROVE  WorkPiece(d, p, n)' <=>
                WorkPiece(d, p, n) \/ (d = b.caller /\ p = b.piece /\ n = m)
  <2> DEFINE e == [caller |-> d, piece |-> p, size |-> n]
  <2>1. e = r <=> d = b.caller /\ p = b.piece /\ n = m
    OBVIOUS
  <2>2. worker' = [worker EXCEPT ![w] = r] /\ worker = [v \in Threads |-> worker[v]]
    BY <1>2 DEF CompressorTypeOK, b
  <2> HIDE DEF e, r
  <2>3. WorkPiece(d, p, n) <=> \E v \in Threads : worker[v] # Nil /\ worker[v] = e
    BY DEF WorkPiece, e
  <2>4. WorkPiece(d, p, n)' <=> \E v \in Threads : worker'[v] # Nil /\ worker'[v] = e
    BY DEF WorkPiece, e
  <2>5. worker'[w] = r /\ \A v \in Threads : v # w => worker'[v] = worker[v]
    BY <2>2
  <2> QED
    BY <1>1, <1>9, <2>1, <2>3, <2>4, <2>5
<1>11. m \in Results(b)
  BY <1>2
<1> HIDE DEF r
<1> QED
  BY <1>3, <1>5, <1>7, <1>8, <1>10, <1>11

LEMMA DoneMoves ==
  ASSUME CompressorTypeOK, NEW w \in Threads, Done(w)
  PROVE  \E c \in Callers, k \in Nat, m \in Size :
           /\ WorkPiece(c, k, m)
           /\ \A d \in Callers, p \in Nat, n \in Size :
                /\ WorkPiece(d, p, n)' => WorkPiece(d, p, n)
                /\ WorkPiece(d, p, n) => WorkPiece(d, p, n)' \/ (d = c /\ p = k /\ n = m)
                /\ OutPiece(d, p, n)' <=> OutPiece(d, p, n) \/ (d = c /\ p = k /\ n = m)
<1> DEFINE R == [piece : Nat, size : Size]
<1>1. PICK c \in Callers, k \in Nat, m \in Size :
        worker[w] = [caller |-> c, piece |-> k, size |-> m]
  <2>1. worker[w] \in [caller : Callers, piece : Nat, size : Size]
    BY DEF Done, CompressorTypeOK
  <2> QED
    BY <2>1
<1> DEFINE o == [piece |-> k, size |-> m]
           s == ch_out[c]
           t == Append(s, o)
           r == [caller |-> c, piece |-> k, size |-> m]
<1>2. /\ ch_out \in [Callers -> Seq(R)] /\ s \in Seq(R) /\ o \in R
      /\ ch_out' = [ch_out EXCEPT ![c] = t]
      /\ worker = [v \in Threads |-> worker[v]] /\ worker' = [worker EXCEPT ![w] = Nil]
      /\ worker[w] = r /\ worker[w] # Nil
  <2>1. ch_out \in [Callers -> Seq(R)] /\ s \in Seq(R) /\ o \in R
    BY DEF CompressorTypeOK
  <2>2. worker[w].caller = c /\ worker[w].piece = k /\ worker[w].size = m
    BY <1>1
  <2>3. ch_out' = [ch_out EXCEPT ![c] = t]
    BY <2>2 DEF Done, Give
  <2>4. worker = [v \in Threads |-> worker[v]] /\ worker' = [worker EXCEPT ![w] = Nil]
    BY DEF Done, CompressorTypeOK
  <2>5. worker[w] = r /\ worker[w] # Nil
    BY <1>1 DEF Done
  <2> QED
    BY <2>1, <2>3, <2>4, <2>5
<1>3. ch_out'[c] = t /\ \A d \in Callers : d # c => ch_out'[d] = ch_out[d]
  BY <1>2
<1> HIDE DEF R
<1>4. /\ Len(s) \in Nat /\ Len(t) = Len(s) + 1 /\ t[Len(s) + 1] = o
      /\ \A i \in 1 .. Len(s) : t[i] = s[i]
  <2> HIDE DEF s, o
  <2> QED
    BY <1>2, LenProperties, AppendProperties
<1>5. worker'[w] = Nil /\ \A v \in Threads : v # w => worker'[v] = worker[v]
  BY <1>2
<1>6. WorkPiece(c, k, m)
  BY <1>2 DEF WorkPiece
<1>7. ASSUME NEW d \in Callers, NEW p \in Nat, NEW n \in Size
      PROVE  /\ WorkPiece(d, p, n)' => WorkPiece(d, p, n)
             /\ WorkPiece(d, p, n) => WorkPiece(d, p, n)' \/ (d = c /\ p = k /\ n = m)
  <2> DEFINE e == [caller |-> d, piece |-> p, size |-> n]
  <2>1. e = r => d = c /\ p = k /\ n = m
    OBVIOUS
  <2> HIDE DEF e, r
  <2>2. WorkPiece(d, p, n) <=> \E v \in Threads : worker[v] # Nil /\ worker[v] = e
    BY DEF WorkPiece, e
  <2>3. WorkPiece(d, p, n)' <=> \E v \in Threads : worker'[v] # Nil /\ worker'[v] = e
    BY DEF WorkPiece, e
  <2> QED
    BY <1>2, <1>5, <2>1, <2>2, <2>3
<1>8. ASSUME NEW d \in Callers, NEW p \in Nat, NEW n \in Size
      PROVE  OutPiece(d, p, n)' <=> OutPiece(d, p, n) \/ (d = c /\ p = k /\ n = m)
  <2> DEFINE e == [piece |-> p, size |-> n]
  <2>1. e = o <=> p = k /\ n = m
    OBVIOUS
  <2> HIDE DEF e, o, t, s
  <2>2. OutPiece(d, p, n) <=> \E i \in 1 .. Len(ch_out[d]) : ch_out[d][i] = e
    BY DEF OutPiece, e
  <2>3. OutPiece(d, p, n)' <=> \E i \in 1 .. Len(ch_out'[d]) : ch_out'[d][i] = e
    BY DEF OutPiece, e
  <2>4. CASE d # c
    BY <1>3, <2>2, <2>3, <2>4
  <2>5. CASE d = c
    <3>1. /\ \A i \in 1 .. Len(t) : i \in 1 .. Len(s) \/ i = Len(s) + 1
          /\ \A i \in 1 .. Len(s) : i \in 1 .. Len(t) /\ t[i] = s[i]
          /\ Len(s) + 1 \in 1 .. Len(t)
      BY <1>4
    <3>2. ch_out[d] = s /\ ch_out'[d] = t
      BY <1>3, <2>5 DEF s
    <3>3. (\E i \in 1 .. Len(t) : t[i] = e) <=> (\E i \in 1 .. Len(s) : s[i] = e) \/ e = o
      BY <1>4, <3>1
    <3> QED
      BY <2>1, <2>2, <2>3, <2>5, <3>2, <3>3
  <2> QED
    BY <2>4, <2>5
<1> QED
  BY <1>6, <1>7, <1>8

(* Nobody holds a block of a caller that waits for none.                   *)
LEMMA NothingHeld ==
  ASSUME CompressorTypeOK, CountInv, NEW c \in Callers, in_progress[c] = 0
  PROVE  \A p \in Nat : ~ Holds(c, p)
<1>1. /\ \A q \in Channels : Cardinality(Mine(queue[q], c)) \in Nat
      /\ Cardinality(AtWork(c)) \in Nat /\ Len(ch_out[c]) \in Nat
      /\ IsFiniteSet(AtWork(c)) /\ Counted(c) = 0
  BY CountedTyped DEF CountInv
<1>2. /\ Cardinality(AtWork(c)) = 0 /\ Len(ch_out[c]) = 0
      /\ Cardinality(Mine(queue["normal"], c)) = 0 /\ Cardinality(Mine(queue["fast"], c)) = 0
  BY <1>1, ChannelsKnown DEF Counted
<1>3. \A q \in Channels : Mine(queue[q], c) = {}
  <2> SUFFICES ASSUME NEW q \in Channels PROVE Mine(queue[q], c) = {}
    OBVIOUS
  <2>1. queue[q] \in Seq(Block)
    BY DEF CompressorTypeOK
  <2>2. IsFiniteSet(Mine(queue[q], c))
    BY <2>1, MineFinite
  <2>3. Cardinality(Mine(queue[q], c)) = 0
    BY <1>2, ChannelsKnown
  <2> QED
    BY <2>2, <2>3, FS_EmptySet
<1>4. AtWork(c) = {}
  BY <1>1, <1>2, FS_EmptySet
<1>5. ASSUME NEW p \in Nat PROVE ~ QueuedPiece(c, p)
  <2> SUFFICES ASSUME NEW q \in Channels, NEW i \in 1 .. Len(queue[q]),
                      queue[q][i] = [caller |-> c, piece |-> p]
               PROVE  FALSE
    BY DEF QueuedPiece
  <2>1. i \in Mine(queue[q], c)
    BY DEF Mine
  <2> QED
    BY <1>3, <2>1
<1>6. ASSUME NEW p \in Nat, NEW n \in Size PROVE ~ WorkPiece(c, p, n)
  <2> SUFFICES ASSUME NEW w \in Threads, worker[w] # Nil,
                      worker[w] = [caller |-> c, piece |-> p, size |-> n]
               PROVE  FALSE
    BY DEF WorkPiece
  <2>1. w \in AtWork(c)
    BY DEF AtWork
  <2> QED
    BY <1>4, <2>1
<1>7. ASSUME NEW p \in Nat, NEW n \in Size PROVE ~ OutPiece(c, p, n)
  BY <1>2 DEF OutPiece
<1> QED
  BY <1>5, <1>6, <1>7 DEF Holds
(* A call of which nothing changes but who holds its blocks.               *)
LEMMA OnlyMoved ==
  ASSUME CompressorTypeOK, GatherInv, NEW d \in Callers,
         stage'[d] = stage[d], length'[d] = length[d], piece_no'[d] = piece_no[d],
         is_broken'[d] = is_broken[d], total'[d] = total[d], chunks'[d] = chunks[d],
         \A p \in Nat : QueuedPiece(d, p)' => p < piece_no[d],
         \A p \in Nat, n \in Size : WorkPiece(d, p, n)' \/ OutPiece(d, p, n)' => Known(d, p, n),
         \A p \in Nat : Holds(d, p) => Holds(d, p)'
  PROVE  HeldOK(d)' /\ CallOK(d)' /\ TableOK(d)'
<1>1. HeldOK(d) /\ CallOK(d) /\ TableOK(d)
  BY DEF GatherInv
<1>2. \A p \in Nat, n \in Size : Known(d, p, n) <=> Known(d, p, n)'
  BY DEF Known
<1>3. HeldOK(d)'
  BY <1>2 DEF HeldOK
<1>4. CallOK(d)'
  BY <1>1 DEF CallOK
<1>5. TableOK(d)'
  <2>1. \A p \in 0 .. piece_no[d] - 1 : p \in Nat
    BY DEF CompressorTypeOK
  <2> QED
    BY <1>1, <2>1 DEF TableOK
<1> QED
  BY <1>3, <1>4, <1>5

LEMMA QueuesKept ==
  ASSUME UNCHANGED queue, NEW d, NEW p
  PROVE  QueuedPiece(d, p)' <=> QueuedPiece(d, p)
BY DEF QueuedPiece

LEMMA WorkKept ==
  ASSUME UNCHANGED worker, NEW d, NEW p, NEW n
  PROVE  WorkPiece(d, p, n)' <=> WorkPiece(d, p, n)
BY DEF WorkPiece

LEMMA OutKept ==
  ASSUME UNCHANGED ch_out, NEW d, NEW p, NEW n
  PROVE  OutPiece(d, p, n)' <=> OutPiece(d, p, n)
BY DEF OutPiece

LEMMA HeldKnown ==
  ASSUME GatherInv, NEW d \in Callers
  PROVE  /\ \A p \in Nat : QueuedPiece(d, p) => p < piece_no[d]
         /\ \A p \in Nat, n \in Size : WorkPiece(d, p, n) \/ OutPiece(d, p, n) => Known(d, p, n)
BY DEF GatherInv, HeldOK

(* Inputs: a short one is one block, no other has none.                    *)
LEMMA LengthsTyped ==
  ASSUME NEW c \in Callers, NEW len \in Lengths[c]
  PROVE  /\ len \in Nat /\ Blocks(len) \in Nat /\ Blocks(len) >= 1
         /\ Short(len) => Blocks(len) = 1 /\ len > FastOffset
         /\ ~ Short(len) => Blocks(len) + 1 <= len - (4 * len) \div 5
<1>1. len \in Nat
  BY CompressorAssumption
<1>2. IF Short(len) THEN len > FastOffset ELSE Blocks(len) + 1 <= len - (4 * len) \div 5
  BY RoomAssumption
<1>3. FastOffset \in Nat
  BY DEF FastOffset
<1>4. len > 0
  BY <1>1, <1>2, <1>3, CapsTyped DEF Short
<1>5. Blocks(len) \in Nat /\ Blocks(len) >= 1
      /\ (Blocks(len) - 1) * BlockSize < len
  BY <1>1, <1>4, BlocksTyped
<1>6. ASSUME Short(len) PROVE Blocks(len) = 1
  <2>1. PICK k \in Nat : k = Blocks(len) - 1
    BY <1>5
  <2>2. k * BlockSize < BlockSize
    BY <1>1, <1>5, <1>6, <2>1, CapsTyped DEF Short
  <2>3. k < 1
    BY <2>1, <2>2, CapsTyped
  <2> QED
    BY <1>5, <2>1, <2>3
<1> QED
  BY <1>1, <1>2, <1>5, <1>6

LEMMA GatherBegin ==
  ASSUME CompressorTypeOK, CountInv, GatherInv, NEW c \in Callers, Begin(c)
  PROVE  GatherInv'
<1>1. PICK len \in Lengths[c] :
        /\ stage[c] = "idle" /\ length' = [length EXCEPT ![c] = len]
        /\ stage' = [stage EXCEPT ![c] = IF Short(len) THEN "fast" ELSE "send"]
        /\ chunks' = [chunks EXCEPT ![c] = [p \in 0 .. Blocks(len) |-> 0]]
        /\ UNCHANGED <<piece_no, in_progress, is_broken, total, ch_out, queue, worker>>
  BY DEF Begin
<1>2. /\ chunks = [d \in Callers |-> chunks[d]]
      /\ piece_no[c] = 0 /\ ~ is_broken[c]
  BY <1>1 DEF GatherInv, CallOK
<1>3. /\ \A d \in Callers, p \in Nat : QueuedPiece(d, p)' <=> QueuedPiece(d, p)
      /\ \A d \in Callers, p \in Nat, n \in Size :
           /\ WorkPiece(d, p, n)' <=> WorkPiece(d, p, n)
           /\ OutPiece(d, p, n)' <=> OutPiece(d, p, n)
  BY <1>1, QueuesKept, WorkKept, OutKept
<1>4. \A d \in Callers, p \in Nat : Holds(d, p)' <=> Holds(d, p)
  BY <1>3 DEF Holds
<1>5. ASSUME NEW d \in Callers, d # c PROVE HeldOK(d)' /\ CallOK(d)' /\ TableOK(d)'
  <2>1. /\ stage'[d] = stage[d] /\ length'[d] = length[d] /\ piece_no'[d] = piece_no[d]
        /\ is_broken'[d] = is_broken[d] /\ total'[d] = total[d] /\ chunks'[d] = chunks[d]
    BY <1>1, <1>2, <1>5 DEF CompressorTypeOK
  <2>2. /\ \A p \in Nat : QueuedPiece(d, p)' => p < piece_no[d]
        /\ \A p \in Nat, n \in Size : WorkPiece(d, p, n)' \/ OutPiece(d, p, n)' => Known(d, p, n)
    BY <1>3, HeldKnown
  <2> QED
    BY <1>4, <2>1, <2>2, OnlyMoved
<1>6. HeldOK(c)'
  <2>1. in_progress[c] = 0
    BY <1>1 DEF CountInv
  <2>2. \A p \in Nat : ~ Holds(c, p)'
    BY <1>4, <2>1, NothingHeld
  <2> QED
    BY <2>2 DEF HeldOK, Holds
<1>7. Blocks(len) \in Nat /\ Blocks(len) >= 1
  BY LengthsTyped
<1>8. length'[c] = len /\ stage'[c] = IF Short(len) THEN "fast" ELSE "send"
  BY <1>1 DEF CompressorTypeOK
<1>9. CallOK(c)'
  BY <1>1, <1>2, <1>7, <1>8 DEF CallOK
<1>10. chunks'[c] = [p \in 0 .. Blocks(len) |-> 0] /\ chunks' = [d \in Callers |-> chunks'[d]]
  BY <1>1, <1>2
<1>11. TableOK(c)'
  <2>1. \A p \in 0 .. Blocks(len) : chunks'[c][p] = 0
    BY <1>10
  <2>2. Blocks(len) \in 0 .. Blocks(len)
    BY <1>7
  <2>3. chunks'[c] \in [0 .. Blocks(len) -> Nat]
    BY <1>10
  <2>4. total'[c] \in Nat /\ 0 .. piece_no'[c] - 1 = {}
    BY <1>1, <1>2 DEF CompressorTypeOK
  <2> QED
    BY <1>8, <2>1, <2>2, <2>3, <2>4 DEF TableOK
<1> QED
  BY <1>5, <1>6, <1>9, <1>10, <1>11 DEF GatherInv

(* A block handed over is held from then on.                               *)
LEMMA GatherSend ==
  ASSUME CompressorTypeOK, GatherInv, NEW c \in Callers, NEW q \in Channels, NEW k \in Nat, Put(q, c),
         k = piece_no[c] + 1, k <= Blocks(length[c]), piece_no' = [piece_no EXCEPT ![c] = k],
         stage[c] # "idle",
         NEW next \in {"wait", "get", "drain", "send"}, stage' = [stage EXCEPT ![c] = next],
         next = "send" => k # Blocks(length[c]),
         next \in {"wait", "drain"} => k = Blocks(length[c]),
         UNCHANGED <<length, is_broken, total, chunks, ch_out, worker>>
  PROVE  GatherInv'
<1>1. \A d \in Callers, p \in Nat :
        QueuedPiece(d, p)' <=> QueuedPiece(d, p) \/ (d = c /\ p = piece_no[c])
  BY PutMoves
<1>2. \A d \in Callers, p \in Nat, n \in Size :
        /\ WorkPiece(d, p, n)' <=> WorkPiece(d, p, n)
        /\ OutPiece(d, p, n)' <=> OutPiece(d, p, n)
  BY WorkKept, OutKept
<1>3. \A d \in Callers, p \in Nat :
        Holds(d, p)' <=> Holds(d, p) \/ (d = c /\ p = piece_no[c])
  BY <1>1, <1>2 DEF Holds
<1>4. ASSUME NEW d \in Callers, d # c PROVE HeldOK(d)' /\ CallOK(d)' /\ TableOK(d)'
  <2>1. /\ stage'[d] = stage[d] /\ length'[d] = length[d] /\ piece_no'[d] = piece_no[d]
        /\ is_broken'[d] = is_broken[d] /\ total'[d] = total[d] /\ chunks'[d] = chunks[d]
    BY <1>4 DEF CompressorTypeOK
  <2>2. /\ \A p \in Nat : QueuedPiece(d, p)' => p < piece_no[d]
        /\ \A p \in Nat, n \in Size : WorkPiece(d, p, n)' \/ OutPiece(d, p, n)' => Known(d, p, n)
    BY <1>1, <1>2, <1>4, HeldKnown
  <2>3. \A p \in Nat : Holds(d, p) => Holds(d, p)'
    BY <1>3
  <2> QED
    BY <2>1, <2>2, <2>3, OnlyMoved
<1>5. /\ piece_no'[c] = k /\ piece_no[c] \in Nat /\ stage'[c] = next
      /\ length'[c] = length[c] /\ is_broken'[c] = is_broken[c] /\ chunks'[c] = chunks[c]
      /\ total'[c] = total[c]
  BY DEF CompressorTypeOK
<1>6. HeldOK(c)'
  <2>1. \A p \in Nat : QueuedPiece(c, p)' => p < k
    BY <1>1, <1>5, HeldKnown
  <2>2. \A p \in Nat, n \in Size : Known(c, p, n) => Known(c, p, n)'
    BY <1>5 DEF Known
  <2> QED
    BY <1>2, <1>5, <2>1, <2>2, HeldKnown DEF HeldOK
<1>7. CallOK(c)'
  <2>1. CallOK(c) /\ length[c] \in Nat /\ Blocks(length[c]) \in Nat
    BY BlocksTyped DEF GatherInv, CompressorTypeOK
  <2>2. k <= Blocks(length[c]) /\ (k # Blocks(length[c]) => k < Blocks(length[c]))
    BY <2>1
  <2> QED
    BY <1>5, <2>1, <2>2 DEF CallOK
<1>8. TableOK(c)'
  <2> SUFFICES ASSUME ~ is_broken[c]
               PROVE  /\ chunks[c] \in [0 .. Blocks(length[c]) -> Nat]
                      /\ chunks[c][Blocks(length[c])] = 0
                      /\ \A p \in 0 .. k - 1 : Holds(c, p)' \/ Good(length[c], p, chunks[c][p])
                      /\ \A p \in 0 .. Blocks(length[c]) : chunks[c][p] <= total[c]
    BY <1>5 DEF TableOK
  <2>1. /\ chunks[c] \in [0 .. Blocks(length[c]) -> Nat]
        /\ chunks[c][Blocks(length[c])] = 0
        /\ \A p \in 0 .. piece_no[c] - 1 : Holds(c, p) \/ Good(length[c], p, chunks[c][p])
        /\ \A p \in 0 .. Blocks(length[c]) : chunks[c][p] <= total[c]
    BY DEF GatherInv, TableOK
  <2>2. ASSUME NEW p \in 0 .. k - 1 PROVE Holds(c, p)' \/ Good(length[c], p, chunks[c][p])
    <3>1. p \in Nat /\ (p = piece_no[c] \/ p \in 0 .. piece_no[c] - 1)
      BY <1>5
    <3> QED
      BY <1>3, <2>1, <3>1
  <2> QED
    BY <2>1, <2>2
<1> QED
  BY <1>4, <1>6, <1>7, <1>8 DEF GatherInv
(* A block that comes back leaves its size in the table, unless it is no   *)
(* good.                                                                   *)
LEMMA GatherGet ==
  ASSUME CompressorTypeOK, GatherInv, NEW c \in Callers, GetNextPiece(c),
         UNCHANGED <<length, piece_no, queue, worker>>, stage[c] # "idle",
         NEW next \in {"drain", "send"}, stage' = [stage EXCEPT ![c] = next],
         next = "send" => piece_no[c] # Blocks(length[c]),
         next = "drain" /\ ~ is_broken'[c] => piece_no[c] = Blocks(length[c])
  PROVE  GatherInv'
<1>1. /\ ch_out[c] # <<>> /\ ch_out' = [ch_out EXCEPT ![c] = Tail(ch_out[c])]
      /\ total' = [total EXCEPT ![c] = total[c] + IF Got(c).size < 0 THEN 0 ELSE Got(c).size]
      /\ is_broken' = [is_broken EXCEPT ![c] = is_broken[c] \/ Got(c).size < 0]
      /\ chunks' = IF is_broken'[c] THEN chunks
                   ELSE [chunks EXCEPT ![c] = [chunks[c] EXCEPT ![Got(c).piece] = Got(c).size]]
  BY DEF GetNextPiece
<1>2. PICK k \in Nat, m \in Size : k = Got(c).piece /\ m = Got(c).size /\ OutPiece(c, k, m)
  <2>1. Got(c) \in [piece : Nat, size : Size] /\ OutPiece(c, Got(c).piece, Got(c).size)
    BY <1>1, GotMoves
  <2> QED
    BY <2>1
<1>3. \A d \in Callers, p \in Nat, n \in Size :
        /\ OutPiece(d, p, n)' => OutPiece(d, p, n)
        /\ OutPiece(d, p, n) => OutPiece(d, p, n)' \/ (d = c /\ p = k /\ n = m)
  BY <1>1, <1>2, GotMoves
<1>4. /\ \A d \in Callers, p \in Nat : QueuedPiece(d, p)' <=> QueuedPiece(d, p)
      /\ \A d \in Callers, p \in Nat, n \in Size : WorkPiece(d, p, n)' <=> WorkPiece(d, p, n)
  BY QueuesKept, WorkKept
<1>5. \A d \in Callers, p \in Nat : Holds(d, p) => Holds(d, p)' \/ (d = c /\ p = k)
  BY <1>3, <1>4 DEF Holds
<1>6. chunks = [d \in Callers |-> chunks[d]]
  BY DEF GatherInv
<1>7. ASSUME NEW d \in Callers, d # c PROVE HeldOK(d)' /\ CallOK(d)' /\ TableOK(d)'
  <2>1. /\ stage'[d] = stage[d] /\ length'[d] = length[d] /\ piece_no'[d] = piece_no[d]
        /\ is_broken'[d] = is_broken[d] /\ total'[d] = total[d]
    BY <1>1, <1>7 DEF CompressorTypeOK
  <2>2. chunks'[d] = chunks[d]
    BY <1>1, <1>6, <1>7
  <2>3. /\ \A p \in Nat : QueuedPiece(d, p)' => p < piece_no[d]
        /\ \A p \in Nat, n \in Size : WorkPiece(d, p, n)' \/ OutPiece(d, p, n)' => Known(d, p, n)
    BY <1>3, <1>4, HeldKnown
  <2>4. \A p \in Nat : Holds(d, p) => Holds(d, p)'
    BY <1>5, <1>7
  <2> QED
    BY <2>1, <2>2, <2>3, <2>4, OnlyMoved
<1>8. /\ stage'[c] = next /\ length'[c] = length[c] /\ piece_no'[c] = piece_no[c]
      /\ piece_no[c] \in Nat /\ total[c] \in Nat /\ length[c] \in Nat
  BY DEF CompressorTypeOK
<1>9. HeldOK(c)'
  <2>1. \A p \in Nat, n \in Size : Known(c, p, n) <=> Known(c, p, n)'
    BY <1>8 DEF Known
  <2> QED
    BY <1>3, <1>4, <1>8, <2>1, HeldKnown DEF HeldOK
<1>10. is_broken'[c] <=> is_broken[c] \/ m < 0
  BY <1>1, <1>2 DEF CompressorTypeOK
<1>11. Blocks(length[c]) \in Nat
  BY <1>8, BlocksTyped
<1>12. CallOK(c)'
  <2>1. CallOK(c)
    BY DEF GatherInv
  <2> QED
    BY <1>8, <1>11, <2>1 DEF CallOK
<1>13. TableOK(c)'
  <2> SUFFICES ASSUME ~ is_broken'[c]
               PROVE  /\ chunks'[c] \in [0 .. Blocks(length[c]) -> Nat]
                      /\ chunks'[c][Blocks(length[c])] = 0
                      /\ \A p \in 0 .. piece_no[c] - 1 :
                           Holds(c, p)' \/ Good(length[c], p, chunks'[c][p])
                      /\ \A p \in 0 .. Blocks(length[c]) : chunks'[c][p] <= total'[c]
    BY <1>8 DEF TableOK
  <2>1. ~ is_broken[c] /\ ~ (m < 0) /\ m \in Nat
    <3>1. Size \subseteq Int
      BY CompressorAssumption DEF Size
    <3> QED
      BY <1>10, <3>1
  <2>2. /\ chunks[c] \in [0 .. Blocks(length[c]) -> Nat]
        /\ chunks[c][Blocks(length[c])] = 0
        /\ \A p \in 0 .. piece_no[c] - 1 : Holds(c, p) \/ Good(length[c], p, chunks[c][p])
        /\ \A p \in 0 .. Blocks(length[c]) : chunks[c][p] <= total[c]
    BY <1>8, <2>1 DEF GatherInv, TableOK
  <2>3. k < piece_no[c] /\ Good(length[c], k, m)
    <3>1. Known(c, k, m)
      BY <1>2, HeldKnown
    <3>2. m # -1
      BY <2>1
    <3> QED
      BY <3>1, <3>2 DEF Known
  <2>4. piece_no[c] <= Blocks(length[c])
    BY DEF GatherInv, CallOK
  <2>5. chunks'[c] = [chunks[c] EXCEPT ![k] = m]
    BY <1>1, <1>2, <1>6
  <2>6. total'[c] = total[c] + m
    BY <1>1, <1>2, <2>1 DEF CompressorTypeOK
  <2>7. k \in 0 .. Blocks(length[c]) /\ k # Blocks(length[c])
    BY <1>8, <1>11, <2>3, <2>4
  <2>8. /\ chunks'[c] \in [0 .. Blocks(length[c]) -> Nat] /\ chunks'[c][k] = m
        /\ \A p \in 0 .. Blocks(length[c]) : p # k => chunks'[c][p] = chunks[c][p]
    BY <2>1, <2>2, <2>5, <2>7
  <2>9. chunks'[c][Blocks(length[c])] = 0
    <3>1. Blocks(length[c]) \in 0 .. Blocks(length[c])
      BY <1>11
    <3> QED
      BY <2>2, <2>7, <2>8, <3>1
  <2>10. ASSUME NEW p \in 0 .. piece_no[c] - 1
         PROVE  Holds(c, p)' \/ Good(length[c], p, chunks'[c][p])
    <3>1. p \in Nat /\ p \in 0 .. Blocks(length[c])
      BY <1>8, <1>11, <2>4
    <3>2. CASE p = k
      BY <2>3, <2>8, <3>2
    <3>3. CASE p # k
      BY <1>5, <2>2, <2>8, <3>1, <3>3
    <3> QED
      BY <3>2, <3>3
  <2>11. ASSUME NEW p \in 0 .. Blocks(length[c]) PROVE chunks'[c][p] <= total'[c]
    <3>1. chunks[c][p] \in Nat /\ chunks[c][p] <= total[c]
      BY <2>2
    <3>2. CASE p = k
      BY <1>8, <2>1, <2>6, <2>8, <3>2
    <3>3. CASE p # k
      BY <1>8, <2>1, <2>6, <2>8, <3>1, <3>3
    <3> QED
      BY <3>2, <3>3
  <2> QED
    BY <2>8, <2>9, <2>10, <2>11
<1>14. chunks' = [d \in Callers |-> chunks'[d]]
  BY <1>1, <1>6
<1> QED
  BY <1>7, <1>9, <1>12, <1>13, <1>14 DEF GatherInv

LEMMA GatherFinish ==
  ASSUME CompressorTypeOK, CountInv, GatherInv, NEW c \in Callers, Finish(c)
  PROVE  GatherInv'
<1>1. /\ in_progress[c] = 0
      /\ stage' = [stage EXCEPT ![c] = "idle"] /\ length' = [length EXCEPT ![c] = 0]
      /\ piece_no' = [piece_no EXCEPT ![c] = 0]
      /\ is_broken' = [is_broken EXCEPT ![c] = FALSE]
      /\ total' = [total EXCEPT ![c] = 0] /\ chunks' = [chunks EXCEPT ![c] = <<>>]
      /\ UNCHANGED <<ch_out, queue, worker>>
  BY DEF Finish, Ready
<1>2. chunks = [d \in Callers |-> chunks[d]]
  BY DEF GatherInv
<1>3. /\ \A d \in Callers, p \in Nat : QueuedPiece(d, p)' <=> QueuedPiece(d, p)
      /\ \A d \in Callers, p \in Nat, n \in Size :
           /\ WorkPiece(d, p, n)' <=> WorkPiece(d, p, n)
           /\ OutPiece(d, p, n)' <=> OutPiece(d, p, n)
  BY <1>1, QueuesKept, WorkKept, OutKept
<1>4. \A d \in Callers, p \in Nat : Holds(d, p)' <=> Holds(d, p)
  BY <1>3 DEF Holds
<1>5. ASSUME NEW d \in Callers, d # c PROVE HeldOK(d)' /\ CallOK(d)' /\ TableOK(d)'
  <2>1. /\ stage'[d] = stage[d] /\ length'[d] = length[d] /\ piece_no'[d] = piece_no[d]
        /\ is_broken'[d] = is_broken[d] /\ total'[d] = total[d] /\ chunks'[d] = chunks[d]
    BY <1>1, <1>2, <1>5 DEF CompressorTypeOK
  <2>2. /\ \A p \in Nat : QueuedPiece(d, p)' => p < piece_no[d]
        /\ \A p \in Nat, n \in Size : WorkPiece(d, p, n)' \/ OutPiece(d, p, n)' => Known(d, p, n)
    BY <1>3, HeldKnown
  <2> QED
    BY <1>4, <2>1, <2>2, OnlyMoved
<1>6. HeldOK(c)'
  <2>1. \A p \in Nat : ~ Holds(c, p)'
    BY <1>1, <1>4, NothingHeld
  <2> QED
    BY <2>1 DEF HeldOK, Holds
<1>7. stage'[c] = "idle" /\ length'[c] = 0 /\ piece_no'[c] = 0 /\ is_broken'[c] = FALSE
  BY <1>1 DEF CompressorTypeOK
<1>8. CallOK(c)' /\ TableOK(c)'
  <2>1. Blocks(0) \in Nat
    BY BlocksTyped
  <2> QED
    BY <1>7, <2>1 DEF CallOK, TableOK
<1>9. chunks' = [d \in Callers |-> chunks'[d]]
  BY <1>1, <1>2
<1> QED
  BY <1>5, <1>6, <1>8, <1>9 DEF GatherInv

(* A thread gives a block a size it may have.                              *)
LEMMA ResultsGood ==
  ASSUME CompressorTypeOK, GatherInv, NEW b \in Block, b.piece < piece_no[b.caller],
         NEW m \in Size, m \in Results(b)
  PROVE  Known(b.caller, b.piece, m)
<1>1. b.caller \in Callers /\ b.piece \in Nat
  BY DEF Block
<1> DEFINE len == length[b.caller]
<1>2. /\ len \in Nat /\ piece_no[b.caller] \in Nat
      /\ piece_no[b.caller] <= Blocks(len) /\ len \in Lengths[b.caller]
  BY <1>1 DEF CompressorTypeOK, GatherInv, CallOK
<1>3. CASE m = -1
  BY <1>3 DEF Known
<1>4. CASE m # -1
  <2>1. /\ m \in Compressed
        /\ m <= IF Short(len) THEN len - FastOffset ELSE BlockLen(len, b.piece)
    BY <1>4 DEF Results
  <2>2. CASE Short(len)
    <3>1. Blocks(len) = 1
      BY <1>1, <1>2, <2>2, LengthsTyped
    <3>2. b.piece = 0
      BY <1>1, <1>2, <3>1
    <3>3. BlockLen(len, b.piece) = len
      BY <1>2, <2>2, <3>2, CapsTyped DEF BlockLen, Short
    <3>4. m \in Nat
      BY <2>1, CompressorAssumption
    <3>5. m <= len
      BY <1>2, <2>1, <2>2, <3>4 DEF FastOffset
    <3> QED
      BY <2>1, <3>3, <3>5 DEF Known, Good
  <2>3. CASE ~ Short(len)
    BY <2>1, <2>3 DEF Known, Good
  <2> QED
    BY <2>2, <2>3
<1> QED
  BY <1>3, <1>4

LEMMA GatherTake ==
  ASSUME CompressorTypeOK, GatherInv, NEW w \in Threads, Take(w)
  PROVE  GatherInv'
<1>1. PICK b \in Block, m \in Size :
        /\ m \in Results(b) /\ QueuedPiece(b.caller, b.piece)
        /\ \A d \in Callers, p \in Nat :
             /\ QueuedPiece(d, p)' => QueuedPiece(d, p)
             /\ QueuedPiece(d, p) => QueuedPiece(d, p)' \/ (d = b.caller /\ p = b.piece)
        /\ \A d \in Callers, p \in Nat, n \in Size :
             WorkPiece(d, p, n)' <=>
               WorkPiece(d, p, n) \/ (d = b.caller /\ p = b.piece /\ n = m)
  BY TakeMoves
<1>2. b.caller \in Callers /\ b.piece \in Nat
  BY DEF Block
<1>3. Known(b.caller, b.piece, m)
  BY <1>1, <1>2, HeldKnown, ResultsGood
<1>4. UNCHANGED <<callerVars, ch_out>>
  BY DEF Take
<1>5. \A d \in Callers, p \in Nat, n \in Size : OutPiece(d, p, n)' <=> OutPiece(d, p, n)
  BY <1>4, OutKept
<1>6. ASSUME NEW d \in Callers PROVE HeldOK(d)' /\ CallOK(d)' /\ TableOK(d)'
  <2>1. \A p \in Nat : QueuedPiece(d, p)' => p < piece_no[d]
    BY <1>1, HeldKnown
  <2>2. \A p \in Nat, n \in Size : WorkPiece(d, p, n)' \/ OutPiece(d, p, n)' => Known(d, p, n)
    BY <1>1, <1>3, <1>5, HeldKnown
  <2>3. \A p \in Nat : Holds(d, p) => Holds(d, p)'
    BY <1>1, <1>5 DEF Holds
  <2> QED
    BY <1>4, <2>1, <2>2, <2>3, OnlyMoved DEF callerVars
<1> QED
  BY <1>4, <1>6 DEF GatherInv, callerVars

LEMMA GatherDone ==
  ASSUME CompressorTypeOK, GatherInv, NEW w \in Threads, Done(w)
  PROVE  GatherInv'
<1>1. PICK c \in Callers, k \in Nat, m \in Size :
        /\ WorkPiece(c, k, m)
        /\ \A d \in Callers, p \in Nat, n \in Size :
             /\ WorkPiece(d, p, n)' => WorkPiece(d, p, n)
             /\ WorkPiece(d, p, n) => WorkPiece(d, p, n)' \/ (d = c /\ p = k /\ n = m)
             /\ OutPiece(d, p, n)' <=> OutPiece(d, p, n) \/ (d = c /\ p = k /\ n = m)
  BY DoneMoves
<1>2. UNCHANGED <<callerVars, queue>>
  BY DEF Done
<1>3. \A d \in Callers, p \in Nat : QueuedPiece(d, p)' <=> QueuedPiece(d, p)
  BY <1>2, QueuesKept
<1>4. ASSUME NEW d \in Callers PROVE HeldOK(d)' /\ CallOK(d)' /\ TableOK(d)'
  <2>1. \A p \in Nat : QueuedPiece(d, p)' => p < piece_no[d]
    BY <1>3, HeldKnown
  <2>2. \A p \in Nat, n \in Size : WorkPiece(d, p, n)' \/ OutPiece(d, p, n)' => Known(d, p, n)
    BY <1>1, HeldKnown
  <2>3. \A p \in Nat : Holds(d, p) => Holds(d, p)'
    BY <1>1, <1>3 DEF Holds
  <2> QED
    BY <1>2, <2>1, <2>2, <2>3, OnlyMoved DEF callerVars
<1> QED
  BY <1>2, <1>4 DEF GatherInv, callerVars
LEMMA NextGather ==
  ASSUME CompressorTypeOK, CountInv, GatherInv, [CompressorNext]_compressorVars
  PROVE  GatherInv'
<1>1. ASSUME NEW c \in Callers, Begin(c) PROVE GatherInv'
  BY <1>1, GatherBegin
<1>2. ASSUME NEW c \in Callers PROVE CallOK(c) /\ length[c] \in Nat /\ piece_no[c] \in Nat /\ Blocks(length[c]) \in Nat
  BY BlocksTyped DEF GatherInv, CompressorTypeOK
<1>3. ASSUME NEW c \in Callers, SendFast(c) PROVE GatherInv'
  <2>1. /\ stage[c] = "fast" /\ Put("fast", c) /\ piece_no' = [piece_no EXCEPT ![c] = 1]
        /\ stage' = [stage EXCEPT ![c] = "wait"]
        /\ UNCHANGED <<length, is_broken, total, chunks, ch_out, worker>>
    BY <1>3 DEF SendFast
  <2>2. piece_no[c] = 0 /\ Blocks(length[c]) = 1
    BY <1>2, <2>1, LengthsTyped DEF CallOK
  <2>3. PICK k \in Nat : k = 1
    OBVIOUS
  <2>4. k = piece_no[c] + 1 /\ k = Blocks(length[c]) /\ piece_no' = [piece_no EXCEPT ![c] = k]
    BY <2>1, <2>2, <2>3
  <2>5. PICK next \in {"wait", "get", "drain", "send"} : next = "wait"
    OBVIOUS
  <2> QED
    <3>1. /\ stage' = [stage EXCEPT ![c] = next] /\ next # "send" /\ k <= Blocks(length[c])
          /\ stage[c] # "idle" /\ "fast" \in Channels
      BY <2>1, <2>4, <2>5, ChannelsKnown
    <3> QED
      BY <2>1, <2>4, <3>1, GatherSend
<1>4. ASSUME NEW c \in Callers, SendPiece(c) PROVE GatherInv'
  <2>1. /\ stage[c] = "send" /\ Put("normal", c) /\ piece_no' = [piece_no EXCEPT ![c] = piece_no[c] + 1]
        /\ stage' = [stage EXCEPT ![c] = AfterSending(c)]
        /\ UNCHANGED <<length, is_broken, total, chunks, ch_out, worker>>
    BY <1>4 DEF SendPiece
  <2>2. PICK k \in Nat : k = piece_no[c] + 1
    BY <1>2
  <2>3. k <= Blocks(length[c]) /\ piece_no' = [piece_no EXCEPT ![c] = k] /\ piece_no'[c] = k
    BY <1>2, <2>1, <2>2 DEF CallOK, CompressorTypeOK
  <2>4. PICK next \in {"wait", "get", "drain", "send"} : next = AfterSending(c)
    BY DEF AfterSending
  <2>5. /\ next = "send" => k # Blocks(length[c])
        /\ next \in {"wait", "drain"} => k = Blocks(length[c])
    BY <2>3, <2>4 DEF AfterSending
  <2> QED
    BY <2>1, <2>2, <2>3, <2>4, <2>5, ChannelsKnown, GatherSend
<1>5. ASSUME NEW c \in Callers, GetPiece(c) PROVE GatherInv'
  <2>1. /\ stage[c] = "get" /\ GetNextPiece(c) /\ stage' = [stage EXCEPT ![c] = AfterGetting(c)]
        /\ UNCHANGED <<length, piece_no, queue, worker>>
    BY <1>5 DEF GetPiece
  <2>2. PICK next \in {"drain", "send"} : next = AfterGetting(c)
    BY DEF AfterGetting
  <2>3. /\ next = "send" => piece_no[c] # Blocks(length[c])
        /\ next = "drain" /\ ~ is_broken'[c] => piece_no[c] = Blocks(length[c])
    BY <2>2 DEF AfterGetting
  <2> QED
    BY <2>1, <2>2, <2>3, GatherGet
<1>6. ASSUME NEW c \in Callers, GetFast(c) \/ Drain(c) PROVE GatherInv'
  <2>1. /\ stage[c] \in {"wait", "drain"} /\ GetNextPiece(c) /\ stage' = [stage EXCEPT ![c] = "drain"]
        /\ UNCHANGED <<length, piece_no, queue, worker>>
    BY <1>6 DEF GetFast, Drain, CompressorTypeOK
  <2>2. PICK next \in {"drain", "send"} : next = "drain"
    OBVIOUS
  <2>3. ~ is_broken'[c] => piece_no[c] = Blocks(length[c])
    <3>1. ~ is_broken'[c] => ~ is_broken[c]
      BY <2>1 DEF GetNextPiece, CompressorTypeOK
    <3> QED
      BY <1>2, <2>1, <3>1 DEF CallOK
  <2> QED
    BY <2>1, <2>2, <2>3, GatherGet
<1>7. ASSUME NEW c \in Callers, Finish(c) PROVE GatherInv'
  BY <1>7, GatherFinish
<1>8. ASSUME NEW w \in Threads, Take(w) \/ Done(w) PROVE GatherInv'
  BY <1>8, GatherTake, GatherDone
<1>9. CASE UNCHANGED compressorVars
  <2>1. UNCHANGED <<callerVars, ch_out, queue, worker>>
    BY <1>9 DEF compressorVars
  <2>2. /\ \A d \in Callers, p \in Nat : QueuedPiece(d, p)' <=> QueuedPiece(d, p)
        /\ \A d \in Callers, p \in Nat, n \in Size :
             /\ WorkPiece(d, p, n)' <=> WorkPiece(d, p, n)
             /\ OutPiece(d, p, n)' <=> OutPiece(d, p, n)
    BY <2>1, QueuesKept, WorkKept, OutKept
  <2>3. ASSUME NEW d \in Callers PROVE HeldOK(d)' /\ CallOK(d)' /\ TableOK(d)'
    <3>1. /\ \A p \in Nat : QueuedPiece(d, p)' => p < piece_no[d]
          /\ \A p \in Nat, n \in Size : WorkPiece(d, p, n)' \/ OutPiece(d, p, n)' => Known(d, p, n)
      BY <2>2, HeldKnown
    <3>2. \A p \in Nat : Holds(d, p) => Holds(d, p)'
      BY <2>2 DEF Holds
    <3> QED
      BY <2>1, <3>1, <3>2, OnlyMoved DEF callerVars
  <2> QED
    BY <2>1, <2>3 DEF GatherInv, callerVars
<1> QED
  BY <1>1, <1>3, <1>4, <1>5, <1>6, <1>7, <1>8, <1>9 DEF CompressorNext, Call, Thread

LEMMA InitGather ==
  ASSUME CompressorInit
  PROVE  GatherInv
<1>1. \A c \in Callers : in_progress[c] = 0
  BY DEF CompressorInit
<1>2. \A c \in Callers, p \in Nat : ~ Holds(c, p)
  BY <1>1, InitCount, NothingHeld
<1>3. ASSUME NEW c \in Callers PROVE HeldOK(c) /\ CallOK(c) /\ TableOK(c)
  <2>1. stage[c] = "idle" /\ piece_no[c] = 0 /\ is_broken[c] = FALSE /\ length[c] = 0
    BY DEF CompressorInit
  <2>2. Blocks(0) \in Nat
    BY BlocksTyped
  <2> QED
    BY <1>2, <2>1, <2>2 DEF HeldOK, CallOK, TableOK, Holds
<1>4. chunks = [c \in Callers |-> chunks[c]]
  BY DEF CompressorInit
<1> QED
  BY <1>3, <1>4 DEF GatherInv

(* What a caller has when all its blocks are back and good.                *)
LEMMA AllBack ==
  ASSUME CompressorTypeOK, CountInv, GatherInv, NEW c \in Callers, Ready(c), ~ is_broken[c],
         NEW len, len = length[c], NEW n, n = Blocks(len)
  PROVE  /\ len \in Lengths[c]
         /\ chunks[c] \in [0 .. n -> Nat] /\ chunks[c][n] = 0
         /\ \A p \in 0 .. n - 1 : chunks[c][p] >= 1 /\ chunks[c][p] <= BlockLen(len, p)
         /\ \A p \in 0 .. n : chunks[c][p] <= total[c]
<1>1. stage[c] = "drain" /\ in_progress[c] = 0
  BY DEF Ready
<1>2. CallOK(c) /\ TableOK(c)
  BY DEF GatherInv
<1>3. /\ len \in Lengths[c] /\ piece_no[c] = n
  BY <1>1, <1>2 DEF CallOK
<1>4. /\ chunks[c] \in [0 .. n -> Nat] /\ chunks[c][n] = 0
      /\ \A p \in 0 .. n - 1 : Holds(c, p) \/ Good(len, p, chunks[c][p])
      /\ \A p \in 0 .. n : chunks[c][p] <= total[c]
  BY <1>1, <1>2, <1>3 DEF TableOK
<1>5. ASSUME NEW p \in 0 .. n - 1 PROVE chunks[c][p] >= 1 /\ chunks[c][p] <= BlockLen(len, p)
  <2>1. p \in Nat /\ ~ Holds(c, p)
    BY <1>1, NothingHeld
  <2>2. Good(len, p, chunks[c][p])
    BY <1>4, <2>1
  <2>3. \A k \in Compressed : k \in Nat /\ k >= 1
    BY CompressorAssumption
  <2> QED
    BY <2>2, <2>3 DEF Good
<1> QED
  BY <1>3, <1>4, <1>5
-----------------------------------------------------------------------------
(* Tables of sizes and what is read by them                                *)

LEMMA BeforeIsSum == \A s, p : Before(s, p) = SumFunctionOnSet(s, 0 .. p - 1)
BY DEF Before

LEMMA BeforeSteps ==
  ASSUME NEW n \in Nat, NEW ch \in [0 .. n -> Nat]
  PROVE  /\ Before(ch, 0) = 0
         /\ \A p \in 0 .. n : Before(ch, p) \in Nat
         /\ \A p \in 0 .. n - 1 : Before(ch, p + 1) = Before(ch, p) + ch[p]
<1>1. Before(ch, 0) = 0
  <2>1. 0 .. 0 - 1 = {}
    OBVIOUS
  <2> QED
    BY <2>1, SumOfNothing, BeforeIsSum
<1>2. ASSUME NEW p \in 0 .. n PROVE Before(ch, p) \in Nat
  <2>1. IsFiniteSet(0 .. p - 1)
    BY FirstAreFinite
  <2>2. \A x \in 0 .. p - 1 : ch[x] \in Nat
    BY <1>2
  <2> QED
    BY <2>1, <2>2, SumOfNaturals, BeforeIsSum
<1>3. ASSUME NEW p \in 0 .. n - 1 PROVE Before(ch, p + 1) = Before(ch, p) + ch[p]
  <2>1. p \in Nat /\ (p + 1) - 1 = p /\ \A x \in 0 .. p : ch[x] \in Int
    OBVIOUS
  <2>2. /\ SumFunctionOnSet(ch, 0 .. p) = ch[p] + SumFunctionOnSet(ch, 0 .. p - 1)
        /\ SumFunctionOnSet(ch, 0 .. p - 1) \in Int
    BY <2>1, SumUpTo
  <2> QED
    BY <2>1, <2>2, BeforeIsSum
<1> QED
  BY <1>1, <1>2, <1>3

LEMMA BeforeNext ==
  ASSUME NEW n \in Nat, NEW ch \in [0 .. n -> Nat], NEW p \in 0 .. n - 1
  PROVE  /\ Before(ch, p) \in Nat /\ Before(ch, p + 1) \in Nat /\ ch[p] \in Nat
         /\ Before(ch, p + 1) = Before(ch, p) + ch[p]
<1>1. p \in 0 .. n /\ p + 1 \in 0 .. n
  OBVIOUS
<1>2. ch[p] \in Nat
  BY <1>1
<1>3. Before(ch, p) \in Nat /\ Before(ch, p + 1) \in Nat
  BY <1>1, BeforeSteps
<1>4. Before(ch, p + 1) = Before(ch, p) + ch[p]
  BY BeforeSteps
<1> QED
  BY <1>2, <1>3, <1>4

LEMMA BeforeGrows ==
  ASSUME NEW n \in Nat, NEW ch \in [0 .. n -> Nat], NEW p \in 0 .. n, NEW j \in 0 .. p
  PROVE  Before(ch, j) <= Before(ch, p)
<1>1. IsFiniteSet(0 .. p - 1) /\ 0 .. j - 1 \subseteq 0 .. p - 1 /\ \A x \in 0 .. p - 1 : ch[x] \in Nat
  BY FirstAreFinite
<1> QED
  BY <1>1, SumOfPart, BeforeIsSum

(* Where Uncompress finds the end of the table, and the sizes before it.   *)
Ends(in, i) == in[i] = Entry(0) /\ \A j \in 1 .. i - 1 : in[j] # Entry(0)
TableEnd(in) == CHOOSE i \in 1 .. Len(in) : Ends(in, i)
TableSizes(in) == [i \in 0 .. TableEnd(in) - 2 |-> in[i + 1][1]]
Part(in, start, size) == SubSeq(in, start + 1, start + size)

LEMMA UncompressParts ==
  ASSUME NEW in, NEW m, m = TableEnd(in), NEW sizes, sizes = TableSizes(in)
  PROVE  Uncompress(in) =
           [i \in 1 .. m - 1 |-> Part(in, m + Before(sizes, i - 1), sizes[i - 1])]
BY DEF Uncompress, TableEnd, Ends, TableSizes, Part

(* The sizes of one block or more, and the blocks of these sizes.          *)
Sized(n, ch) ==
  /\ n \in Nat /\ n >= 1
  /\ ch \in [0 .. n -> Nat] /\ ch[n] = 0
  /\ \A p \in 0 .. n - 1 : ch[p] >= 1
Original(n, ch) == [i \in 1 .. n |-> [k \in 1 .. ch[i - 1] |-> <<i - 1, k - 1>>]]

(* A table of sizes, its 0, and the blocks in their order behind it.       *)
LaidOut(S, n, ch, in) ==
  /\ in \in Seq(S) /\ Len(in) = n + 1 + Before(ch, n)
  /\ \A x \in 0 .. n : in[x + 1] = Entry(ch[x])
  /\ \A p \in 0 .. n - 1 : \A k \in 1 .. ch[p] :
       in[n + 1 + Before(ch, p) + k] = <<p, k - 1>>

(* What is laid out so is read so.                                         *)
LEMMA ReadAsLaidOut ==
  ASSUME NEW n, NEW ch, Sized(n, ch), NEW S, NEW in, LaidOut(S, n, ch, in)
  PROVE  Uncompress(in) = Original(n, ch)
<1> n \in Nat /\ n >= 1 /\ ch \in [0 .. n -> Nat] /\ ch[n] = 0 /\ \A p \in 0 .. n - 1 : ch[p] >= 1
  BY DEF Sized
<1>1. /\ in \in Seq(S) /\ Len(in) = n + 1 + Before(ch, n)
      /\ \A x \in 0 .. n : in[x + 1] = Entry(ch[x])
      /\ \A p \in 0 .. n - 1 : \A k \in 1 .. ch[p] :
           in[n + 1 + Before(ch, p) + k] = <<p, k - 1>>
  BY DEF LaidOut
<1>2. Before(ch, n) \in Nat /\ Len(in) >= n + 1 /\ Len(in) \in Nat
  <2>1. n \in 0 .. n
    OBVIOUS
  <2>2. Before(ch, n) \in Nat
    BY <2>1, BeforeSteps
  <2> QED
    BY <1>1, <2>2
<1>3. \A x, y : Entry(x) = Entry(y) => x = y
  BY DEF Entry
<1>4. \A i \in 1 .. n + 1 : in[i] = Entry(ch[i - 1]) /\ (in[i] = Entry(0) <=> i = n + 1)
  <2> SUFFICES ASSUME NEW i \in 1 .. n + 1
               PROVE  in[i] = Entry(ch[i - 1]) /\ (in[i] = Entry(0) <=> i = n + 1)
    OBVIOUS
  <2>1. PICK x \in 0 .. n : x = i - 1 /\ i = x + 1
    OBVIOUS
  <2>2. in[i] = Entry(ch[x])
    BY <1>1, <2>1
  <2>3. ch[x] = 0 <=> x = n
    OBVIOUS
  <2> QED
    BY <1>3, <2>1, <2>2, <2>3
<1>5. n + 1 \in 1 .. Len(in) /\ Ends(in, n + 1)
  <2>1. \A j \in 1 .. (n + 1) - 1 : j \in 1 .. n + 1 /\ j # n + 1
    OBVIOUS
  <2>2. n + 1 \in 1 .. n + 1
    OBVIOUS
  <2> QED
    <3>1. n + 1 \in 1 .. Len(in)
      BY <1>2
    <3>2. in[n + 1] = Entry(0)
      BY <1>4, <2>2
    <3>3. \A j \in 1 .. (n + 1) - 1 : in[j] # Entry(0)
      BY <1>4, <2>1
    <3> QED
      BY <3>1, <3>2, <3>3 DEF Ends
<1>6. \A i \in 1 .. Len(in) : Ends(in, i) => i = n + 1
  <2> SUFFICES ASSUME NEW i \in 1 .. Len(in), Ends(in, i) PROVE i = n + 1
    OBVIOUS
  <2>1. CASE i < n + 1
    <3>1. i \in 1 .. n + 1 /\ i # n + 1
      BY <2>1
    <3> QED
      BY <1>4, <3>1 DEF Ends
  <2>2. CASE i > n + 1
    <3>1. n + 1 \in 1 .. i - 1 /\ n + 1 \in 1 .. n + 1
      BY <2>2
    <3> QED
      BY <1>4, <3>1 DEF Ends
  <2> QED
    BY <2>1, <2>2
<1>7. TableEnd(in) = n + 1
  BY <1>5, <1>6 DEF TableEnd
<1>8. PICK m \in Nat : m = n + 1
  OBVIOUS
<1>9. PICK sizes : sizes = TableSizes(in)
  OBVIOUS
<1>10. \A i \in 0 .. n - 1 : sizes[i] = ch[i]
  <2> SUFFICES ASSUME NEW i \in 0 .. n - 1 PROVE sizes[i] = ch[i]
    OBVIOUS
  <2>1. i + 1 \in 1 .. n + 1 /\ (i + 1) - 1 = i /\ 0 .. (n + 1) - 2 = 0 .. n - 1
    OBVIOUS
  <2>2. sizes[i] = in[i + 1][1]
    BY <1>7, <1>9, <2>1 DEF TableSizes
  <2>3. in[i + 1] = Entry(ch[i])
    BY <1>4, <2>1
  <2> QED
    BY <2>2, <2>3 DEF Entry
<1>11. ASSUME NEW p \in 0 .. n - 1 PROVE Before(sizes, p) = Before(ch, p)
  <2>1. PICK first : first = 0 .. p - 1
    OBVIOUS
  <2>2. p - 1 \in Int /\ \A x \in first : x \in 0 .. n - 1
    BY <2>1
  <2>3. IsFiniteSet(first)
    BY <2>1, <2>2, FirstAreFinite
  <2>4. \A x \in first : sizes[x] = ch[x]
    BY <1>10, <2>2
  <2>5. SumFunctionOnSet(sizes, first) = SumFunctionOnSet(ch, first)
    BY <2>3, <2>4, SumEqual
  <2> QED
    BY <2>1, <2>5, BeforeIsSum
<1>12. ASSUME NEW p \in 0 .. n - 1
       PROVE  Part(in, m + Before(sizes, p), sizes[p]) = [k \in 1 .. ch[p] |-> <<p, k - 1>>]
  <2>1. p \in 0 .. n /\ p + 1 \in 0 .. n
    OBVIOUS
  <2>2. Before(ch, p) \in Nat /\ Before(ch, p + 1) \in Nat
    BY <2>1, BeforeSteps
  <2>3. PICK start \in Nat : start = m + Before(sizes, p) /\ start = n + 1 + Before(ch, p)
    BY <1>8, <1>11, <2>2
  <2>4. PICK size \in Nat : size = ch[p] /\ size = sizes[p]
    BY <1>10
  <2>5. start + size <= Len(in)
    <3>1. Before(ch, p + 1) = Before(ch, p) + ch[p] 
      BY <2>1, BeforeSteps
    <3>2. Before(ch, p + 1) <= Before(ch, n)
      <4>1. PICK j : j = p + 1
        OBVIOUS
      <4>2. j \in 0 .. n /\ n \in 0 .. n
        BY <2>1, <4>1
      <4> QED
        BY <4>1, <4>2, BeforeGrows
    <3>3. Before(ch, p) + size <= Before(ch, n)
      BY <2>4, <3>1, <3>2
    <3>4. PICK b \in Nat : b = Before(ch, p)
      BY <2>2
    <3>5. PICK e \in Nat : e = Before(ch, n)
      BY <1>2
    <3>6. start = n + 1 + b /\ b + size <= e /\ Len(in) = n + 1 + e
      BY <1>1, <2>3, <3>3, <3>4, <3>5
    <3> QED
      BY <3>6
  <2>6. \A k \in start + 1 .. start + size : in[k] \in S
    <3>1. \A k \in start + 1 .. start + size : k \in 1 .. Len(in)
      BY <1>2, <2>5
    <3> QED
      BY <1>1, <3>1, ElementOfSeq
  <2> DEFINE s == SubSeq(in, start + 1, start + size)
  <2>7. /\ s \in Seq(S) /\ Len(s) = size
        /\ \A k \in 1 .. size : s[k] = in[start + k]
    <3>1. start + 1 \in Int /\ start + size \in Int
      OBVIOUS
    <3>2. /\ s \in Seq(S)
          /\ Len(s) = IF start + 1 <= start + size THEN (start + size) - (start + 1) + 1 ELSE 0
          /\ \A k \in 1 .. (start + size) - (start + 1) + 1 : s[k] = in[(start + 1) + k - 1]
      <4> HIDE DEF s
      <4> QED
        BY <1>1, <2>6, <3>1, SubSeqProperties DEF s
    <3>3. (start + size) - (start + 1) + 1 = size /\ \A k \in 1 .. size : (start + 1) + k - 1 = start + k
      OBVIOUS
    <3> HIDE DEF s
    <3>4. Len(s) = size
      BY <3>2, <3>3
    <3> QED
      BY <3>2, <3>3, <3>4
  <2> HIDE DEF s
  <2>8. \A k \in 1 .. size : s[k] = <<p, k - 1>>
    BY <1>1, <2>3, <2>4, <2>7
  <2>9. s = [k \in 1 .. size |-> s[k]]
    <3>1. s = [k \in 1 .. Len(s) |-> s[k]]
      BY <2>7, LenProperties
    <3> QED
      BY <2>7, <3>1
  <2>10. s = [k \in 1 .. size |-> <<p, k - 1>>]
    BY <2>8, <2>9
  <2> QED
    BY <2>3, <2>4, <2>10 DEF Part, s
<1>13. Uncompress(in) = [i \in 1 .. n |-> Part(in, m + Before(sizes, i - 1), sizes[i - 1])]
  <2>1. m = TableEnd(in) /\ m - 1 = n
    BY <1>7, <1>8
  <2>2. Uncompress(in) = [i \in 1 .. m - 1 |-> Part(in, m + Before(sizes, i - 1), sizes[i - 1])]
    BY <1>9, <2>1, UncompressParts
  <2> QED
    BY <2>1, <2>2
<1>14. \A i \in 1 .. n : i - 1 \in 0 .. n - 1
  OBVIOUS
<1>15. \A i \in 1 .. n : Part(in, m + Before(sizes, i - 1), sizes[i - 1]) =
                           [k \in 1 .. ch[i - 1] |-> <<i - 1, k - 1>>]
  BY <1>12, <1>14
<1> QED
  BY <1>13, <1>15 DEF Original

-----------------------------------------------------------------------------
(* Blocks moved one after another                                          *)

LEMMA PlacesInBlocks ==
  ASSUME NEW b \in Nat \ {0}, NEW p \in Nat, NEW k \in 0 .. b - 1, NEW x, x = p * b + k
  PROVE  x \div b = p /\ x % b = k
<1>1. x \in Nat /\ p * b \in Nat
  OBVIOUS
<1>2. PICK q \in Nat : q = x \div b /\ q * b <= x /\ x < q * b + b
  BY <1>1, Division
<1>3. ~ q < p
  <2>1. ASSUME q < p PROVE FALSE
    <3>1. PICK d \in Nat : p = q + 1 + d
      <4>1. p - q - 1 \in Nat /\ p = q + 1 + (p - q - 1)
        BY <2>1
      <4> QED
        BY <4>1
    <3>2. p * b = q * b + b + d * b /\ d * b >= 0
      BY <3>1
    <3> QED
      BY <1>2, <3>2
  <2> QED
    BY <2>1
<1>4. ~ p < q
  <2>1. ASSUME p < q PROVE FALSE
    <3>1. PICK d \in Nat : q = p + 1 + d
      <4>1. q - p - 1 \in Nat /\ q = p + 1 + (q - p - 1)
        BY <2>1
      <4> QED
        BY <4>1
    <3>2. q * b = p * b + b + d * b /\ d * b >= 0
      BY <3>1
    <3> QED
      BY <1>2, <3>2
  <2> QED
    BY <2>1
<1>5. x \div b = p
  BY <1>2, <1>3, <1>4
<1>6. x \in Int
  BY <1>1
<1>7. x % b \in 0 .. b - 1 /\ \E z \in Int : x = z * b + (x % b)
  BY <1>6, PlaceExists, Zenon
<1>8. PICK z \in Int : x = z * b + (x % b)
  BY <1>7
<1>9. PICK r \in 0 .. b - 1 : r = x % b
  BY <1>7
<1>10. z * b + r = p * b + k
  BY <1>8, <1>9
<1>11. r = k
  BY <1>10, PlaceUnique
<1> QED
  BY <1>5, <1>9, <1>11

(* Where block p goes, and the buffers from one move to the next.          *)
At(n, ch, p) == n + 1 + Before(ch, p)
Compact(len, ch) ==
  [x \in 0 .. len - 1 |->
     LET p == x \div BlockSize
     IN IF x % BlockSize < ch[p] THEN <<p, x % BlockSize>> ELSE Blank]
Moves(n, len, ch, f) ==
  /\ f[0] = Compact(len, ch)
  /\ \A p \in 0 .. n - 1 : f[p + 1] = Move(f[p], At(n, ch, p), p * BlockSize, ch[p])

(* Blocks that fit: into their own places, each into its final one, and    *)
(* none into the place of one that is still to be moved.                   *)
AllFit(n, len, ch) ==
  /\ \A p \in 0 .. n - 1 :
       ch[p] <= BlockSize /\ p * BlockSize + ch[p] <= len /\ At(n, ch, p + 1) <= len
  /\ \A p \in 1 .. n - 1 : At(n, ch, p) <= p * BlockSize

LEMMA CompactAt ==
  ASSUME NEW len \in Nat, NEW ch, NEW p \in Nat, NEW k \in Nat,
         k < BlockSize, p * BlockSize + k < len, k < ch[p]
  PROVE  Compact(len, ch)[p * BlockSize + k] = <<p, k>>
<1>1. PICK x \in Nat : x = p * BlockSize + k
  BY CapsTyped
<1>2. BlockSize \in Nat \ {0} /\ k \in 0 .. BlockSize - 1
  BY CapsTyped
<1>3. x \div BlockSize = p /\ x % BlockSize = k
  BY <1>1, <1>2, PlacesInBlocks
<1>4. x \in 0 .. len - 1
  BY <1>1
<1> QED
  BY <1>1, <1>3, <1>4 DEF Compact

Cut(len, dst, src, n, out, new) ==
  /\ DOMAIN new = 0 .. len - 1
  /\ \A k \in 0 .. n - 1 : new[dst + k] = out[src + k]
  /\ \A x \in 0 .. len - 1 : x < dst \/ x >= dst + n => new[x] = out[x]

LEMMA MoveAt ==
  ASSUME NEW len \in Nat, NEW out, DOMAIN out = 0 .. len - 1,
         NEW dst \in Nat, NEW src \in Nat, NEW n \in Nat, dst + n <= len
  PROVE  Cut(len, dst, src, n, out, Move(out, dst, src, n))
<1>1. PICK new : new = Move(out, dst, src, n)
  OBVIOUS
<1>2. new = [x \in 0 .. len - 1 |-> IF x \in dst .. dst + n - 1 THEN out[src + x - dst] ELSE out[x]]
  BY <1>1 DEF Move
<1>3. ASSUME NEW k \in 0 .. n - 1 PROVE new[dst + k] = out[src + k]
  <2>1. PICK x \in Nat : x = dst + k
    OBVIOUS
  <2>2. x \in 0 .. len - 1 /\ x \in dst .. dst + n - 1 /\ src + x - dst = src + k
    BY <2>1
  <2>3. new[x] = out[src + x - dst]
    BY <1>2, <2>2
  <2> QED
    BY <2>1, <2>2, <2>3
<1>4. ASSUME NEW x \in 0 .. len - 1, x < dst \/ x >= dst + n PROVE new[x] = out[x]
  <2>1. x \notin dst .. dst + n - 1
    BY <1>4
  <2> QED
    BY <1>2, <2>1
<1> QED
  BY <1>1, <1>2, <1>3, <1>4 DEF Cut

(* The blocks before the m-th are behind the table, the others are where   *)
(* they were compressed to.                                                *)
MovedTo(n, len, ch, m, out) ==
  /\ DOMAIN out = 0 .. len - 1
  /\ \A p \in 0 .. m - 1 : \A k \in 0 .. ch[p] - 1 : out[At(n, ch, p) + k] = <<p, k>>
  /\ \A p \in m .. n - 1 : \A k \in 0 .. ch[p] - 1 : out[p * BlockSize + k] = <<p, k>>

LEMMA OneMove ==
  ASSUME NEW n \in Nat, NEW len \in Nat, NEW ch \in [0 .. n -> Nat], AllFit(n, len, ch),
         NEW m \in 0 .. n - 1, NEW out, MovedTo(n, len, ch, m, out),
         NEW new, new = Move(out, At(n, ch, m), m * BlockSize, ch[m])
  PROVE  MovedTo(n, len, ch, m + 1, new)
<1>1. m \in 0 .. n /\ m + 1 \in 0 .. n /\ m \in Nat
  OBVIOUS
<1>2. ASSUME NEW p \in 0 .. n PROVE At(n, ch, p) \in Nat
  <2>1. Before(ch, p) \in Nat
    BY BeforeSteps
  <2> QED
    BY <2>1 DEF At
<1>3. PICK dst \in Nat : dst = At(n, ch, m)
  BY <1>1, <1>2
<1>4. PICK src \in Nat : src = m * BlockSize
  BY <1>1, CapsTyped
<1>5. PICK s \in Nat : s = ch[m]
  BY <1>1
<1>6. At(n, ch, m + 1) = dst + s
  <2>1. Before(ch, m + 1) = Before(ch, m) + ch[m] /\ Before(ch, m) \in Nat
    BY <1>1, BeforeSteps
  <2> QED
    BY <1>3, <1>5, <2>1 DEF At
<1>7. dst + s <= len /\ src + s <= len
  BY <1>4, <1>5, <1>6 DEF AllFit
<1>8. DOMAIN out = 0 .. len - 1 /\ new = Move(out, dst, src, s)
  BY <1>3, <1>4, <1>5 DEF MovedTo
<1>9. /\ DOMAIN new = 0 .. len - 1
      /\ \A k \in 0 .. s - 1 : new[dst + k] = out[src + k]
      /\ \A x \in 0 .. len - 1 : x < dst \/ x >= dst + s => new[x] = out[x]
  <2>1. dst + s <= len /\ DOMAIN out = 0 .. len - 1
    BY <1>7, <1>8
  <2>2. dst \in Nat /\ src \in Nat /\ s \in Nat
    BY <1>3, <1>4, <1>5
  <2>3. Cut(len, dst, src, s, out, Move(out, dst, src, s))
    BY <2>1, <2>2, MoveAt
  <2> QED
    BY <1>8, <2>3 DEF Cut
<1>10. ASSUME NEW p \in 0 .. (m + 1) - 1, NEW k \in 0 .. ch[p] - 1
      PROVE  new[At(n, ch, p) + k] = <<p, k>>
  <2>1. CASE p = m
    <3>1. k \in 0 .. s - 1 /\ m \in m .. n - 1
      BY <1>5, <2>1
    <3>2. out[m * BlockSize + k] = <<m, k>>
      BY <1>5, <3>1 DEF MovedTo
    <3> QED
      BY <1>3, <1>4, <1>9, <2>1, <3>1, <3>2
  <2>2. CASE p # m
    <3>1. p \in 0 .. m - 1 /\ p \in 0 .. n - 1 /\ p \in 0 .. n
      BY <2>2
    <3>2. PICK t \in Nat : t = ch[p]
      BY <3>1
    <3>3. PICK a \in Nat : a = At(n, ch, p)
      BY <1>2, <3>1
    <3>4. a + t <= dst
      <4>1. Before(ch, p + 1) = Before(ch, p) + ch[p] /\ Before(ch, p) \in Nat
        BY <3>1, BeforeNext
      <4>2. PICK j : j = p + 1
        OBVIOUS
      <4>3. j \in 0 .. m
        BY <3>1, <4>2
      <4>4. Before(ch, j) <= Before(ch, m)
        BY <1>1, <4>3, BeforeGrows
      <4>5. Before(ch, m) \in Nat
        BY <1>1, BeforeSteps
      <4>6. PICK e \in Nat : e = Before(ch, p)
        BY <4>1
      <4>7. PICK g \in Nat : g = Before(ch, m)
        BY <4>5
      <4>8. e + t <= g
        BY <3>2, <4>1, <4>2, <4>4, <4>6, <4>7
      <4>9. a = n + 1 + e /\ dst = n + 1 + g
        BY <1>3, <3>3, <4>6, <4>7 DEF At
      <4>10. /\ e \in Nat /\ g \in Nat /\ a \in Nat /\ dst \in Nat /\ t \in Nat
        BY <1>3, <3>2, <3>3, <4>6, <4>7
      <4> QED
        BY <4>8, <4>9, <4>10
    <3>5. a + k \in 0 .. len - 1 /\ a + k < dst
      <4>1. k \in Nat /\ k < t
        BY <3>2
      <4>2. a + k < dst /\ a + k >= 0
        <5>1. a \in Nat /\ t \in Nat /\ dst \in Nat
          BY <1>3, <3>2, <3>3
        <5> QED
          BY <3>4, <4>1, <5>1
      <4>3. dst <= len
        BY <1>3, <1>5, <1>7
      <4> QED
        BY <1>3, <3>3, <4>1, <4>2, <4>3
    <3>6. out[a + k] = <<p, k>>
      BY <3>1, <3>3 DEF MovedTo
    <3> QED
      BY <1>9, <3>3, <3>5, <3>6
  <2> QED
    BY <2>1, <2>2
<1>11. ASSUME NEW p \in m + 1 .. n - 1, NEW k \in 0 .. ch[p] - 1
       PROVE  new[p * BlockSize + k] = <<p, k>>
  <2>1. p \in 0 .. n - 1 /\ p \in m .. n - 1 /\ p \in Nat /\ m + 1 \in 1 .. n - 1
    OBVIOUS
  <2>2. PICK t \in Nat : t = ch[p]
    BY <2>1
  <2>3. PICK a \in Nat : a = p * BlockSize
    BY <2>1, CapsTyped
  <2>4. PICK b \in Nat : b = (m + 1) * BlockSize
    BY <1>1, CapsTyped
  <2>5. a >= b
    <3>1. PICK d \in Nat : p = (m + 1) + d
      <4>1. p - (m + 1) \in Nat /\ p = (m + 1) + (p - (m + 1))
        OBVIOUS
      <4> QED
        BY <4>1
    <3>2. PICK e \in Nat : e = d * BlockSize
      BY CapsTyped
    <3>3. a = b + e
      <4>1. PICK i \in Nat : i = m + 1
        BY <1>1
      <4>2. BlockSize \in Nat
        BY CapsTyped
      <4>3. (i + d) * BlockSize = i * BlockSize + d * BlockSize
        BY <3>1, <4>1, <4>2
      <4> QED
        BY <2>3, <2>4, <3>1, <3>2, <4>1, <4>3
    <3> QED
      BY <3>3
  <2>6. dst + s <= b
    BY <1>6, <2>1, <2>4 DEF AllFit
  <2>7. a + t <= len
    BY <2>1, <2>2, <2>3 DEF AllFit
  <2>8. k \in Nat /\ k < t
    BY <2>2
  <2>9. a + k \in 0 .. len - 1 /\ a + k >= dst + s
    BY <2>5, <2>6, <2>7, <2>8
  <2>10. out[a + k] = <<p, k>>
    BY <2>1, <2>3 DEF MovedTo
  <2> QED
    BY <1>9, <2>3, <2>9, <2>10
<1> QED
  BY <1>9, <1>10, <1>11 DEF MovedTo

LEMMA AllMoved ==
  ASSUME NEW n \in Nat, NEW len \in Nat, NEW ch \in [0 .. n -> Nat], AllFit(n, len, ch),
         NEW f, Moves(n, len, ch, f)
  PROVE  MovedTo(n, len, ch, n, f[n])
<1> DEFINE G == {m \in Nat : m <= n => MovedTo(n, len, ch, m, f[m])}
<1>1. 0 \in G
  <2>1. DOMAIN f[0] = 0 .. len - 1
    BY DEF Moves, Compact
  <2>2. ASSUME NEW p \in 0 .. n - 1, NEW k \in 0 .. ch[p] - 1
        PROVE  f[0][p * BlockSize + k] = <<p, k>>
    <3>1. p \in Nat /\ p \in 0 .. n
      OBVIOUS
    <3>2. PICK t \in Nat : t = ch[p]
      BY <3>1
    <3>3. PICK a \in Nat : a = p * BlockSize
      BY <3>1, CapsTyped
    <3>4. t <= BlockSize /\ a + t <= len
      BY <3>2, <3>3 DEF AllFit
    <3>5. k \in Nat /\ k < t
      BY <3>2
    <3>6. k < BlockSize /\ a + k < len
      BY <3>4, <3>5, CapsTyped
    <3>7. Compact(len, ch)[p * BlockSize + k] = <<p, k>>
      <4>1. k < BlockSize /\ p * BlockSize + k < len /\ k < ch[p] /\ k \in Nat
        BY <3>2, <3>3, <3>5, <3>6
      <4> QED
        BY <3>1, <4>1, CompactAt
    <3> QED
      BY <3>7 DEF Moves
  <2>3. MovedTo(n, len, ch, 0, f[0])
    BY <2>1, <2>2 DEF MovedTo
  <2> QED
    BY <2>3
<1>2. ASSUME NEW m \in Nat, m \in G PROVE m + 1 \in G
  <2> SUFFICES ASSUME m + 1 <= n PROVE MovedTo(n, len, ch, m + 1, f[m + 1])
    OBVIOUS
  <2>1. m \in 0 .. n - 1 /\ MovedTo(n, len, ch, m, f[m])
    BY <1>2
  <2>2. f[m + 1] = Move(f[m], At(n, ch, m), m * BlockSize, ch[m])
    BY <2>1 DEF Moves
  <2> QED
    BY <2>1, <2>2, OneMove
<1> HIDE DEF G
<1>3. Nat \subseteq G
  BY <1>1, <1>2, NumberInduction
<1> QED
  BY <1>3 DEF G

(* The table of buffers that Moved is computed with.                       *)
IsMoved(c, n, f) ==
  f = [p \in 0 .. n |->
         IF p = 0 THEN InPlace(c)
         ELSE Move(f[p - 1], Position(c, p - 1), (p - 1) * BlockSize, chunks[c][p - 1])]

LEMMA MovedIsChosen ==
  ASSUME NEW c, NEW n
  PROVE  Moved(c, n) = (CHOOSE f : IsMoved(c, n, f))[n]
BY Zenon DEF Moved, IsMoved

LEMMA MovedExists ==
  ASSUME NEW c, NEW n \in Nat
  PROVE  \E f : IsMoved(c, n, f)
<1> DEFINE G == {m \in Nat : \E f : IsMoved(c, m, f)}
           Next1(f, p) == Move(f[p - 1], Position(c, p - 1), (p - 1) * BlockSize, chunks[c][p - 1])
<1>1. 0 \in G
  <2> DEFINE f == [p \in 0 .. 0 |-> InPlace(c)]
  <2>1. f = [p \in 0 .. 0 |-> IF p = 0 THEN InPlace(c) ELSE Next1(f, p)]
    <3>1. \A p \in 0 .. 0 : p = 0
      OBVIOUS
    <3> HIDE DEF Next1
    <3> QED
      BY <3>1
  <2>2. IsMoved(c, 0, f)
    BY <2>1 DEF IsMoved
  <2> QED
    BY <2>2
<1>2. ASSUME NEW m \in Nat, m \in G PROVE m + 1 \in G
  <2>1. PICK f : IsMoved(c, m, f)
    BY <1>2
  <2> DEFINE g == [p \in 0 .. m + 1 |-> IF p = 0 THEN InPlace(c) ELSE Next1(f, p)]
  <2>2. \A p \in 0 .. m : f[p] = IF p = 0 THEN InPlace(c) ELSE Next1(f, p)
    BY <2>1, Zenon DEF IsMoved
  <2>3. \A p \in 0 .. m : g[p] = f[p]
    <3>1. \A p \in 0 .. m : p \in 0 .. m + 1
      OBVIOUS
    <3> HIDE DEF Next1
    <3> QED
      BY <2>2, <3>1
  <2>4. \A p \in 0 .. m + 1 : p # 0 => g[p - 1] = f[p - 1]
    <3>1. \A p \in 0 .. m + 1 : p # 0 => p - 1 \in 0 .. m
      OBVIOUS
    <3> HIDE DEF g
    <3> QED
      BY <2>3, <3>1
  <2>5. \A p \in 0 .. m + 1 : p # 0 => Next1(g, p) = Next1(f, p)
    <3> HIDE DEF g
    <3> QED
      BY <2>4
  <2>6. g = [p \in 0 .. m + 1 |-> IF p = 0 THEN InPlace(c) ELSE Next1(g, p)]
    <3>1. PICK h : h = g
      OBVIOUS
    <3>2. \A p \in 0 .. m + 1 : p # 0 => Next1(h, p) = Next1(f, p)
      BY <2>5, <3>1
    <3>3. h = [p \in 0 .. m + 1 |-> IF p = 0 THEN InPlace(c) ELSE Next1(f, p)]
      BY <3>1
    <3> HIDE DEF Next1, g
    <3>4. h = [p \in 0 .. m + 1 |-> IF p = 0 THEN InPlace(c) ELSE Next1(h, p)]
      BY <3>2, <3>3
    <3> QED
      BY <3>1, <3>4
  <2>7. IsMoved(c, m + 1, g)
    BY <2>6 DEF IsMoved
  <2> QED
    BY <2>7
<1> HIDE DEF G
<1>3. Nat \subseteq G
  BY <1>1, <1>2, NumberInduction
<1> QED
  BY <1>3 DEF G

LEMMA MovedByMoves ==
  ASSUME NEW c \in Callers, NEW n \in Nat, n = Blocks(length[c])
  PROVE  \E f : Moves(n, length[c], chunks[c], f) /\ Moved(c, n) = f[n]
<1>1. PICK f : f = CHOOSE g : IsMoved(c, n, g)
  OBVIOUS
<1>2. IsMoved(c, n, f) /\ Moved(c, n) = f[n]
  BY <1>1, MovedExists, MovedIsChosen
<1>3. f[0] = InPlace(c)
  <2>1. 0 \in 0 .. n
    OBVIOUS
  <2> QED
    BY <1>2, <2>1 DEF IsMoved
<1>4. InPlace(c) = Compact(length[c], chunks[c])
  BY DEF InPlace, Compact
<1>5. \A p : Position(c, p) = At(n, chunks[c], p)
  BY DEF Position, At
<1>6. ASSUME NEW p \in 0 .. n - 1
      PROVE  f[p + 1] = Move(f[p], At(n, chunks[c], p), p * BlockSize, chunks[c][p])
  <2>1. PICK q : q = p + 1
    OBVIOUS
  <2>2. q \in 0 .. n /\ q # 0 /\ q - 1 = p
    BY <2>1
  <2>3. f[q] = Move(f[q - 1], Position(c, q - 1), (q - 1) * BlockSize, chunks[c][q - 1])
    BY <1>2, <2>2, Zenon DEF IsMoved
  <2> QED
    BY <1>5, <2>1, <2>2, <2>3
<1> QED
  BY <1>2, <1>3, <1>4, <1>6 DEF Moves

-----------------------------------------------------------------------------
(* What Compress returns uncompresses to what came back                    *)

LEMMA BlockLenFits ==
  ASSUME NEW len \in Nat, NEW p \in Nat, NEW k \in Nat, k <= BlockLen(len, p)
  PROVE  (k <= BlockSize /\ p * BlockSize + k <= len) \/ k = 0 \/ len < p * BlockSize
<1>1. PICK a \in Nat : a = p * BlockSize
  BY CapsTyped
<1>2. (p + 1) * BlockSize = a + BlockSize
  BY <1>1, CapsTyped
<1>3. BlockLen(len, p) = IF a + BlockSize <= len THEN BlockSize ELSE len - a
  BY <1>1, <1>2 DEF BlockLen
<1>4. CASE a + BlockSize <= len
  BY <1>1, <1>3, <1>4, CapsTyped
<1>5. CASE ~ (a + BlockSize <= len)
  BY <1>1, <1>3, <1>5, CapsTyped
<1> QED
  BY <1>4, <1>5

(* TableSizes of blocks that are back, and what is known of them and the input. *)
Back(n, len, ch) == Sized(n, ch) /\ len \in Nat

LEMMA CallFits ==
  ASSUME CompressorTypeOK, CountInv, GatherInv, NEW c \in Callers, Ready(c), ~ is_broken[c],
         ~ TooLong(total[c], length[c]), ~ Short(length[c]), Fits(c),
         NEW len, len = length[c], NEW n, n = Blocks(len), NEW ch, ch = chunks[c]
  PROVE  Back(n, len, ch) /\ AllFit(n, len, ch)
<1>1. /\ len \in Lengths[c]
      /\ ch \in [0 .. n -> Nat] /\ ch[n] = 0
      /\ \A p \in 0 .. n - 1 : ch[p] >= 1 /\ ch[p] <= BlockLen(len, p)
      /\ \A p \in 0 .. n : ch[p] <= total[c]
  BY AllBack
<1>2. /\ len \in Nat /\ n \in Nat /\ n >= 1
      /\ n + 1 <= len - (4 * len) \div 5
  BY <1>1, LengthsTyped
<1>3. total[c] \in Nat
  BY DEF CompressorTypeOK
<1>4. \A p \in 0 .. n : ch[p] <= (4 * len) \div 5
  <2>1. PICK q \in Nat : q = (4 * len) \div 5 /\ 4 * len < q * 5 + 5
    <3>1. 4 * len \in Nat /\ 5 \in Nat \ {0}
      BY <1>2
    <3> QED
      BY <3>1, Division
  <2>2. 5 * total[c] <= 4 * len
    BY <1>2, <1>3 DEF TooLong
  <2>3. total[c] <= q
    BY <1>2, <1>3, <2>1, <2>2
  <2>4. ASSUME NEW p \in 0 .. n PROVE ch[p] <= q
    <3>1. ch[p] \in Nat /\ ch[p] <= total[c]
      BY <1>1, <1>2
    <3> QED
      BY <1>3, <2>1, <2>3, <3>1
  <2> QED
    BY <2>1, <2>4
<1>5. n \in Nat /\ ch \in [0 .. n -> Nat]
  BY <1>1, <1>2
<1>6. (n - 1) * BlockSize < len
  BY <1>2, BlocksTyped, CapsTyped
<1>7. \A p \in 1 .. n - 1 : At(n, ch, p) <= p * BlockSize
  BY DEF Fits, Position, At
<1>8. ASSUME NEW p \in 0 .. n - 1
      PROVE  p * BlockSize <= (n - 1) * BlockSize
  <2>1. PICK d \in Nat : n - 1 = p + d
    <3>1. n - 1 - p \in Nat /\ n - 1 = p + (n - 1 - p)
      BY <1>2
    <3> QED
      BY <3>1
  <2>2. p \in Nat
    OBVIOUS
  <2>3. (n - 1) * BlockSize = p * BlockSize + d * BlockSize
    BY <2>1, <2>2, CapsTyped
  <2>4. PICK e \in Nat : e = d * BlockSize
    BY <2>1, CapsTyped
  <2>5. PICK a \in Nat : a = p * BlockSize
    BY <2>2, CapsTyped
  <2> QED
    BY <2>3, <2>4, <2>5
<1>9. ASSUME NEW p \in 0 .. n - 1
      PROVE  ch[p] <= BlockSize /\ p * BlockSize + ch[p] <= len
  <2>1. p \in Nat /\ p \in 0 .. n
    BY <1>2
  <2>2. ch[p] \in Nat /\ ch[p] >= 1 /\ ch[p] <= BlockLen(len, p)
    BY <1>1, <2>1
  <2>3. PICK a \in Nat : a = p * BlockSize
    BY <2>1, CapsTyped
  <2>4. PICK b \in Nat : b = (n - 1) * BlockSize
    BY <1>2, CapsTyped
  <2>5. a <= b /\ b < len
    BY <1>6, <1>8, <2>3, <2>4
  <2>6. ~ len < p * BlockSize
    BY <1>2, <2>3, <2>4, <2>5
  <2>7. (ch[p] <= BlockSize /\ p * BlockSize + ch[p] <= len) \/ ch[p] = 0 \/ len < p * BlockSize
    BY <1>2, <2>1, <2>2, BlockLenFits
  <2> QED
    BY <2>2, <2>6, <2>7
<1>10. ASSUME NEW p \in 0 .. n - 1
      PROVE  At(n, ch, p + 1) <= len
  <2>1. p \in 0 .. n /\ p + 1 \in 0 .. n /\ p \in Nat
    BY <1>5
  <2>2. ch[p] \in Nat /\ len \in Nat /\ BlockSize \in Nat
    BY <1>2, <1>5, <2>1, CapsTyped
  <2>3. /\ p \in 0 .. n /\ p + 1 \in 0 .. n /\ p \in Nat
        /\ ch[p] \in Nat /\ len \in Nat /\ BlockSize \in Nat
    BY <2>1, <2>2
  <2>4. Before(ch, p) \in Nat /\ Before(ch, p + 1) \in Nat
    BY <1>5, <2>1, BeforeSteps
  <2>5. Before(ch, p + 1) = Before(ch, p) + ch[p]
    BY <1>5, BeforeNext
  <2>6. PICK b \in Nat : b = (n - 1) * BlockSize
    BY <1>2, CapsTyped
  <2>7. PICK t \in Nat : t = At(n, ch, p + 1)
    BY <1>5, <2>4 DEF At
  <2>8. CASE p + 1 <= n - 1
    <3>1. PICK q : q = p + 1
      OBVIOUS
    <3>2. q \in 1 .. n - 1 /\ q \in 0 .. n - 1
      BY <1>2, <2>8, <3>1
    <3>3. t <= q * BlockSize /\ q * BlockSize <= b
      BY <1>7, <1>8, <2>6, <2>7, <3>1, <3>2
    <3>4. PICK a \in Nat : a = q * BlockSize
      BY <2>3, <3>2
    <3>5. t <= a /\ a <= b /\ b < len
      BY <1>6, <2>6, <3>3, <3>4
    <3> QED
      BY <2>3, <2>6, <2>7, <3>4, <3>5
  <2>9. CASE p = n - 1 /\ n >= 2
    <3>1. p \in 1 .. n - 1
      BY <1>2, <2>9
    <3>2. Before(ch, p + 1) = Before(ch, p) + ch[p] /\ Before(ch, p) \in Nat
      BY <2>4, <2>5
    <3>3. PICK a \in Nat : a = p * BlockSize
      BY <2>3
    <3>4. PICK g \in Nat : g = At(n, ch, p)
      BY <1>2, <3>2 DEF At
    <3>5. t = g + ch[p]
      BY <1>2, <2>7, <3>2, <3>4, <2>3 DEF At
    <3>6. g <= a /\ a + ch[p] <= len
      BY <1>7, <1>9, <3>1, <3>3, <3>4
    <3> QED
      BY <2>3, <2>7, <3>3, <3>4, <3>5, <3>6
  <2>10. CASE n = 1
    <3>1. p = 0
      BY <2>10
    <3>2. Before(ch, p + 1) = Before(ch, p) + ch[p]
      BY <2>5
    <3>3. Before(ch, p) = 0
      BY <1>5, <3>1, BeforeSteps
    <3>4. t = 2 + ch[p]
      BY <2>3, <2>7, <2>10, <3>2, <3>3 DEF At
    <3>5. PICK q \in Nat : q = (4 * len) \div 5
      <4>1. 4 * len \in Nat /\ 5 \in Nat \ {0}
        BY <1>2
      <4> QED
        BY <4>1, Division
    <3>6. ch[p] <= q /\ 2 <= len - q
      BY <1>2, <1>4, <2>3, <2>10, <3>5
    <3> QED
      BY <2>3, <2>7, <3>4, <3>5, <3>6
  <2> QED
    BY <1>2, <2>3, <2>8, <2>9, <2>10
<1> QED
  BY <1>1, <1>2, <1>7, <1>9, <1>10 DEF Back, Sized, AllFit

(* A merge: the table, then block after block.                             *)
LEMMA MergedReads ==
  ASSUME CompressorTypeOK, CountInv, GatherInv, NEW c \in Callers, Ready(c), ~ is_broken[c],
         ~ TooLong(total[c], length[c]), ~ Short(length[c]), Fits(c),
         NEW n, n = Blocks(length[c]), NEW ch, ch = chunks[c]
  PROVE  Uncompress(Merged(c)) = Original(n, ch)
<1>1. PICK len : len = length[c]
  OBVIOUS
<1>2. Back(n, len, ch) /\ AllFit(n, len, ch)
  BY <1>1, CallFits
<1>3. /\ n \in Nat /\ n >= 1 /\ len \in Nat
      /\ ch \in [0 .. n -> Nat] /\ ch[n] = 0
      /\ \A p \in 0 .. n - 1 : ch[p] >= 1
  BY <1>2 DEF Back, Sized
<1>4. PICK f : Moves(n, len, ch, f) /\ Moved(c, n) = f[n]
  BY <1>1, <1>3, MovedByMoves
<1>5. PICK moved : moved = Moved(c, n) /\ MovedTo(n, len, ch, n, moved)
  BY <1>2, <1>3, <1>4, AllMoved
<1>6. Before(ch, n) \in Nat
  <2>1. n \in 0 .. n
    BY <1>3
  <2> QED
    BY <1>3, <2>1, BeforeSteps
<1>7. PICK e \in Nat : e = Before(ch, n)
  BY <1>6
<1>8. PICK l \in Nat : l = n + 1 + e /\ l = Position(c, n)
  BY <1>3, <1>7 DEF Position
<1>9. PICK in : in = Merged(c)
  OBVIOUS
<1>10. in = [x \in 1 .. l |-> IF x <= n + 1 THEN Entry(ch[x - 1]) ELSE moved[x - 1]]
  BY <1>5, <1>8, <1>9, Zenon DEF Merged
<1> DEFINE S == {in[x] : x \in 1 .. l}
<1>11. in \in Seq(S) /\ Len(in) = l
  <2>1. in \in [1 .. l -> S] /\ DOMAIN in = 1 .. l
    BY <1>10
  <2> HIDE DEF S
  <2>2. in \in Seq(S)
    BY <1>8, <2>1, SeqDef
  <2>3. Len(in) \in Nat /\ DOMAIN in = 1 .. Len(in)
    BY <2>2, LenProperties
  <2> QED
    BY <1>8, <2>1, <2>2, <2>3
<1> HIDE DEF S
<1>12. ASSUME NEW x \in 0 .. n PROVE in[x + 1] = Entry(ch[x])
  <2>1. PICK i \in Nat : i = x + 1
    OBVIOUS
  <2>2. i \in 1 .. l /\ i <= n + 1 /\ i - 1 = x
    BY <1>3, <1>7, <1>8, <2>1
  <2> QED
    BY <1>10, <2>1, <2>2
<1>13. ASSUME NEW p \in 0 .. n - 1, NEW k \in 1 .. ch[p]
       PROVE  in[n + 1 + Before(ch, p) + k] = <<p, k - 1>>
  <2>1. p \in 0 .. n /\ p + 1 \in 0 .. n /\ p \in 0 .. n - 1
    BY <1>3
  <2>2. PICK t \in Nat : t = ch[p]
    BY <1>3, <2>1
  <2>3. PICK b \in Nat : b = Before(ch, p)
    BY <1>3, <2>1, BeforeSteps
  <2>4. b + t <= e
    <3>1. n \in Nat /\ ch \in [0 .. n -> Nat]
      BY <1>3
    <3>2. Before(ch, p + 1) = Before(ch, p) + ch[p]
      BY <2>1, <3>1, BeforeNext, ZenonT(30)
    <3>3. PICK j : j = p + 1
      OBVIOUS
    <3>4. j \in 0 .. n /\ n \in 0 .. n
      BY <1>3, <2>1, <3>3
    <3>5. Before(ch, j) <= Before(ch, n)
      BY <1>3, <3>4, BeforeGrows
    <3> QED
      BY <1>7, <2>2, <2>3, <3>2, <3>3, <3>5
  <2>5. PICK x \in Nat : x = n + 1 + b + k
    BY <1>3, <2>2, <2>3
  <2>6. x \in 1 .. l /\ ~ (x <= n + 1) /\ x - 1 = (n + 1 + b) + (k - 1)
    <3>1. k \in Nat /\ k >= 1 /\ k <= t
      BY <2>2
    <3>2. PICK d \in Nat : d = n + 1
      BY <1>3
    <3>3. x = d + b + k /\ l = d + e
      BY <1>8, <2>5, <3>2
    <3>4. x \in 1 .. l /\ x > d /\ x - 1 = (d + b) + (k - 1)
      BY <1>7, <1>8, <2>2, <2>3, <2>4, <2>5, <3>1, <3>2, <3>3
    <3> QED
      BY <3>2, <3>4
  <2>7. in[x] = moved[x - 1]
    BY <1>10, <2>6
  <2>8. PICK q : q = k - 1
    OBVIOUS
  <2>9. q \in 0 .. ch[p] - 1
    BY <2>2, <2>8
  <2>10. moved[At(n, ch, p) + q] = <<p, q>>
    BY <1>5, <2>9 DEF MovedTo
  <2>11. x - 1 = At(n, ch, p) + q
    BY <2>3, <2>6, <2>8 DEF At
  <2> QED
    BY <2>3, <2>5, <2>7, <2>8, <2>10, <2>11
<1>14. Len(in) = n + 1 + Before(ch, n)
  BY <1>7, <1>8, <1>11
<1>15. Uncompress(in) = Original(n, ch)
  <2>1. /\ \A x \in 0 .. n : in[x + 1] = Entry(ch[x])
        /\ \A p \in 0 .. n - 1 : \A k \in 1 .. ch[p] :
             in[n + 1 + Before(ch, p) + k] = <<p, k - 1>>
    BY <1>12, <1>13
  <2>2. LaidOut(S, n, ch, in)
    BY <1>11, <1>14, <2>1 DEF LaidOut
  <2> QED
    BY <1>2, <2>2, ReadAsLaidOut DEF Back
<1> QED
  BY <1>9, <1>15

(* A short input: its only block lies behind a table of two entries.       *)
LEMMA FastReads ==
  ASSUME CompressorTypeOK, CountInv, GatherInv, NEW c \in Callers, Ready(c), ~ is_broken[c],
         Short(length[c]), NEW n, n = Blocks(length[c]), NEW ch, ch = chunks[c]
  PROVE  Uncompress(FastAnswer(c)) = Original(n, ch)
<1>1. PICK len : len = length[c]
  OBVIOUS
<1>2. /\ len \in Lengths[c]
      /\ ch \in [0 .. n -> Nat] /\ ch[n] = 0
      /\ \A p \in 0 .. n - 1 : ch[p] >= 1
  BY <1>1, AllBack
<1>3. n = 1
  BY <1>1, <1>2, LengthsTyped
<1>4. ch \in [0 .. 1 -> Nat] /\ ch[1] = 0 /\ \A p \in 0 .. 1 - 1 : ch[p] >= 1
  BY <1>2, <1>3
<1>5. PICK t \in Nat : t = ch[0]
  BY <1>4
<1>6. Before(ch, 0) = 0 /\ Before(ch, 1) = t
  <2>1. 0 \in 0 .. 1 - 1 /\ 0 + 1 = 1
    OBVIOUS
  <2>2. /\ Before(ch, 0) = 0
        /\ \A p \in 0 .. 1 - 1 : Before(ch, p + 1) = Before(ch, p) + ch[p]
    BY <1>4, BeforeSteps
  <2>3. Before(ch, 0 + 1) = Before(ch, 0) + ch[0]
    BY <2>1, <2>2
  <2> QED
    BY <1>5, <2>1, <2>2, <2>3
<1> DEFINE a == <<Entry(t), Entry(0)>>
           b == [k \in 1 .. t |-> <<0, k - 1>>]
           S == {Entry(t), Entry(0)} \cup {<<0, k - 1>> : k \in 1 .. t}
           in == a \o b
<1>7. a \in Seq(S) /\ Len(a) = 2 /\ a[1] = Entry(t) /\ a[2] = Entry(0)
  <2>1. Entry(t) \in S /\ Entry(0) \in S
    OBVIOUS
  <2> HIDE DEF S
  <2> QED
    BY <2>1
<1>8. b \in Seq(S) /\ Len(b) = t /\ \A k \in 1 .. t : b[k] = <<0, k - 1>>
  <2>1. \A k \in 1 .. t : <<0, k - 1>> \in S
    OBVIOUS
  <2> HIDE DEF S
  <2>2. b \in [1 .. t -> S] /\ DOMAIN b = 1 .. t
    BY <2>1
  <2>3. \A k \in 1 .. t : b[k] = <<0, k - 1>>
    OBVIOUS
  <2> HIDE DEF b
  <2>4. b \in Seq(S)
    BY <1>5, <2>2, SeqDef
  <2>5. Len(b) \in Nat /\ DOMAIN b = 1 .. Len(b)
    BY <2>4, LenProperties
  <2> QED
    BY <1>5, <2>2, <2>3, <2>4, <2>5
<1> HIDE DEF a, b, S
<1>9. /\ in \in Seq(S) /\ Len(in) = 2 + t
      /\ \A i \in 1 .. 2 + t : in[i] = IF i <= 2 THEN a[i] ELSE b[i - 2]
  <2>1. /\ in \in Seq(S) /\ Len(in) = Len(a) + Len(b)
        /\ \A i \in 1 .. Len(a) + Len(b) : in[i] = IF i <= Len(a) THEN a[i] ELSE b[i - Len(a)]
    <3>1. a \in Seq(S) /\ b \in Seq(S)
      BY <1>7, <1>8
    <3> QED
      BY <3>1, ConcatProperties
  <2> HIDE DEF in
  <2>2. Len(a) = 2 /\ Len(b) = t
    BY <1>7, <1>8
  <2> QED
    BY <2>1, <2>2
<1>10. in = FastAnswer(c)
  BY <1>5, Zenon DEF FastAnswer, a, b, in
<1> HIDE DEF in
<1>11. ASSUME NEW x \in 0 .. 1 PROVE in[x + 1] = Entry(ch[x])
  <2>1. CASE x = 0
    <3>1. 1 \in 1 .. 2 + t /\ x + 1 = 1
      BY <1>5, <2>1
    <3> QED
      BY <1>5, <1>7, <1>9, <2>1, <3>1
  <2>2. CASE x = 1
    <3>1. 2 \in 1 .. 2 + t /\ x + 1 = 2
      BY <1>5, <2>2
    <3> QED
      BY <1>4, <1>7, <1>9, <2>2, <3>1
  <2> QED
    BY <2>1, <2>2
<1>12. ASSUME NEW p \in 0 .. 1 - 1, NEW k \in 1 .. ch[p]
       PROVE  in[1 + 1 + Before(ch, p) + k] = <<p, k - 1>>
  <2>1. p = 0 /\ k \in 1 .. t
    BY <1>5
  <2>2. PICK i \in Nat : i = 2 + k
    BY <1>5, <2>1
  <2>3. i \in 1 .. 2 + t /\ ~ (i <= 2) /\ i - 2 = k /\ 1 + 1 + 0 + k = i
    BY <1>5, <2>1, <2>2
  <2>4. in[i] = b[k]
    BY <1>9, <2>3
  <2> QED
    BY <1>6, <1>8, <2>1, <2>3, <2>4
<1>13. LaidOut(S, 1, ch, in)
  <2>1. Len(in) = 1 + 1 + Before(ch, 1)
    BY <1>5, <1>6, <1>9
  <2> QED
    BY <1>9, <1>11, <1>12, <2>1 DEF LaidOut
<1>14. Uncompress(in) = Original(1, ch)
  <2>1. Sized(1, ch)
    BY <1>4 DEF Sized
  <2> QED
    BY <1>13, <2>1, ReadAsLaidOut
<1> QED
  BY <1>3, <1>10, <1>14

LEMMA ReadyRoundTrip ==
  ASSUME CompressorTypeOK, CountInv, GatherInv
  PROVE  RoundTrip
<1> SUFFICES ASSUME NEW c \in Callers, Ready(c), Answer(c) # Nil, Fits(c)
             PROVE  Uncompress(Answer(c)) = Original(Blocks(length[c]), chunks[c])
  BY Zenon DEF RoundTrip, Original
<1>1. ~ is_broken[c] /\ ~ TooLong(total[c], length[c])
  BY DEF Answer
<1>2. CASE Short(length[c])
  <2>1. Answer(c) = FastAnswer(c)
    BY <1>1, <1>2 DEF Answer
  <2> QED
    BY <1>1, <1>2, <2>1, FastReads
<1>3. CASE ~ Short(length[c])
  <2>1. Answer(c) = Merged(c)
    BY <1>1, <1>3 DEF Answer
  <2> QED
    BY <1>1, <1>3, <2>1, MergedReads
<1> QED
  BY <1>2, <1>3

(* What Compress returns uncompresses to the blocks in their order         *)
(* (RoundTrip; engine.go:70-77, 138-158): when all blocks are back, none   *)
(* lost and each with its size in the table (GatherInv), those that fit    *)
(* are moved one after another without one being written over another.     *)
THEOREM AnswerUncompresses ==
  ASSUME RoomAssumption
  PROVE  CompressorSpec => []RoundTrip
<1>1. CompressorInit => CompressorTypeOK /\ CountInv /\ GatherInv
  BY InitCount, InitGather
<1>2. CompressorTypeOK /\ CountInv /\ GatherInv /\ [CompressorNext]_compressorVars => (CompressorTypeOK /\ CountInv /\ GatherInv)'
  BY NextCount, NextGather
<1>3. CompressorTypeOK /\ CountInv /\ GatherInv => RoundTrip
  BY ReadyRoundTrip
<1> QED
  BY <1>1, <1>2, <1>3, PTL DEF CompressorSpec
=============================================================================
