------------------------------ MODULE ByteSlabs ------------------------------
(***************************************************************************)
(* The slab allocator that lends memory to requests                        *)
(* (handler_socket2/byteslabs/byteslabs.go). Memory is a number of chunks, *)
(* each cut into slabs. A request has an allocator of its own, bound to    *)
(* one chunk; when that chunk is full it is given a second one, bound to   *)
(* the chunk that looks emptiest, and when that is full too, or none is    *)
(* empty enough, the buffer comes from Go's heap. All buffers of a request *)
(* are given back together.                                                *)
(*                                                                         *)
(* One action is one critical section of a chunk's mutex, except that the  *)
(* search for the emptiest chunk is a step per chunk: it holds the mutex   *)
(* of the allocator's own chunk and reads the counters of the others       *)
(* without theirs. A byte is a cell <<chunk, slab, offset>>, which stands  *)
(* for memory[slab * slab_size + offset] of the chunk.                     *)
(***************************************************************************)
EXTENDS Integers, FiniteSets, FiniteSetsExt

CONSTANTS
  Owners,       \* requests
  ChunkCount,   \* mem_chunks_count (8)
  SlabCount,    \* slab_count (100)
  SlabSize,     \* slab_size (40000)
  Spare,        \* slabs a second chunk must have to spare (5)
  Sizes,        \* sizes asked for; those up to 96 never come here
  MaxBuffers,   \* bound: buffers one request holds
  None          \* no chunk, no owner

ASSUME SlabAssumption ==
  /\ ChunkCount \in Nat \ {0}
  /\ SlabCount \in Nat \ {0}
  /\ SlabSize \in Nat \ {0}
  /\ Spare \in Nat
  /\ Sizes \subseteq Nat \ {0}
  /\ MaxBuffers \in Nat
  /\ None \notin Owners /\ None \notin 0 .. ChunkCount - 1

Chunks == 0 .. ChunkCount - 1
Slabs == 0 .. SlabCount - 1
Offsets == 0 .. SlabSize - 1
Cells == Chunks \X Slabs \X Offsets

(* A request's own allocator, and the additional one.                      *)
Allocators == Owners \X {"own", "addl"}
Own(o) == <<o, "own">>
Addl(o) == <<o, "addl">>

VARIABLES
  used,             \* mem_chunk.slab_used, as a set of slabs
  used_slab_count,
  mu,               \* the owner that holds a chunk's mutex between steps
  curr_mem_chunk,
  mem_chunk,        \* [Allocators -> the chunk, or None: no such allocator]
  slabs,            \* [Allocators -> Allocator.slab_used]
  free_space,       \* [Allocators -> free bytes at the end of each slab]
  pc,               \* owners: "idle", "scan", "routed", "release"
  asked,            \* owners: the size they are asking for
  scan,             \* owners: take_additional's i, best_slab, chunks_free
  live              \* ghost: buffers in slabs, [owner, num, size, cells]

chunkVars == <<used, used_slab_count, mu>>
allocatorVars == <<mem_chunk, slabs, free_space>>
vars == <<chunkVars, curr_mem_chunk, allocatorVars, pc, asked, scan, live>>

NoScan == [num |-> 0, best |-> None, free |-> -1]

(* Lists and counters of chunks and allocators keep to the memory there is *)
(* (byteslabs.go:12-37); free space of a slab is never negative.           *)
TypeOK ==
  /\ used \in [Chunks -> SUBSET Slabs]
  /\ used_slab_count \in [Chunks -> Nat]
  /\ mu \in [Chunks -> Owners \cup {None}]
  /\ curr_mem_chunk \in Chunks
  /\ mem_chunk \in [Allocators -> Chunks \cup {None}]
  /\ slabs \in [Allocators -> SUBSET Slabs]
  /\ free_space \in [Allocators -> [Slabs -> 0 .. SlabSize]]
  /\ pc \in [Owners -> {"idle", "scan", "routed", "release"}]
  /\ asked \in [Owners -> Nat]
  /\ scan \in [Owners -> [num : 0 .. ChunkCount, best : Chunks \cup {None},
                          free : Int]]
  /\ live \subseteq [owner : Owners, num : Nat, size : Nat, cells : SUBSET Cells]

Init ==
  /\ used = [c \in Chunks |-> {}]
  /\ used_slab_count = [c \in Chunks |-> 0]
  /\ mu = [c \in Chunks |-> None]
  /\ curr_mem_chunk = 0
  /\ mem_chunk = [a \in Allocators |-> None]
  /\ slabs = [a \in Allocators |-> {}]
  /\ free_space = [a \in Allocators |-> [s \in Slabs |-> 0]]
  /\ pc = [o \in Owners |-> "idle"]
  /\ asked = [o \in Owners |-> 0]
  /\ scan = [o \in Owners |-> NoScan]
  /\ live = {}

(* GetAllocator of a request that has none yet: chunks take turns.         *)
MakeAllocator(o) ==
  /\ pc[o] = "idle"
  /\ mem_chunk[Own(o)] = None
  /\ curr_mem_chunk' = (curr_mem_chunk + 1) % ChunkCount
  /\ mem_chunk' = [mem_chunk EXCEPT ![Own(o)] = curr_mem_chunk']
  /\ UNCHANGED <<chunkVars, slabs, free_space, pc, asked, scan, live>>

-----------------------------------------------------------------------------
(* allocate_slab: one chunk, under its mutex                               *)

SlabFree(size) == (SlabSize - (size % SlabSize)) % SlabSize

SlabsNeeded(size) ==
  (size \div SlabSize) + (IF SlabFree(size) > 0 THEN 1 ELSE 0)

(* slabs_needed > slab_count - used_slab_count: not even a tail is tried.  *)
Full(c, size) == SlabsNeeded(size) > SlabCount - used_slab_count[c]

(* Slabs of the allocator that end in the tightest free space that will do.*)
Tails(a, size) ==
  LET fitting == {s \in slabs[a] : free_space[a][s] >= size}
  IN  IF SlabsNeeded(size) > 1 THEN {}
      ELSE {s \in fitting :
              \A t \in fitting : free_space[a][s] <= free_space[a][t]}

(* Where the buffer begins in slabs of its own: a single slab is the last  *)
(* free one, several are the first that lie together.                      *)
Places(c, size) ==
  LET need == SlabsNeeded(size)
      runs == {f \in Slabs : /\ f + need <= SlabCount
                             /\ (f .. f + need - 1) \cap used[c] = {}}
  IN  {f \in runs : \A g \in runs : IF need = 1 THEN g <= f ELSE f <= g}

Held(o) == {b \in live : b.owner = o}

Lend(a, size, cells) ==
  live' = live \cup {[owner |-> a[1], num |-> Cardinality(Held(a[1])) + 1,
                     size |-> size, cells |-> cells]}

(* A bug the properties must notice: the tail is not made smaller.         *)
TakeTailKeepsSpace(a, size) ==
  \E s \in Tails(a, size) :
    LET from == SlabSize - free_space[a][s]
    IN  /\ free_space' = free_space
        /\ Lend(a, size, {mem_chunk[a]} \X {s} \X (from .. from + size - 1))
        /\ UNCHANGED <<used, used_slab_count, slabs>>

(* The buffer goes behind what the slab holds. Which of two equally tight  *)
(* slabs is older is not kept: either may be taken.                        *)
TakeTail(a, size) ==
  \E s \in Tails(a, size) :
    LET from == SlabSize - free_space[a][s]
    IN  /\ free_space' = [free_space EXCEPT ![a][s] = @ - size]
        /\ Lend(a, size, {mem_chunk[a]} \X {s} \X (from .. from + size - 1))
        /\ UNCHANGED <<used, used_slab_count, slabs>>

(* Cells of the slabs first .. last but for the free end of the last.      *)
CellsOf(c, first, last, free) ==
  {x \in {c} \X (first .. last) \X Offsets :
     x[2] = last => x[3] < SlabSize - free}

(* A bug the properties must notice: one slab is counted, however many are *)
(* taken.                                                                  *)
TakeSlabsCountsOne(a, size) ==
  LET c == mem_chunk[a]
  IN  \E first \in Places(c, size) :
        LET last == first + SlabsNeeded(size) - 1
        IN  /\ used' = [used EXCEPT ![c] = @ \cup (first .. last)]
            /\ used_slab_count' = [used_slab_count EXCEPT ![c] = @ + 1]
            /\ slabs' = [slabs EXCEPT ![a] = @ \cup (first .. last)]
            /\ free_space' = [free_space EXCEPT ![a] =
                 [s \in Slabs |-> IF s = last THEN SlabFree(size)
                                  ELSE IF s \in first .. last THEN 0
                                  ELSE free_space[a][s]]]
            /\ Lend(a, size, CellsOf(c, first, last, SlabFree(size)))

(* _alloc: the last slab keeps the free space.                             *)
TakeSlabs(a, size) ==
  LET c == mem_chunk[a]
      need == SlabsNeeded(size)
  IN  \E first \in Places(c, size) :
        LET last == first + need - 1
        IN  /\ used' = [used EXCEPT ![c] = @ \cup (first .. last)]
            /\ used_slab_count' = [used_slab_count EXCEPT ![c] = @ + need]
            /\ slabs' = [slabs EXCEPT ![a] = @ \cup (first .. last)]
            /\ free_space' = [free_space EXCEPT ![a] =
                 [s \in Slabs |-> IF s = last THEN SlabFree(size)
                                  ELSE IF s \in first .. last THEN 0
                                  ELSE free_space[a][s]]]
            /\ Lend(a, size, CellsOf(c, first, last, SlabFree(size)))

OutOfMemory(a, size) ==
  \/ Full(mem_chunk[a], size)
  \/ Tails(a, size) = {} /\ Places(mem_chunk[a], size) = {}

AllocateSlab(a, size) ==
  /\ ~ Full(mem_chunk[a], size)
  /\ IF Tails(a, size) # {} THEN TakeTail(a, size) ELSE TakeSlabs(a, size)

-----------------------------------------------------------------------------
(* Allocate                                                                *)

Unlocked(a) == mu[mem_chunk[a]] = None

(* The critical section Allocate begins with.                              *)
Begins(o, size) ==
  /\ pc[o] = "idle"
  /\ mem_chunk[Own(o)] # None
  /\ Cardinality(Held(o)) < MaxBuffers
  /\ size \in Sizes
  /\ Unlocked(Own(o))

AllocateOwn(o, size) ==
  /\ Begins(o, size)
  /\ AllocateSlab(Own(o), size)
  /\ UNCHANGED <<mu, curr_mem_chunk, mem_chunk, pc, asked, scan>>

(* The chunk is full: the additional allocator is next, or is looked for   *)
(* with the mutex held.                                                    *)
AllocateElsewhere(o, size) ==
  /\ Begins(o, size)
  /\ OutOfMemory(Own(o), size)
  /\ asked' = [asked EXCEPT ![o] = size]
  /\ IF mem_chunk[Addl(o)] = None
     THEN /\ pc' = [pc EXCEPT ![o] = "scan"]
          /\ mu' = [mu EXCEPT ![mem_chunk[Own(o)]] = o]
     ELSE /\ pc' = [pc EXCEPT ![o] = "routed"]
          /\ UNCHANGED mu
  /\ UNCHANGED <<used, used_slab_count, curr_mem_chunk, allocatorVars, scan,
                 live>>

(* take_additional reads one counter.                                      *)
ScanChunk(o) ==
  /\ pc[o] = "scan"
  /\ scan[o].num < ChunkCount
  /\ LET c == scan[o].num
         free == SlabCount - used_slab_count[c]
         better == /\ c # mem_chunk[Own(o)]
                   /\ free >= (asked[o] \div SlabSize) + Spare
                   /\ free > scan[o].free
     IN  scan' = [scan EXCEPT ![o] =
           [num |-> c + 1,
            best |-> IF better THEN c ELSE scan[o].best,
            free |-> IF better THEN free ELSE scan[o].free]]
  /\ UNCHANGED <<chunkVars, curr_mem_chunk, allocatorVars, pc, asked, live>>

(* A bug the properties must notice: a chunk is looked for until there is  *)
(* one, with the mutex held.                                               *)
ScanDoneOrAgain(o) ==
  /\ pc[o] = "scan"
  /\ scan[o].num = ChunkCount
  /\ scan' = [scan EXCEPT ![o] = NoScan]
  /\ IF scan[o].best = None
     THEN UNCHANGED <<mu, mem_chunk, pc, asked>>
     ELSE /\ mu' = [mu EXCEPT ![mem_chunk[Own(o)]] = None]
          /\ mem_chunk' = [mem_chunk EXCEPT ![Addl(o)] = scan[o].best]
          /\ pc' = [pc EXCEPT ![o] = "routed"]
          /\ UNCHANGED asked
  /\ UNCHANGED <<used, used_slab_count, curr_mem_chunk, slabs, free_space,
                 live>>

(* The additional allocator is made, or the buffer comes from Go's heap.   *)
ScanDone(o) ==
  /\ pc[o] = "scan"
  /\ scan[o].num = ChunkCount
  /\ scan' = [scan EXCEPT ![o] = NoScan]
  /\ mu' = [mu EXCEPT ![mem_chunk[Own(o)]] = None]
  /\ mem_chunk' = [mem_chunk EXCEPT ![Addl(o)] = scan[o].best]
  /\ pc' = [pc EXCEPT ![o] = IF scan[o].best = None THEN "idle" ELSE "routed"]
  /\ asked' = [asked EXCEPT ![o] = IF scan[o].best = None THEN 0 ELSE @]
  /\ UNCHANGED <<used, used_slab_count, curr_mem_chunk, slabs, free_space,
                 live>>

(* The additional allocator serves the request, or Go's heap does.         *)
AllocateRouted(o) ==
  /\ pc[o] = "routed"
  /\ Unlocked(Addl(o))
  /\ \/ AllocateSlab(Addl(o), asked[o])
     \/ /\ OutOfMemory(Addl(o), asked[o])
        /\ UNCHANGED <<used, used_slab_count, slabs, free_space, live>>
  /\ pc' = [pc EXCEPT ![o] = "idle"]
  /\ asked' = [asked EXCEPT ![o] = 0]
  /\ UNCHANGED <<mu, curr_mem_chunk, mem_chunk, scan>>

-----------------------------------------------------------------------------
(* Release, when the request is cleaned up                                 *)

(* A bug the properties must notice: the chunk is emptied for everybody.   *)
GiveBackChunk(a) ==
  LET c == mem_chunk[a]
  IN  /\ used' = [used EXCEPT ![c] = {}]
      /\ used_slab_count' = [used_slab_count EXCEPT ![c] = 0]
      /\ slabs' = [slabs EXCEPT ![a] = {}]
      /\ free_space' = [free_space EXCEPT ![a] = [s \in Slabs |-> 0]]
      /\ mem_chunk' = [mem_chunk EXCEPT ![a] = None]
      /\ live' = {b \in live : ~ (/\ b.owner = a[1]
                                  /\ \A x \in b.cells : x[1] = c)}

(* The slabs of the allocator are given back, and with them its buffers.   *)
GiveBack(a) ==
  LET c == mem_chunk[a]
  IN  /\ used' = [used EXCEPT ![c] = @ \ slabs[a]]
      /\ used_slab_count' = [used_slab_count EXCEPT ![c] =
                               @ - Cardinality(slabs[a])]
      /\ slabs' = [slabs EXCEPT ![a] = {}]
      /\ free_space' = [free_space EXCEPT ![a] = [s \in Slabs |-> 0]]
      /\ mem_chunk' = [mem_chunk EXCEPT ![a] = None]
      /\ live' = {b \in live : ~ (/\ b.owner = a[1]
                                  /\ \A x \in b.cells : x[1] = c)}

(* An allocator that never lent anything is dropped without the mutex.     *)
Release(o) ==
  /\ pc[o] = "idle"
  /\ mem_chunk[Own(o)] # None
  /\ Unlocked(Own(o)) \/ (slabs[Own(o)] = {} /\ mem_chunk[Addl(o)] = None)
  /\ GiveBack(Own(o))
  /\ pc' = [pc EXCEPT ![o] = IF mem_chunk[Addl(o)] = None THEN "idle"
                             ELSE "release"]
  /\ UNCHANGED <<mu, curr_mem_chunk, asked, scan>>

ReleaseAdditional(o) ==
  /\ pc[o] = "release"
  /\ Unlocked(Addl(o)) \/ slabs[Addl(o)] = {}
  /\ GiveBack(Addl(o))
  /\ pc' = [pc EXCEPT ![o] = "idle"]
  /\ UNCHANGED <<mu, curr_mem_chunk, asked, scan>>

-----------------------------------------------------------------------------
Continue(o) ==
  ScanChunk(o) \/ ScanDone(o) \/ AllocateRouted(o) \/ ReleaseAdditional(o)

OwnerStep(o) ==
  \/ MakeAllocator(o)
  \/ \E size \in Sizes : AllocateOwn(o, size) \/ AllocateElsewhere(o, size)
  \/ Continue(o)
  \/ Release(o)

Next == \E o \in Owners : OwnerStep(o)

Spec == Init /\ [][Next]_vars

(* A mutex of Go is handed over in the order it was asked for when waiting *)
(* takes long, so nobody waits for ever while others take turns.           *)
FairSpec == Spec /\ \A o \in Owners : SF_vars(Continue(o))

-----------------------------------------------------------------------------
(* Properties                                                              *)

(* Buffers of requests never share a byte (byteslabs.go:195-205, 116-138), *)
(* whichever chunk, slab or tail they are put into and in whatever order   *)
(* requests come and go.                                                   *)
NoOverlap == \A a, b \in live : a # b => a.cells \cap b.cells = {}

(* A buffer has room for what was asked for (memory[start:start:start+size]*)
(* in byteslabs.go:137 and 205), inside the chunk.                         *)
RightSize == \A b \in live : Cardinality(b.cells) = b.size

(* Slabs are not lost: what a chunk counts and marks as used is what its   *)
(* allocators hold, and no two hold the same (byteslabs.go:97-104, 247).   *)
SlabsAccounted ==
  /\ \A c \in Chunks :
       /\ used[c] = UNION {slabs[a] : a \in {b \in Allocators : mem_chunk[b] = c}}
       /\ used_slab_count[c] = Cardinality(used[c])
  /\ \A a, b \in Allocators :
       a # b /\ mem_chunk[a] = mem_chunk[b] => slabs[a] \cap slabs[b] = {}

(* What the allocator promises to the handlers that use it.                *)
Memory == INSTANCE Heap WITH Owners <- Owners, Cells <- Cells, live <- live
HeapSpec == Memory!Spec

(* Allocate and Release end, though the search for another chunk holds a   *)
(* mutex (byteslabs.go:146-163): nobody waits in a circle.                 *)
AllocationEnds == \A o \in Owners : pc[o] # "idle" ~> pc[o] = "idle"
=============================================================================
