-------------------------------- MODULE Heap --------------------------------
(***************************************************************************)
(* What an allocator of memory promises: a buffer is made of cells nobody  *)
(* else holds, stays as it is for as long as its owner wants it, and is    *)
(* given back by its owner alone.                                          *)
(***************************************************************************)
CONSTANTS
  Owners,   \* who may hold buffers
  Cells     \* the memory

VARIABLE live   \* the buffers held: [owner, num, size, cells]

Init == live = {}

Allocate ==
  \E b \in live' :
    /\ b.owner \in Owners
    /\ b.cells \subseteq Cells
    /\ \A other \in live : other.cells \cap b.cells = {}
    /\ live' = live \cup {b}

Free(o) ==
  /\ live' \subseteq live
  /\ \A b \in live \ live' : b.owner = o

Next == Allocate \/ \E o \in Owners : Free(o)

Spec == Init /\ [][Next]_live
=============================================================================
