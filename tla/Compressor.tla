----------------------------- MODULE Compressor -----------------------------
(***************************************************************************)
(* The multi-threaded compressor of answers (compress/engine.go, with the  *)
(* threads of flate.go and snappy.go). Compress cuts its input into blocks *)
(* that threads compress, each into the place of its block in the output   *)
(* buffer; no more than twelve at once. When all are back it moves them    *)
(* together, behind a table of their sizes. Short inputs go to threads of  *)
(* their own.                                                              *)
(*                                                                         *)
(* Lengths are counted in entries of the table (four bytes). What a block  *)
(* compresses to is any of Compressed; its byte k is the cell <<p, k>>.    *)
(* The caller gives an output buffer as long as the input, as sendBack     *)
(* does, and uses a long enough input for its table (RoomAssumption).      *)
(***************************************************************************)
EXTENDS Integers, Sequences, SequencesExt, FiniteSets

CONSTANTS
  Callers,
  Workers,        \* threads for blocks (number of CPUs)
  FastWorkers,    \* threads for short inputs
  QueueCap,       \* compressor's channel (500)
  FastCap,        \* compressor_fast's channel (50)
  OutCap,         \* channel of finished blocks (8)
  MaxInProgress,  \* blocks of one caller at work (12)
  BlockSize,      \* (15000: 60000 bytes for flate)
  Lengths,        \* by caller: lengths of inputs
  Compressed,     \* lengths a block may compress to
  Nil

Blocks(len) == (len + BlockSize - 1) \div BlockSize
BlockLen(len, p) == IF (p + 1) * BlockSize <= len THEN BlockSize ELSE len - p * BlockSize
FastOffset == 2
Short(len) == len < BlockSize
TooLong(total, len) == 5 * total > 4 * len   \* 0.8

ASSUME CompressorAssumption ==
  /\ {QueueCap, FastCap, OutCap, BlockSize} \subseteq Nat \ {0}
  /\ MaxInProgress \in Nat \ {0, 1}
  /\ Lengths \in [Callers -> SUBSET Nat] /\ Compressed \subseteq Nat \ {0}
  /\ Workers \cap FastWorkers = {}
  /\ Nil \notin [caller : Callers, piece : Nat, size : Int]

(* The channel of a caller has not room for all it may have at work, by    *)
(* more than one block (12 and 8): a caller that waits for the queue may   *)
(* have threads waiting for it.                                            *)
ASSUME LimitsAssumption == MaxInProgress > OutCap + 1

ASSUME RoomAssumption ==
  \A len \in UNION {Lengths[c] : c \in Callers} :
    IF Short(len) THEN len > FastOffset
    ELSE Blocks(len) + 1 <= len - (4 * len) \div 5

VARIABLES
  stage,       \* callers: "idle", "fast", "wait", "send", "get", "drain"
  length,      \* length of the input
  piece_no,    \* blocks handed over
  in_progress,
  is_broken,
  total,       \* out_size_total
  chunks,      \* sizes of the blocks that are back, by block
  ch_out,      \* callers' channels: finished blocks [piece, size], -1: no good
  queue,       \* compressor and compressor_fast: blocks [caller, piece]
  worker       \* threads: Nil, or the block at work [caller, piece, size]

callerVars == <<stage, length, piece_no, in_progress, is_broken, total, chunks>>
compressorVars == <<callerVars, ch_out, queue, worker>>

Channels == {"normal", "fast"}
Threads == Workers \cup FastWorkers
ChannelOf(w) == IF w \in Workers THEN "normal" ELSE "fast"

CompressorInit ==
  /\ stage = [c \in Callers |-> "idle"]
  /\ length = [c \in Callers |-> 0]
  /\ piece_no = [c \in Callers |-> 0]
  /\ in_progress = [c \in Callers |-> 0]
  /\ is_broken = [c \in Callers |-> FALSE]
  /\ total = [c \in Callers |-> 0]
  /\ chunks = [c \in Callers |-> <<>>]
  /\ ch_out = [c \in Callers |-> <<>>]
  /\ queue = [q \in Channels |-> <<>>]
  /\ worker = [w \in Threads |-> Nil]

-----------------------------------------------------------------------------
(* The caller hands its blocks over                                        *)

(* Compress starts: chunks, a channel of its own, counters.                *)
Begin(c) ==
  /\ stage[c] = "idle"
  /\ \E len \in Lengths[c] :
       /\ length' = [length EXCEPT ![c] = len]
       /\ stage' = [stage EXCEPT ![c] = IF Short(len) THEN "fast" ELSE "send"]
       /\ chunks' = [chunks EXCEPT ![c] = [p \in 0 .. Blocks(len) |-> 0]]
  /\ UNCHANGED <<piece_no, in_progress, is_broken, total, ch_out, queue, worker>>

Put(channel, c) ==
  queue' = [queue EXCEPT ![channel] = Append(@, [caller |-> c, piece |-> piece_no[c]])]

(* A short input is one block for the fast threads.                        *)
SendFast(c) ==
  /\ stage[c] = "fast" /\ Len(queue["fast"]) < FastCap
  /\ Put("fast", c)
  /\ piece_no' = [piece_no EXCEPT ![c] = 1]
  /\ in_progress' = [in_progress EXCEPT ![c] = 1]
  /\ stage' = [stage EXCEPT ![c] = "wait"]
  /\ UNCHANGED <<length, is_broken, total, chunks, ch_out, worker>>

(* A bug the properties must notice: one block too many at work.           *)
AfterSendingMore(c) ==
  IF in_progress'[c] > MaxInProgress THEN "get"
  ELSE IF piece_no'[c] = Blocks(length[c]) THEN "drain" ELSE "send"

(* With too many blocks at work one is taken back first.                   *)
AfterSending(c) ==
  IF in_progress'[c] >= MaxInProgress THEN "get"
  ELSE IF piece_no'[c] = Blocks(length[c]) THEN "drain" ELSE "send"

(* The next block; the send waits while the queue is full.                 *)
SendPiece(c) ==
  /\ stage[c] = "send" /\ Len(queue["normal"]) < QueueCap
  /\ Put("normal", c)
  /\ piece_no' = [piece_no EXCEPT ![c] = @ + 1]
  /\ in_progress' = [in_progress EXCEPT ![c] = @ + 1]
  /\ stage' = [stage EXCEPT ![c] = AfterSending(c)]
  /\ UNCHANGED <<length, is_broken, total, chunks, ch_out, worker>>

-----------------------------------------------------------------------------
(* The caller takes finished blocks back                                   *)

Got(c) == Head(ch_out[c])

(* get_next_piece: after a block that is no good, sizes matter no more.    *)
GetNextPiece(c) ==
  /\ ch_out[c] # <<>>
  /\ ch_out' = [ch_out EXCEPT ![c] = Tail(@)]
  /\ in_progress' = [in_progress EXCEPT ![c] = @ - 1]
  /\ total' = [total EXCEPT ![c] = @ + IF Got(c).size < 0 THEN 0 ELSE Got(c).size]
  /\ is_broken' = [is_broken EXCEPT ![c] = @ \/ Got(c).size < 0]
  /\ chunks' = IF is_broken'[c] THEN chunks
               ELSE [chunks EXCEPT ![c][Got(c).piece] = Got(c).size]

(* A bug the properties must notice: Compress returns at the first block   *)
(* that is no good, without the others.                                    *)
AfterGettingLeaves(c) ==
  IF is_broken'[c] THEN "idle"
  ELSE IF piece_no[c] = Blocks(length[c]) THEN "drain" ELSE "send"

(* A block that is no good ends the sending, not the waiting.              *)
AfterGetting(c) ==
  IF is_broken'[c] \/ piece_no[c] = Blocks(length[c]) THEN "drain" ELSE "send"

GetPiece(c) ==
  /\ stage[c] = "get"
  /\ GetNextPiece(c)
  /\ stage' = [stage EXCEPT ![c] = AfterGetting(c)]
  /\ UNCHANGED <<length, piece_no, queue, worker>>

(* _fastpath waits for its only block.                                     *)
GetFast(c) ==
  /\ stage[c] = "wait"
  /\ GetNextPiece(c)
  /\ stage' = [stage EXCEPT ![c] = "drain"]
  /\ UNCHANGED <<length, piece_no, queue, worker>>

Drain(c) ==
  /\ stage[c] = "drain" /\ in_progress[c] > 0
  /\ GetNextPiece(c)
  /\ UNCHANGED <<stage, length, piece_no, queue, worker>>

-----------------------------------------------------------------------------
(* The output buffer                                                       *)

Blank == <<>>
Entry(size) == <<size>>

(* The buffer when every block lies at its own place.                      *)
InPlace(c) ==
  [x \in 0 .. length[c] - 1 |->
     LET p == x \div BlockSize
     IN IF x % BlockSize < chunks[c][p] THEN <<p, x % BlockSize>> ELSE Blank]

(* copy(out[dst:dst+n], out[src:src+n])                                    *)
Move(out, dst, src, n) ==
  [x \in DOMAIN out |-> IF x \in dst .. dst + n - 1 THEN out[src + x - dst] ELSE out[x]]

Before(sizes, p) == SumFunctionOnSet(sizes, 0 .. p - 1)

(* A bug the properties must notice: room for one entry too many.          *)
PositionLate(c, p) == Blocks(length[c]) + 2 + Before(chunks[c], p)

(* Where block p goes: behind the table and the blocks before it.          *)
Position(c, p) == Blocks(length[c]) + 1 + Before(chunks[c], p)

(* The buffer when the first n blocks have been moved, one after another.  *)
Moved(c, n) ==
  LET moved[p \in 0 .. n] ==
        IF p = 0 THEN InPlace(c)
        ELSE Move(moved[p - 1], Position(c, p - 1), (p - 1) * BlockSize, chunks[c][p - 1])
  IN moved[n]

(* All blocks are moved, then the table is written.                        *)
Merged(c) ==
  LET n == Blocks(length[c])
      moved == Moved(c, n)
  IN [x \in 1 .. Position(c, n) |->
        IF x <= n + 1 THEN Entry(chunks[c][x - 1]) ELSE moved[x - 1]]

(* A merge moves every block before anything is written over it.           *)
Fits(c) ==
  \A p \in 1 .. Blocks(length[c]) - 1 : Position(c, p) <= p * BlockSize

(* _fastpath: the block was compressed to its final place, the table goes  *)
(* before it.                                                              *)
FastAnswer(c) ==
  <<Entry(chunks[c][0]), Entry(0)>> \o [k \in 1 .. chunks[c][0] |-> <<0, k - 1>>]

(* What Compress returns.                                                  *)
Answer(c) ==
  IF is_broken[c] \/ TooLong(total[c], length[c]) THEN Nil
  ELSE IF Short(length[c]) THEN FastAnswer(c) ELSE Merged(c)

Ready(c) == stage[c] = "drain" /\ in_progress[c] = 0

(* Compress returns Answer(c); nothing else is left of the call.           *)
Finish(c) ==
  /\ Ready(c)
  /\ stage' = [stage EXCEPT ![c] = "idle"]
  /\ length' = [length EXCEPT ![c] = 0]
  /\ piece_no' = [piece_no EXCEPT ![c] = 0]
  /\ is_broken' = [is_broken EXCEPT ![c] = FALSE]
  /\ total' = [total EXCEPT ![c] = 0]
  /\ chunks' = [chunks EXCEPT ![c] = <<>>]
  /\ UNCHANGED <<in_progress, ch_out, queue, worker>>

-----------------------------------------------------------------------------
(* The threads                                                             *)

(* What compressing a block can give: a length, or -1 where it is no       *)
(* shorter and not short, or has no room.                                  *)
Results(b) ==
  LET len == length[b.caller]
      in == BlockLen(len, b.piece)
      room == IF Short(len) THEN len - FastOffset ELSE in
      good == {n \in Compressed : (n < in \/ 3 * n <= BlockSize) /\ n <= room}
  IN good \cup {-1}

(* A thread takes a block and compresses it into the block's place.        *)
Take(w) ==
  /\ worker[w] = Nil /\ queue[ChannelOf(w)] # <<>>
  /\ LET b == Head(queue[ChannelOf(w)])
     IN \E n \in Results(b) :
          worker' = [worker EXCEPT ![w] = [caller |-> b.caller, piece |-> b.piece, size |-> n]]
  /\ queue' = [queue EXCEPT ![ChannelOf(w)] = Tail(@)]
  /\ UNCHANGED <<callerVars, ch_out>>

ChannelRoom(c) == IF stage[c] = "wait" THEN 1 ELSE OutCap

(* A bug the properties must notice: a thread keeps what is no good.       *)
GiveGood(w) ==
  LET b == worker[w]
  IN ch_out' = IF b.size < 0 THEN ch_out ELSE
       [ch_out EXCEPT ![b.caller] = Append(@, [piece |-> b.piece, size |-> b.size])]

(* The result goes to the caller's channel.                                *)
Give(w) ==
  LET b == worker[w]
  IN ch_out' = [ch_out EXCEPT ![b.caller] =
                  Append(@, [piece |-> b.piece, size |-> b.size])]

(* The thread waits while that channel is full.                            *)
Done(w) ==
  /\ worker[w] # Nil
  /\ Len(ch_out[worker[w].caller]) < ChannelRoom(worker[w].caller)
  /\ Give(w)
  /\ worker' = [worker EXCEPT ![w] = Nil]
  /\ UNCHANGED <<callerVars, queue>>

-----------------------------------------------------------------------------
Call(c) ==
  SendFast(c) \/ SendPiece(c) \/ GetPiece(c) \/ GetFast(c) \/ Drain(c) \/ Finish(c)
Thread(w) == Take(w) \/ Done(w)

CompressorNext ==
  \/ \E c \in Callers : Begin(c) \/ Call(c)
  \/ \E w \in Threads : Thread(w)

CompressorSpec == CompressorInit /\ [][CompressorNext]_compressorVars

(* No thread sleeps for ever, and a channel of Go serves those who wait    *)
(* for room or for a block in the order they came: nobody is overtaken for *)
(* ever (strong fairness where others can take what one waits for).        *)
CompressorFairSpec ==
  /\ CompressorSpec
  /\ \A c \in Callers :
       /\ SF_compressorVars(SendFast(c) \/ SendPiece(c))
       /\ WF_compressorVars(GetPiece(c) \/ GetFast(c) \/ Drain(c) \/ Finish(c))
  /\ \A w \in Threads : SF_compressorVars(Thread(w))

-----------------------------------------------------------------------------
(* Properties                                                              *)

Size == Compressed \cup {-1}
Block == [caller : Callers, piece : Nat]

(* Channels hold what they have room for, and callers no more blocks at    *)
(* work than they may (engine.go:41-42, 97, 120).                          *)
CompressorTypeOK ==
  /\ stage \in [Callers -> {"idle", "fast", "wait", "send", "get", "drain"}]
  /\ length \in [Callers -> Nat]
  /\ piece_no \in [Callers -> Nat]
  /\ in_progress \in [Callers -> 0 .. MaxInProgress]
  /\ is_broken \in [Callers -> BOOLEAN]
  /\ total \in [Callers -> Nat]
  /\ ch_out \in [Callers -> Seq([piece : Nat, size : Size])]
  /\ queue \in [Channels -> Seq(Block)]
  /\ worker \in [Threads -> [caller : Callers, piece : Nat, size : Size] \cup {Nil}]
  /\ \A c \in Callers : Len(ch_out[c]) <= OutCap
  /\ Len(queue["normal"]) <= QueueCap /\ Len(queue["fast"]) <= FastCap

(* The blocks a caller waits for are where somebody works on them, each    *)
(* once (engine.go:94-130): when Compress has returned no thread is left   *)
(* that writes into its buffer, which is a slab of the request.            *)
PiecesAccounted ==
  \A c \in Callers :
    LET queued == {x \in Channels \X (1 .. QueueCap + FastCap) :
                     x[2] <= Len(queue[x[1]]) /\ queue[x[1]][x[2]].caller = c}
        at_work == {w \in Threads : worker[w] # Nil /\ worker[w].caller = c}
    IN /\ in_progress[c] = Cardinality(queued) + Cardinality(at_work) + Len(ch_out[c])
       /\ stage[c] = "idle" => in_progress[c] = 0

(* Uncompress: the table up to its 0, then block after block. The line     *)
(* that prints the first ten bytes of each block (engine.go:183) is left   *)
(* out: where fewer follow, it panics.                                     *)
Uncompress(in) ==
  LET n == CHOOSE i \in 1 .. Len(in) : in[i] = Entry(0) /\ \A j \in 1 .. i - 1 : in[j] # Entry(0)
      sizes == [i \in 0 .. n - 2 |-> in[i + 1][1]]
  IN [i \in 1 .. n - 1 |->
        LET start == n + Before(sizes, i - 1)
        IN SubSeq(in, start + 1, start + sizes[i - 1])]

(* What Compress returns uncompresses to all blocks in their order         *)
(* (engine.go:70-77, 138-158, 159-191), in whatever order they came back   *)
(* and whatever their sizes, as long as none had to be moved over another. *)
RoundTrip ==
  \A c \in Callers : Ready(c) /\ Answer(c) # Nil /\ Fits(c) =>
    Uncompress(Answer(c)) =
      [i \in 1 .. Blocks(length[c]) |-> [k \in 1 .. chunks[c][i - 1] |-> <<i - 1, k - 1>>]]

(* Somebody can go on, unless the queue is full, a caller waits for room   *)
(* in it, and every thread that could make some holds a block for the full *)
(* channel of such a caller; the other callers then have nothing to take   *)
(* back and wait for blocks in the queue. A block that is no good or a     *)
(* caller that breaks off brings nobody to a halt, and short inputs are    *)
(* always answered (engine.go:59-70, 112-132).                             *)
Progress == (\E c \in Callers : Call(c)) \/ (\E w \in Threads : Thread(w))
BlocksInQueue(c) == Cardinality({i \in DOMAIN queue["normal"] : queue["normal"][i].caller = c})
OnlyTheCircleStops ==
  ~ENABLED Progress =>
    \/ \A c \in Callers : stage[c] = "idle"
    \/ /\ Len(queue["normal"]) = QueueCap
       /\ \E c \in Callers : stage[c] = "send"
       /\ \A w \in Workers :
            /\ worker[w] # Nil /\ stage[worker[w].caller] = "send"
            /\ Len(ch_out[worker[w].caller]) = OutCap
       /\ \A c \in Callers : stage[c] \notin {"idle", "send"} =>
            stage[c] \in {"get", "drain"} /\ in_progress[c] = BlocksInQueue(c)

(* Every call of Compress gets an answer (engine.go:79-157). Not so: while *)
(* callers wait for room in the queue they take nothing back, and threads  *)
(* that wait for room in the callers' channels take nothing from the queue *)
(* (engine.go:98, 118, 122).                                               *)
NobodyHangs == \A c \in Callers : stage[c] # "idle" ~> stage[c] = "idle"
=============================================================================
