# solproxy in TLA+

solproxy stands between users and a set of Solana RPC nodes: it counts what it
asks of each node, keeps it below the limits of the node, notices nodes that
fail, and sends every request to a node that can answer it, trying others when
one does not. This directory holds TLA+ modules of the parts that decide this,
TLC models of them, and proofs checked by TLAPS.

Run `tlc -config X.cfg M` for a model and `tlapm M.tla` for proofs; the table
of runs below names the pairs.

## 1. Inventory

Paths are relative to `src/`; "node" is a `SOLClient`.

| Component | State | Operations | Correct when |
|---|---|---|---|
| Throttles (`gosol/solana_proxy/client/throttle`) | per throttle a ring of windows (requests, requests per method, bytes) and a kept verdict (score, throttled, capacity used) | `OnRequest`, `OnReceive`, `OnMaintenance`, group versions of them, `GetLimitsLeft` | no limit is overdrawn, the verdict follows from the windows, a throttled node becomes free again |
| Throttle configuration (`read_config.go`) | none | parse limits, choose number and length of windows | every limit fits in its ring |
| Node client (`client.go`, `request_basic.go`, `maintenance.go`, `stats.go`, `last_error.go`) | counters in total and for each of the last 60 seconds, `stat_running`, `serial_no`, `is_disabled`, `is_paused`, throttles | `RequestForward`, `RequestBasic`, `_docall`, `_maint_stat`, probe, heartbeat | counters agree with the calls really made, the health verdict rests on the recent seconds |
| RPC calls (`request.go`) | block numbers and version of the node | `GetBlock`, `GetVersion`, `GetLastAvailableBlock` ... | newest block number never goes backwards |
| Manager (`manager.go`) | the list of nodes | `NodeRegister`, `ClientManage`, readers | nobody sees a half-made list |
| Scheduler (`scheduler.go`, `scheduler_pick.go`) | one per request: copy of the list, forced side, minimum block | `GetAnyClient`, `GetPublicClient`, `GetAll`, `GetAllSorted`, `ForcePublic`, `ForcePrivate`, `SetMinBlock` | hands out each node once, only fit ones, of the right side |
| Request handlers (`handle_solana_01`, `handle_solana_raw`) | one request | route, call, retry | every fit node is tried before a request is given up; the search ends |
| Custom health checker (`custom_health_checker.go`) | results by endpoint | ask every node, compare, pause | pauses the node it judged |
| Administration (`handle_solana_admin`) | none of its own | add, replace, remove nodes | a replacement leaves exactly one |
| Node information (`handle_solana_info`, `status.go`) | none | report | - |
| Key-value store (`handle_kvstore`) | pools of expiring values | get, set | an expired or deleted key is not returned |
| Plugins (`gosol/plugins`) | list of plugins | run | - (none is started) |
| TCP service (`handler_socket2/handler_socket.go`, `conn_ex.go`, `hs_params.go`) | per connection: receive buffer, negotiated compressor | read, frame, dispatch, answer, close | answers in order, each from its own request's bytes |
| UDP service (`hs_udp.go`, `hs_udp_v1.go`) | messages being reassembled, by address | collect, dispatch, clean | a message is made of its own parts |
| HTTP service and dispatch (`hs_http.go`, `hs_engine.go`) | none | parse, dispatch | - |
| Compression engine (`compress`) | queue, workers | split, compress, merge | ends (it may not); output decompresses to input |
| Slab allocators (`byteslabs`, `byteslabs2`) | free slabs and free bytes of each slab, per chunk | `Allocate`, `MakeAllocator`, `Release` | live buffers never overlap, all slabs come back |
| Connection statistics (`stats`) | open connections, history ring | create, update, close | each connection counted once |
| Configuration, helpers, vendored snappy, `main`, admin page | - | - | - |

### How they interact

Goroutines, mutexes and function calls, no messages between processes. A
request arrives by HTTP, TCP or UDP (`handler_socket2`), is parsed into
parameters and handed to an action handler. The handler makes a scheduler, which
copies the manager's list under a read lock and then looks at one node after
another with `GetInfo`, each look under that node's own mutex. The node found is
called; the call takes the node's mutex at its start (admission, counting), in
the middle of nothing while the request is on the wire, and again at its end.
Independently each node runs a loop that notices new seconds (`_maint`), a
heartbeat every 500 ms, and probes `_maint_stat` launches; the health checker
pauses nodes; the administrator adds and removes them.

### What is hard

* **Stale looks.** A handler decides on what a node told at different moments:
  between looking, picking and calling, the node may be disabled, paused,
  throttled or removed.
* **Split critical sections.** One request is counted in up to four critical
  sections of a node's mutex, two of which may each count it as failed.
* **Rings indexed by time.** Throttle windows and the 60 slots of statistics are
  reused; the loop that clears them can miss a second (`maintenance.go:107-117`
  reads the clock twice per turn).
* **Kept verdicts.** `status_throttled` and `is_disabled` are computed at some
  events and read at others.
* **Late answers.** Bytes are charged to the window in which the answer arrives.
* **Shared memory** on a TCP connection, in the compression engine and in the
  slabs.

`PROJECT.json` lists every one with its line under "hazards".

## 2. Plan

Ordered by what matters most to the program. "Done" is on disk and checked.

| Module | Models | Composes / extends | State |
|---|---|---|---|
| `SecondLoop` | the loop that notices seconds, and those it misses | - | done |
| `Throttle` | a throttle and a group of them, as functions | - | done |
| `ThrottleGroup` | the throttles of a node at work | `Throttle`, `SecondLoop` | done |
| `SOLClient` | a node: admission, call, accounting, health, probe, startup | `Throttle`, `SecondLoop` | done |
| `NodeList` | the list of nodes: registration, removal | - | done |
| `Manager` | the list and the changing information of its nodes | `NodeList` | done |
| `Scheduler` | picking and listing nodes, one look per step | `Manager` | done |
| `Routing` | the three handlers | `Scheduler` | done |
| `Heap` | what an allocator promises, abstractly | - | done |
| `ByteSlabs` | slabs, chunks, allocators of requests | refines `Heap` | done |
| `HealthChecker` | rounds over a list that changes, pausing, replacement | `NodeList` | done |
| `ThrottleConfig` | from a configuration to throttles | gives `MCThrottleGroup` its throttles | done |
| `ConnStats` | a connection's entry, sums, the history ring | - | done |
| `Connection` | framing, shared memory, negotiation, answers, closing | `ConnStats` | done |
| `UDPService` | reassembly by address, table of sources, cleaners | - | done |
| `Compressor` | queues, threads, blocks, merge in place | - | done |
| `KVStore` | a map of expiring values under one mutex | - | left out, section 6 |
| `DataProofs` | lemmas: induction, greatest elements, rings, sums, lists, concatenations | - | done |
| `ThrottleProofs` | theorems | `ThrottleGroup`, `ThrottleConfig`, `DataProofs` | done |
| `SOLClientProofs`, `ConnectionProofs`, `UDPServiceProofs`, `HealthCheckerProofs`, `RoutingProofs` | theorems | their modules and `DataProofs` | done |
| `MemoryProofs` | theorems about memory and those who write into it | `ByteSlabs`, `Compressor`, `DataProofs` | done |

Abstract specifications: a `Heap` of disjoint buffers, refined by `ByteSlabs`
(stated, checked and proved). Worth stating next: `NodeHealth` (a node is usable
or not, and changes only by maintenance), refined by `SOLClient`.

Theorems worth proving next: the refinement of `NodeHealth` once it is stated.

## 3. What is modelled

### `SecondLoop`: noticing seconds

`maintenance.go:100-125`. Variables `clock` (the time), `loop_now` and `loop_pc`
(the loop's local state), `noticed` (the second `_maint_stat` last saw). `Tick`
is time; `ReadNow`, `Wake` and `WakeIdle` are the loop. A second that begins
between `Wake` and `ReadNow` is lost. The clock counts modulo `Cycle`, a common
multiple of all ring turns, so that models are finite without stopping time;
`MaxMissed` bounds how many seconds in a row may be lost.

### `Throttle`, `ThrottleGroup`: limits

`Throttle` gives each method as a function from a throttle's record to the one
it leaves. `OnRequest` counts and judges, `OnReceive` counts bytes and does not
judge, `OnMaintenance` turns the ring, clears only the window it turns to, and
judges. Sums wrap around a ring that is too short, as the Go loops do.
`ThrottleGroup` runs a group: `Request` admits and counts, `Receive` and `Fail`
end a call at any later time, `Maintain` is the loop's step. Two ghosts record
what the program does not: `admitted` (admissions by age of their window) and
`overdrawn` (admissions since a data limit was exceeded). The 64-bit counters
are unbounded integers: no limit comes near 2^63.

### `ThrottleConfig`: which throttles a node gets

Pure operators: `TimeWindow` (the size and number of windows for a time),
`MakeFromConfig` (limits over times with the same windows share a throttle; one
bad piece and there is none), `MakeForPublic`, `NodeThrottles`
(`sol_config_reader.go:50-92`). `MCThrottleGroup` composes the two: the
throttles of the run are what `NodeThrottles` makes of a configuration, with a
ring of 3 in place of 120 windows. `Fits` and `Covers` say what limits rely on;
section 5 says for which times they hold.

### `SOLClient`: a node

One action is one critical section of the node's mutex.

| Action | Code |
|---|---|
| `Admit` in `RequestForward`, `RequestBasic`, `Probe`, `BootCall` | `request_basic.go`: up to the first unlock |
| `BadRequest`, `HTTPError`, `ReadError`, `Answer` | the ways `_docall` ends |
| `SerialFound`, `SerialMissing` | what `RequestBasic` does with the answer |
| `Maintain` (`MaintStat`) | `_maint_stat`, once the loop wakes |
| `BootTick`, `BootDone` | `MakeClient`: three requests, the first `_maint_stat` |
| `LoopStep` | `SecondLoop` |

Counters that nothing reads (`stat_bytes_*`, `stat_ns_total`, request counts by
name, the text of the last error) are left out. `history` (ghost) counts what
happened by the age of its second, independent of how the ring is indexed;
`settled` (ghost) says that the ring has turned past slot 0, where
startup requests are counted whatever the time.

### `NodeList`, `Manager`, `Scheduler`, `Routing`: a request finds a node

`NodeList` is the list of `manager.go`, with `ClientRegister` and `ClientRemove`;
`known` is every node ever made. `Manager` adds what a node tells. What a node tells (`info`: flags, score, first block)
changes at any moment to any value in `NodeStates`; `SOLClient` and
`ThrottleGroup` say in detail how. `Scheduler` gives `_pick_next` as steps that
look at one node each (`DropNode`, `KeepNode`, `SkipNode`) and one that hands
out the best (`PickDone`), and `GetAllSorted` likewise (`ListNode`,
`ReadScore`, `Sort`). `Routing` gives the handlers:

| Handler | Code | Search |
|---|---|---|
| `solana_01` | `handle_solana_01.go` | any node; then while it fails, public nodes, then any |
| `raw` | `solana_raw.go` | any node; then one public node; then any while they are throttled |
| `passthrough` | `public_passthrough_proxy.go` | private nodes by score until two fail |

A call is `Send` (throttled at once, or on the wire) and `Answered`. Requests
share nothing except nodes and list, whose changes are arbitrary, so one request
at a time represents any number of them. Ghosts: `tried` (nodes called),
`snapshot` (nodes the scheduler copied), `unfit` (nodes once unfit during the
request), `away` (nodes unfit ever since the last answer). A request repeated
inside one call to a GenesysGo node (`request.go:149-157`) is part of that call.

### `HealthChecker`: who is paused

`custom_health_checker.go` over the same `NodeList`, with the administrator of
`handle_solana_admin.go`. One action is one critical section, of the list's
lock or of a node's.

| Action | Code |
|---|---|
| `BeginRound`, `Snapshot` | `custom_health_checker.go:88-93`: what each node knows, under the list's read lock |
| `RefreshNext` | `:99-124`: a turn of the loop that has old answers asked again; the lock is held for the index only |
| `RefreshAnswered`, `RefreshStored` | `:125-126`: `GetLastAvailableBlock` of one goroutine: the request, then the answer stored under the node's mutex |
| `RefreshDone` | `:127-131`: the goroutine writes its info and is done |
| `Wait` | `:134-144`: all goroutines are done; the highest block |
| `Judge` | `:146-168`: one info, all nodes of its endpoint |
| `EndRound` | `:177-182`: unlock, sleep |
| `AdminAdd`, `AdminReplace` | `handle_solana_admin.go:71-97`: the new node is registered, and the old one removed later, under the list's lock twice |
| `AdminRemove` | `:58-69` |
| `BeatAnswered`, `BeatStored` | a node's own heartbeat learns the last block and stores it, however late |
| `BlocksMade` | the chain behind an endpoint grows |

How old an answer is depends on time alone, so whether a node is asked again is
a free choice. Between `Snapshot` and `RefreshNext` the list may change: the
node asked again for a place may be another one, and its info replaces the one
that was there. Several nodes may have one endpoint. Ghosts: `calm` (the list is
as it was when the round began), `lo` (the least block each node was known at in
the round), `replaced` and `gone` (replacements and removals asked for).

### `Heap`, `ByteSlabs`: memory of requests

`handler_socket2/byteslabs/byteslabs.go`. (`byteslabs2` is the same with its
constants made parameters; nothing imports it.) A chunk is `used`, `used_slab_count` and `mu`; a request
is an owner with up to two allocators, `Own(o)` and `Addl(o)`, each with its
chunk, slabs and free bytes of each slab. One action is one critical section:

| Action | Code |
|---|---|
| `MakeAllocator` | `MakeAllocator`: chunks take turns |
| `AllocateOwn` | `Allocate` served by the own chunk |
| `AllocateElsewhere`, `ScanChunk`, `ScanDone` | the own chunk is full: `take_additional` looks at the counters of the others, one a step, with the own chunk's mutex held and without theirs |
| `AllocateRouted` | the additional allocator, or Go's heap |
| `Release`, `ReleaseAdditional` | the two halves of `Release` |

`TakeTail` and `TakeSlabs` are the two ways `allocate_slab` finds room. A byte is
a cell <<chunk, slab, offset>>, so overlap is overlap of sets of cells. `live`
(ghost) holds the buffers lent. Buffers from Go's heap and those of up to 96
bytes are not kept: they share nothing. An allocator is used by the goroutine of
its request alone, as its callers do.

### `ConnStats`, `Connection`: a TCP connection

`handler_socket.go`, `conn_ex.go`, parts of `hs_params.go`, and
`stats/stats.go`, `stats/stats_history.go`. One goroutine serves a connection;
what it shares with others is its entry in the table, the history, slabs and
compressors, so one connection is modelled.

| Action | Code |
|---|---|
| `Accept` | `handler_socket.go:207-220`: the loop is about to begin; `make_conn_ex`, `MakeConnection` |
| `ReadHeader`, `HeaderThere` | `:221-266`: one turn of the loop up to the place a request gets, with or without a read; `getStreamBuffer` is `Framed` and `Place` |
| `ReadBody`, `ReadFails` | `:268-292` |
| `Decode` | `:294-340`: the request is cut off and decoded |
| `Serve` (`Negotiate`) | `:342-379`: `handle_conn_ex`, or the handler; which answer is used |
| `Answer` | `:384-394`: `sendBack`, `StateKeepalive`, `Cleanup` |
| `Crash`, `Exited` | `:440`, `:164-204`: the compressor `sendBack` calls was never made; the deferred function ends the program |
| `Fail`, `Finish` | the two `Close`, the end of `serveSocket` |
| `Clock` | seconds, the goroutine behind `TSNow`, the goroutines of `Close` |
| `StatusPage` | `uh_get` |

An answer carries the encoding its header names (`said`). The bytes have
another: what is named gzip is bare deflate (`compress/simple.go`), and the compressor
that is called is the one for flate whatever was negotiated. A server may have
any of the two multi-part compressors (`compression_ex.go:14-28`); where it has
not the one for flate, calling it ends the program (`Crash`).

A byte is a cell <<request, position>>. Where a stream lies is part of the
state (`place`, `base`): `append` keeps it there while there is room and moves it
otherwise, and what `sendBack` writes into sharedmem turns cells that lie there
into `Junk`. Junk may be taken for any request of the instance. The statistics count
seconds back from now, so a stamp is an age and the state stays finite while
time goes on. Ghosts: `handled`, `answers`, `overwritten`, `counted` (what was
counted, by second), `torn` (seconds that were going on when the status page
cleared their row).

### `UDPService`: messages without connections

`hs_udp.go`, `hs_udp_v1.go`.

| Action | Code |
|---|---|
| `Send`, `Lose` | sources and network: any lengths of datagrams, loss, and (in `Receive`) one that overtakes another |
| `Receive` | `hs_udp.go:151-174` |
| `CutMessage`, `Flush`, `Wait` | one turn of the loops at `:176-217` and `:219-258`: a complete message goes to a goroutine; a header that tells no length drops all; more bytes are needed |
| `Serve`, `FinishTask` | `runRequest`, `runRequestV2`, in the goroutine of the message, and `udpStatFinishRequest` |
| `Turn` | `:340-352`: a second begins, a slot is taken by `cleaners_get` |
| `Clean` | `:28-49`: the callback on the table |
| `PutBack` | `:354-361`: what is still at work goes to the current slot |

`Begun`, `Requested` and `Finished` are the three functions on the table; they
are used by goroutines in any order, and a source that sends a second message
begins its entry anew. Ghosts: `handled`, `faults`, `garbled`.

### `Compressor`: compressing an answer

`compress/engine.go` with the threads of `flate.go` and `snappy.go`.

| Action | Code |
|---|---|
| `Begin` | `engine.go:79-97` |
| `SendPiece`, `GetPiece`, `Drain` | `:106-129`: a send that waits for room; one back when too many are at work; the rest at the end |
| `SendFast`, `GetFast` | `_fastpath`, `:59-75` |
| `Finish` | `:131-157`: `Answer` is what it returns |
| `Take`, `Done` | `flate.go:23-60`, `snappy.go:17-45`: a thread takes a block, and waits for room in the caller's channel |

`Merged` moves the blocks (`Moved`) one after another in the buffer they were written to,
as the code does, so that a move over bytes still needed would be seen.
`Uncompress` is the inverse a client applies, without its debugging line
(`engine.go:183`), which slices ten bytes of each block and panics where fewer
follow.

## 4. What is checked

| Run | Module, cfg | Question |
|---|---|---|
| throttle_group | `MCThrottleGroup` | are limits kept and verdicts right, with late answers and missed seconds? |
| client | `MCSOLClient` | is a node's accounting exact and its health verdict based on the recent seconds? |
| routing | `MCRouting` | does a request find what there is to find, never twice, never on the wrong side, and end? |
| health_checker | `MCHealthChecker` | is who lags paused and who keeps up spared, over a list that changes; does every round end and a paused node come back? |
| byteslabs | `MCByteSlabs` | do requests that share chunks keep apart, is memory given back, does allocation end? |
| redo | `MCRouting`, `RoutingRedo.cfg` | README: failed requests are redone (refuted) |
| connection | `MCConnection` | are requests cut as they were sent, answered with their own answer, compressed as negotiated; what can end the program; do table and history of statistics stay right? |
| pipelined | `MCConnection`, `ConnectionPipelined.cfg` | handler_socket.go: several requests in the stream are served (refuted) |
| memory | `MCConnection`, `ConnectionMemory.cfg` | handler_socket.go: memory is freed at the end of a request (refuted) |
| udp | `MCUDPService` | are messages handed on as sent; does every source leave the table? |
| compressor | `MCCompressor` | does what a call returns uncompress to its input, with no thread left that writes into its buffer; what can halt it? |
| compressor_hangs | `MCCompressor`, `CompressorHangs.cfg` | does every call end? (refuted) |

### Properties and why they could fail

* `RateLimit`: in the windows a limiter looks at, no more than its maximum was
  admitted, counted by the ghost and not by the ring. Breaks if a request is
  judged before it is counted, or only when the ring turns.
* `OneRequestPastDataLimit`: bytes are judged late, but only one request late.
* `VerdictNeverTooStrict`: the kept verdict never exceeds a fresh one, and
  equals it without data limits.
* `Recovers`: a throttled node is used again; see fairness.
* `RunningExact`, `FailsAtMostOnce`, `SerialsUnique`: counters against calls in
  progress over the four critical sections.
* `VerdictOnRecentSeconds`: `is_disabled` is what the ghost history of the
  lookback justifies - nothing older, nothing lost.
* `NoNodeTwice`, `ForcedSide`: whatever changes between looks and whichever of
  the searches are chained.
* `FailoverExhaustive`, `ThrottledIsRerouted`: a request is given up only when
  every node it could use was called or was unfit at some moment.
* `StaysAway`: a retry never goes to a node that was unfit ever since the last
  answer (looks are fresh). Passthrough is excepted: it walks a list made once.
* `RequestEnds`: the search is finite.
* `CaughtUpSpared`, `LaggardPaused`: the verdict is about the node it is given
  to, though what it rests on was gathered by place in a list that changes, by
  goroutines of their own, and stored by heartbeats late.
* `ReplacedNeverMissing`: between the two halves of a replacement others may
  remove either node; one of the pair is in the list unless somebody asked
  otherwise.
* `Resumes`, `RoundEnds`: a node that caught up goes on, and no round waits for a
  goroutine that was not started.
* `NoOverlap`: buffers of requests never share a byte, whichever tail, slab or
  chunk they are put into. That each has the size asked for (`RightSize`) is proved
  for all sizes and has no run.
* `SlabsAccounted`: what a chunk marks and counts is what its allocators hold,
  though counting and marking are separate and read without the mutex.
* `HeapSpec`: `ByteSlabs` implements `Heap`; buffers also stay as they are until
  their owner gives them back.
* `AllocationEnds`: a search that holds a mutex never waits in a circle.
* `RequestsKept`: whatever lengths the bytes arrive in and wherever they are put
  (shared memory, a slab, memory of their own), requests are served in order, each
  from its own bytes. It excepts connections on which an answer was written over
  bytes that wait; `RequestsIntact` is the same without exception and is refuted.
* `AnswersMatch`: an answer chosen from `fastreturn`, a copy or the handler's
  string is never the one of an earlier request.
* `NegotiationKept`: a connection keeps two variables, a compressor and a threshold,
  that each negotiation changes depending on what they were. However many there were,
  an answer that names a compressor must be longer than the threshold asked for
  last and name the one that a rule about all requests so far says: snappy in the
  LAN, once told and not turned off since, else flate, else gzip. It is about the
  name only: the bytes are not always what the name says (see disagreements).
* `CrashExplained`: `sendBack` calls the compressor for flate whatever was
  negotiated. Negotiations must leave a compressor in the connection of a server
  without flate only while the client is taken to know snappy; one that turned
  compression off, or asks for it without snappy, must get an answer, not the end of
  the program for all.
* `HistoryExact`: a ring of six rows, stamps a second late, errors counted by a clock
  that lags and a reader that clears rows: a complete second shows what was
  counted in it.
* `EntryRemoved`: a failed connection is closed twice, by goroutines that sleep twice;
  the entry goes for good and none of them uses it afterwards.
* `HandledAsSent`: however datagrams are cut, messages are handed on whole and in
  order, and nothing complete is left waiting - of a source of which nothing was
  lost, overtaken or flushed.
* `FinishedScheduled`, `StatsCleaned`: entries are closed by whoever finishes
  first, opened again by a new message, and put back by cleaners that looked at
  them before; none is forgotten.
* `PiecesAccounted`: no block is lost or left behind by a call that breaks off:
  a thread still at work would write into memory that is lent anew.
* `RoundTrip`: see below on when it fails.
* `OnlyTheCircleStops`: callers wait for the queue, threads for callers, callers for
  threads. The circle can close: `NobodyHangs` is refuted. This says that nothing
  else halts the compressor: where nobody can go on, the queue is full, every thread
  holds a block for the full channel of a caller that waits for the queue, and the
  other callers wait for blocks in it. A block that is no good, a caller that breaks
  off and short inputs among long ones leave nobody waiting.

Type correctness is an invariant of every passing run except `routing`,
`byteslabs` and `health_checker`, whose `TypeOK` is proved for every instance.

Each property of a passing run has a mutant in `PROJECT.json`: a definition kept
in its module beside the right one, marked "A bug the properties must notice",
that breaks it.

### Bounds, and why they are enough

* throttle_group: a configuration of three limits that makes two throttles, of three 1 s and
  three 2 s windows, with three kinds of limiter over two or three windows, two
  methods, two calls in flight (one answer late while another is admitted), a
  cycle of 6 s, which is a turn of both rings; one second in a row may be
  missed. A limit is reached and passed, rings wrap, a stale window is left
  behind by a missed second.
* client: two users, a prober and the heartbeat, three requests in all, one of
  them the startup request; a ring of 3 s with a lookback of 2 s to 3 s in place of 60, 30
  to 60; dead at half in place of a fifth; a probe time of 0 (not probed) and of
  2; endpoint good or refused. Three requests suffice for two concurrent calls
  beside an earlier failure. `MaxMissed = 0`: a missed second leaves an old slot
  uncleared in between, and `VerdictOnRecentSeconds` is promised only without.
* routing: two private nodes and a public one, two configured in either order
  (the third may be registered meanwhile), four states of a node, two changes or
  removals during a behaviour, five requests that cover the handlers and forced
  sides, both sides at once included. A counterexample to failover needs one change between two
  looks; two allow a node to go and come back. Scores are 0 and 1, so ties and
  both orders occur. `MaxChanges`, `MaxRequests`, `MaxProbes` and `MaxInFlight`
  are the only caps, each in the guard of an action.
* health_checker: two nodes, and a third at the endpoint of the first that may be
  added or replace one; heights 0 and 2 with a lag of 1 allowed, so that a node is
  level or lags; a heartbeat on the first node, so that answers stored late meet
  those of the round; one removal on request. A list that loses a node moves the
  other to its place, and a replacement puts a new one there.
* byteslabs: two requests, two chunks of three slabs of three bytes, at most
  three buffers a request of 1 byte (two share a slab) or 4 (two slabs, the second
  with a tail that serves a size of 1). Both requests may meet in a chunk as owner and as
  guest, every chunk can be full, slabs are given back between others.
* connection: scripts of two requests, in memory of 5 bytes and slabs, with a
  header of 2 and reads of at most 3, so that a read ends inside a header, at its
  end, in a body, and in the next request; forms that are refused. Clients that
  negotiate twice before a long answer (three requests), that turn compression off,
  in the WAN, locally, at servers with both multi-part compressors; and, with snappy
  alone, that turn compression off and on again, or ask in the WAN. A local client meets
  a server with none. Histories of 3 rows, sleeps of 3 s that may be 1 s late.
  `MaxGarbled = 1`: what junk is taken for is served once, then no more is read.
* udp: headers of 2, messages of 2 and 3, datagrams of up to 3 bytes, two on the way,
  one lost or overtaken of each source; three slots as in the code, of 2 s in place
  of 5; seconds may be skipped; two cleaners at work.
* compressor: two callers, one with an input of five blocks, one with two and a short
  one; two threads and a fast one; a queue of 2, channels of 1 and 4 blocks at work
  in place of 500, 8 and 12. What matters of these is `LimitsAssumption`,
  `MaxInProgress > OutCap + 1`: a caller that waits for the queue can have blocks in
  its channel and a thread waiting for it besides. Blocks shrink well, hardly or fail, so
  that merges fit, do not fit and are given up. compressor_hangs has one
  thread, a queue of 1 and 3 blocks at work, the least for the circle.
* Deadlock is checked in every run but those of the compressor, where callers
  really may wait for ever.

### Fairness

`Routing!FairSpec` assumes `WF_vars(RequestStep)`: goroutines are scheduled, and
a call on the wire ends because the HTTP client has a timeout of 5 seconds
(`client.go`). Nothing is assumed of nodes, users or the administrator.
`HealthChecker!FairSpec` assumes `WF_vars(CheckerStep)`: the checker's goroutine
loops for ever, and its requests end by the same timeout. Heartbeats, blocks and
the administrator owe nothing.
`ByteSlabs!FairSpec` assumes `SF_vars(Continue(o))` for a request that has begun
to allocate or to release: weak fairness is not enough where others take the
mutex in turns, and Go's mutex is handed over in order once somebody waited for
1 ms. That a request ever releases is not assumed.
`Connection!FairSpec` assumes `WF_vars(Clock)`: time passes and sleepers wake.
Clients owe nothing. `UDPService!FairSpec` assumes weak fairness of the
receiving loop, of the goroutines that serve, of the ticker and of the cleaners; sources
and network owe nothing. `CompressorFairSpec` assumes `WF` of a caller's own
steps and `SF` of sends to a channel and of threads, since others can take the
room or the block one waits for: Go's channels serve waiters in order.
`Recovers` assumes nothing in the specification; its antecedent says that every
second of the cycle is noticed again and again, which a loop that wakes five times a
second meets unless it misses the same second in every turn.

### Disagreements with the documentation

* `redo`: `solanaRaw` and passthrough calls give up after an error while fit
  nodes are left (README.md:14).
* `pipelined`: a second request that was read together with the first stays in
  sharedmem, and the answer to the first is written over it
  (handler_socket.go:384, 405) before it is decoded.
* `memory`: `break` out of the loop in the middle of a request skips
  `params.Cleanup`, and slabs lent for it are never given back
  (handler_socket.go:258, 291, 312, 325; against the comment at 119).
* `compressor_hangs`: callers that wait for room in the full queue take nothing back,
  and threads that wait for room in such a caller's channel take nothing from the
  queue (engine.go:98, 118, 122): with 8 blocks in its channel a caller may have three
  threads waiting. When all threads wait so, every call waits for ever, and those
  that come later.

Seen while modelling, without a run of its own: a passthrough request walks a
list made once and reaches a node paused meanwhile
(public_passthrough_proxy.go:57, against doc/HEALTH_CHECK.md:10); the lowest
score wins whichever side it is on (scheduler_pick.go:33, against scheduler.go:47
and doc/ADVANCED.md:3); a first block that hardly shrinks is moved over the second
before that was moved (engine.go:144; `RoundTrip` holds when `Fits`, and is
refuted without it); limits over times that are cut into too few windows
(`SomeLimitsWrap`, against README.md:27); `_statsIsDead` leaves out
`stat_error_req`, so a node whose URL does not parse fails every request and is
never disabled (stats.go:66, against README.md:13: failed nodes are skipped);
"standard gzip compression" (handler_socket.go:420) is deflate without the header
and checksum of gzip (compress/simple.go:50-53), and answers that name mp-snappy
are mp-flate (handler_socket.go:440-444); with `COMPRESSION=mp-snappy`, one of the
values compression_ex.go:24 names, a client that negotiates snappy, in the WAN too
(against conn_ex.go:48), makes `sendBack` call a compressor that is nil, and the
program ends (handler_socket.go:440, 166, 202) - that one `CrashExplained` is about.

## 5. What is proved

For every value of the constants that meets the named assumptions.

Every safety property of a passing run but `OnlyTheCircleStops` is a theorem, and so
are the refinement and the action properties named here. No invariant is inductive
alone; what each proof adds is said below.

`SOLClientProofs` (from `ClientAssumption`, `RingAssumption`,
`CycleAssumption`, `MissedAssumption`): `TypeCorrect`, `RunningCounted`,
`SerialsNeverShared`, `FailuresCountedOnce`, `VerdictsRecent`. For the first
four, `IInv` joins them and adds that every serial number in use is at most
`serial_no`: without it a new call could be given a number in use. `RunningExact` carries
`stat_running \in Nat` of `TypeOK`: a call that ends is one of those counted, so
the counter is positive. Four lemmas (`CallBegins`, `CallEnds`, `CallAnswered`,
`CallChecked`) say how the sets of calls and their sizes change, one per way a
caller's state moves; each action is then one of them. `VerdictsRecent` adds
`RingInv`: each slot of the ring holds what happened as many seconds ago as it
lies behind the current one (`Remembers`; slot 0 excepted until the ring has
turned past the startup's requests), and a second that begins finds the loop
asleep and about to notice it (`OnTime`). The sums over slots and over ages are
then the same sum in another order. Its hypothesis `MaxMissed = 0` is the
proviso of the property itself: after a missed second a slot is never cleared
and keeps what is a minute older. The `client` run has the same bound.

`ThrottleProofs` (from `GroupAssumption`, `ThrottleAssumption` and those of
`SecondLoop`, whatever `MaxMissed` is): `RingsWellFormed`,
`DataLimitOverdrawnOnce`, `VerdictLagsOneWay`, `RequestsStayBelowLimits`.
`ThrottleInv` says of each throttle: a window of the ring counts at least what
was admitted in it (`ChargedIn`: a missed second leaves old counts in, which
only makes the throttle stricter); a throttle that is not throttled has room
for one more request under every limit but the one on data (`RoomIn`); a kept
verdict differs from a fresh one in one direction only (`MildIn`); and the
requests admitted are within the limit (`KeptIn`). Turning the ring moves every
window one age on and forgets the last; admitting adds one to the current
window and to the current age. That is all `KeptIn` needs, provided a limiter
looks at no more windows than its ring has (`LimitersFit`): a longer one counts
some windows twice and has forgotten others, and promises nothing. `LimitersFit` is a
hypothesis of the fourth theorem only, and the configuration decides it. With
the sizes of the code, `RealSizes`: the loop that looks for a size of windows
finds none (`NoSlices`); a limit looks back over its time, less than a window
short (`TimeCovered`); its windows are in its ring for times up to 120 s, times
in tens up to 1200 s, and all from 2880 s (`LimitsFit`), but not for 239 s
(`SomeLimitsWrap`). So a node whose configured limits are over fitting times,
without a throttle, or with one that cannot be read, keeps its limits
(`ConfiguredLimitsKept`).

`RoutingProofs` (from `NodesAssumption`, `NilAssumption`,
`RequestsAssumption`): `TypeCorrect`, `NeverTwice`, `SideKept`. `IInv` is made
of named parts. `ManagerInv`: the list has no duplicates. `ListInv`: nor has a
scheduler's copy. `TriedInv`: a node tried or found is crossed out of what is
left, and on the requested side. `OrderInv`: the same of the list of a
passthrough request. `PickInv`: the best node of a pick in progress is still in
the copy and on the side. `ForceInv`: `GetPublicClient` never lifts or overrides
a side the request asked for. `ControlInv`: which steps belong to which handler.
`NeverTwice` then follows because a new node comes from a list from which all
tried nodes are gone. `TypeCorrect` includes that a passthrough request makes at
most two failing calls, because `errors <= 1` until it fails.

Then `FailoverComplete`, `ThrottledRerouted`, `AwayAvoided`. `SearchInv` follows
what a search learns. `ScanInv`: while a pick has found nothing, every place
behind it is crossed out, was unfit at some time or is on the wrong side.
`LeftInv`: a node of the first list is still there, in hand, tried, or was
unfit. `SideInv` and `BlockInv`: nothing but what the request asks for, or the
pick of `GetPublicClient` for its own length, can make a place unsuitable. So a
pick over any side that ends empty-handed leaves only nodes that were tried or
unfit (`NothingFound`). `PassInv` is the same of the list of a passthrough
request, where sorting must lose no node: a rearrangement of a finite list that
uses no place twice uses all (`SortedKeepsAll`). `AwayInv`: whom a search holds
was fit at a look since the last answer.

`MemoryProofs`, about slabs (from `SlabAssumption`): `TypeCorrect`, `BuffersDisjoint`,
`BuffersHaveTheirSize`, `NoSlabLost`, and `ImplementsHeap`, the refinement with
its initial states and steps. `IInv` says where a buffer is: every cell of it
lies in a slab that an allocator of its owner holds, before the free end of that
slab (`Backed`), all in one chunk (`OneChunk`), and what does not exist holds
nothing (`NothingLent`). `NoOverlap` follows for a new buffer, because it is put
into slabs nobody holds or behind the free end, and stays true when slabs are
given back, because buffers in them go with them. `ControlInv` adds which
allocators there are while a request is in the middle of a search or a release.
The size of a buffer put into new slabs is counted by numbering its cells: the
slabs taken have room for what was asked and for the free end that is left.

`MemoryProofs`, about the compressor (from `CompressorAssumption`, the last also
from `RoomAssumption`): `ChannelsHaveRoom`, `NoPieceLeftBehind`,
`AnswerUncompresses`. The compressor writes into buffers the allocator lends, so
the two share a module; they share no name. `CountInv`: a caller waits for as many
blocks as are in queues, at threads and in its channel; four lemmas count the
blocks of a sequence or of the threads when one is put, taken, done or got.
Counting alone does not tell blocks apart, so `GatherInv` says of a call that is
not broken that each block handed over is still held somewhere, with a size it
may have, or its size is in the table. When none is at work the table is
complete (`AllBack`). Then data: `AllMoved` is by induction over the moves that the
blocks moved are at their final places and the others where they were
compressed to (`MovedTo`), since none that fits ends behind the start of the
next; `ReadAsLaidOut`, that a table, its 0 and the blocks behind it are read as
what was laid out. `Moved` is a recursive function, so its value is a choice
among the tables that satisfy its equation; `MovedExists` is that there is one.

`HealthCheckerProofs` (from `CheckerAssumption`, `ConfiguredAssumption`):
`TypeCorrect`, `NeverMissing`, `KeepersSpared`, `LaggardsPaused`. The verdict of
a round rests on what it gathered, so `IInv` says what that is. `HeightInv`:
nothing known of a node is ahead of its blocks. `WaitInv`: `wg` counts the
goroutines that run, each for a node that was made once. `ProgressInv`: which
slices belong to which part of a round. `InfoInv`: every info is what some node
of its endpoint knew in this round - some node, because places may have moved.
`CalmInv`: if the list stayed, it is the node at that place. `JudgeInv`: the
verdicts given so far spare and pause whom they should. A node is spared
because the highest block is not ahead of all endpoints (`VerdictFacts`), and
a verdict stays right while blocks are made, because `lo` only gets smaller
and heights larger (`RoundFrame`).

`ConnectionProofs` (from `StatsAssumption`, `ConnectionAssumption`):
`HistoryTellsWhatWasCounted`, `RequestsServedFromTheirBytes`,
`AnswersAreTheirOwn`, `NegotiationFollowsTheRule`, `OnlySnappyAloneCrashes`,
`StreamFitsItsMemory`. `HistoryTells`
is `HistoryExact` extended to the second that is not over: it will be a complete
one. `NothingLost`: what was cut off, what waits in the buffer and what is on its
way are together what the client sent, `Sent(n) \o (stream \o wire) =
Wire(script)`, until the shared memory is overwritten; a head that is complete
is then that of the next request and its length the right one, so cutting it off
keeps the equation. `ParamsOK` and `AnswersOK`: a prepared answer is about the
request in hand. `Following`: the request in hand is the client's, and the two
variables of a connection are what was negotiated before it while it waits to be
served, and with it afterwards (`Settled`); `NegotiateSettles` is the step between,
by cases on what is enabled, the distance and what the client knows. It needs that
turning compression off forgets snappy (`OffForgets`), since the code keeps the two in
one variable, and that a server without flate leaves snappy to a client in the WAN:
such a server never gets to answer (`Crash`), so the first property holds of the
answers, and the second names the only way there (`CrashNeedsSnappy`).
`SumsCover`, for the types: what was skipped or is about to be
was counted before, so the differences that are read as statistics are not
negative.

`UDPServiceProofs` (from `UDPAssumption`): `ClosedStayScheduled`,
`MessagesHandledAsSent`, `WellTyped`. `TableInv` adds that slots and batches are
about sources of the table. An entry is closed together with its insertion; a
slot moves as a whole into a batch; the callback takes out of a batch only what
is not closed any more. `StreamInv` is the equation of the connection once more,
over datagrams: messages handed on, bytes in the source's buffer, datagrams on
their way and bytes unsent are what the source sends (`AsSent`), as long as no
datagram was lost, doubled or overtaken; and outside the parser nothing complete
waits (`Waiting`). For `WellTyped`, `TaskInv`: an entry has no more messages pending than there
are goroutines between their request and their end, and goroutines of a source
have different numbers; `BatchInv`: a number is free while there are fewer batches than
numbers.

`DataProofs` has the facts about data the others rest on. The library's induction
theorems take an operator as a parameter, which the provers here cannot
instantiate. `NumberInduction`, `SubsetInduction` and their kin are stated for a
set instead, the set `G` of what has the property, and are proved from the
library's theorem that the order of the numbers is well-founded. From them
follow the existence of greatest elements; that a sum over a finite set is that over the
set without an element plus its value there, that a larger table has a larger sum and
that a sum is that over another set of the same values; and what `FlattenSeq` does
to a sequence with an element at either end. A recursive operator of
the library is tied to a table by the definition it has there.

Only model-checked: liveness, since the prover does not handle fairness: `Recovers`,
`RequestEnds`, `AllocationEnds`, `Resumes`, `RoundEnds`, `EntryRemoved`,
`StatsCleaned`; and `OnlyTheCircleStops`, which speaks of what is enabled.
Symmetry is used in the `client` run only, over users, and that run checks no
liveness.

## 6. What is not modelled

* `handle_kvstore`: a map of expiring values under one mutex; it serves no part
  of the node logic.
* In `Connection`: requests shorter than their header or longer than 16 MiB, negative
  thresholds, handlers that panic, the loop that accepts.
* In `SOLClient`: headers of a node's own. With one, a URL that does not parse
  panics (request_basic.go:142) instead of counting `error_req`, as `BadRequest`
  does.
* In `UDPService`: empty datagrams, messages shorter than their header, X-Forward (no
  handler of this program forwards).
* In `Compressor`: the pool of writers of `compress/simple.go`, popped and pushed
  under a mutex; inputs too short for their own table (`RoomAssumption`).
* `byteslabs2`: `byteslabs` with its constants made parameters; nothing imports it.
* `handle_solana_info`, `status.go`: they read and report.
* `hs_http.go`, `hs_engine.go`, `config`, `hscommon`, `main`, the PHP page:
  parsing, formatting and wiring without state of their own.
* Plugins: none is started since support of GenesysGo was removed
  (README.md:17).
* `compress/snappy`: third-party.
* In what is modelled: text of answers, byte and time totals, negative scores
  (the sentinel -1 of `scheduler_pick.go:33` is modelled in `Lowest`, but the instance
  has no score below 0). Two models meet by a free choice instead of sharing
  state: pausing is exact in `HealthChecker` and any change of `info` in
  `Manager`; the versions and the first block a node tells are part of `info`.
