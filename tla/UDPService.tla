----------------------------- MODULE UDPService -----------------------------
(***************************************************************************)
(* The UDP service of handler_socket2 (hs_udp.go, hs_udp_v1.go). One       *)
(* goroutine receives datagrams, appends each to what its source sent      *)
(* before, and cuts complete messages off; every message is served by a    *)
(* goroutine of its own and nothing is sent back. A table tells, by source *)
(* address, how its messages are doing; entries are removed by cleaners,   *)
(* which keep the sources to look at in a few slots and take one at a time.*)
(*                                                                         *)
(* A byte is a cell <<i, k>>: byte k of message i of its source. Datagrams *)
(* may be lost or overtake each other; then what a buffer holds is not     *)
(* what was sent, and the program may make anything of it. A source speaks *)
(* one version of the protocol, its datagrams are not empty and its        *)
(* messages not shorter than their header. No handler of the program       *)
(* forwards a request (X-Forward).                                         *)
(***************************************************************************)
EXTENDS Integers, Sequences, SequencesExt, FiniteSets

CONSTANTS
  Sources,       \* addresses
  Cases,         \* what sources send: [Sources -> [version, messages]],
                 \* messages a sequence of [size, ok]
  HeadSize,      \* bytes that tell the length of a message
  MaxDatagram,   \* length of a datagram
  Slots,         \* numCleaners (3)
  SlotSeconds,   \* second_per_piece (5)
  MaxFlying,     \* bound: datagrams of a source on the way
  MaxFaults,     \* bound: datagrams lost or overtaken, of each source
  MaxGarbled,    \* bound: messages of a source made of what it did not send
  MaxBatches,    \* bound: cleaners' goroutines at work
  None

ASSUME UDPAssumption ==
  /\ \A c \in Cases :
       /\ c \in [Sources -> [version : {1, 2}, messages : Seq([size : Nat, ok : BOOLEAN])]]
       /\ \A s \in Sources : \A i \in 1 .. Len(c[s].messages) :
            c[s].messages[i].size >= HeadSize
  /\ {HeadSize, MaxDatagram, MaxBatches} \subseteq Nat \ {0}
  /\ {MaxFlying, MaxFaults, MaxGarbled} \subseteq Nat
  /\ Slots \in Nat /\ Slots > 2
  /\ SlotSeconds \in Nat /\ SlotSeconds > 1
  /\ None \notin Sources

VARIABLES
  sending,        \* what sources send: a member of Cases
  unsent,         \* cells of each source not sent yet
  net,            \* datagrams on the way, by source
  source_buffer,  \* bytes of a source that make no message yet
  parsing,        \* the source whose buffer is being cut, or None
  tasks,          \* goroutines that serve: [source, num, ok, stage]
  udpStats,       \* by source: [status, pending], or None
  second,         \* time, modulo a turn of all slots
  ids,            \* stat_cleaners: the sources in each slot
  batches,        \* cleaners' goroutines: [num, stage, sources]
  handled,        \* ghost: the messages of a source that were cut off
  faults,         \* ghost: datagrams of a source lost or overtaken, flushes
  garbled         \* ghost: messages served that were not sent like that

wireVars == <<sending, unsent, net, faults>>
taskVars == <<source_buffer, parsing, tasks, handled, garbled>>
cleanVars == <<second, ids, batches>>
vars == <<wireVars, taskVars, udpStats, cleanVars>>

Version(s) == sending[s].version
Script(s) == sending[s].messages

item_pos == second \div SlotSeconds
Bytes(s, i) == [k \in 1 .. Script(s)[i].size |-> <<i, k>>]
Wire(s) == FlattenSeq([i \in 1 .. Len(Script(s)) |-> Bytes(s, i)])

Init ==
  /\ sending \in Cases
  /\ unsent = [s \in Sources |-> Wire(s)]
  /\ net = [s \in Sources |-> <<>>]
  /\ source_buffer = [s \in Sources |-> <<>>]
  /\ parsing = None
  /\ tasks = {}
  /\ udpStats = [s \in Sources |-> None]
  /\ second = 0
  /\ ids = [i \in 0 .. Slots - 1 |-> {}]
  /\ batches = {}
  /\ handled = [s \in Sources |-> <<>>]
  /\ faults = [s \in Sources |-> 0]
  /\ garbled = [s \in Sources |-> 0]

-----------------------------------------------------------------------------
(* Sources and network                                                     *)

Send(s) ==
  /\ Len(net[s]) < MaxFlying /\ unsent[s] # <<>>
  /\ \E n \in 1 .. MaxDatagram :
       /\ n <= Len(unsent[s])
       /\ net' = [net EXCEPT ![s] = Append(@, SubSeq(unsent[s], 1, n))]
       /\ unsent' = [unsent EXCEPT ![s] = SubSeq(@, n + 1, Len(@))]
  /\ UNCHANGED <<sending, faults, taskVars, udpStats, cleanVars>>

Lose(s) ==
  /\ faults[s] < MaxFaults
  /\ \E i \in 1 .. Len(net[s]) : net' = [net EXCEPT ![s] = RemoveAt(@, i)]
  /\ faults' = [faults EXCEPT ![s] = @ + 1]
  /\ UNCHANGED <<sending, unsent, taskVars, udpStats, cleanVars>>

-----------------------------------------------------------------------------
(* The table of sources                                                    *)

(* udpStatBeginRequest: whatever was known of the source is forgotten.     *)
Begun(stats, s) == [stats EXCEPT ![s] = [status |-> "O", pending |-> 0]]

(* udpStatRequest                                                          *)
Requested(stats, s) ==
  IF stats[s] = None THEN stats
  ELSE [stats EXCEPT ![s] = [status |-> "P", pending |-> @.pending + 1]]

(* cleaners_insert: the slot was looked up before it is locked.            *)
Insert(sources) ==
  \E late \in {0, 1} :
    ids' = [ids EXCEPT ![(item_pos - late) % Slots] = @ \cup sources]

(* A bug the properties must notice: the cleaners are told only when all   *)
(* went well.                                                              *)
FinishedIfOk(stats, s, ok) ==
  IF stats[s] = None THEN udpStats' = stats /\ UNCHANGED ids
  ELSE LET left == stats[s].pending - 1
           over == ~ok \/ left <= 0
       IN /\ udpStats' = [stats EXCEPT ![s] =
               [status |-> IF ~over THEN @.status ELSE IF ok THEN "F" ELSE "X",
                pending |-> left]]
          /\ IF over /\ ok THEN Insert({s}) ELSE UNCHANGED ids

(* A bug the properties must notice: the pending messages are not counted  *)
(* down.                                                                   *)
FinishedUncounted(stats, s, ok) ==
  IF stats[s] = None THEN udpStats' = stats /\ UNCHANGED ids
  ELSE /\ udpStats' = [stats EXCEPT ![s].status = IF ok THEN "F" ELSE "X"]
       /\ Insert({s})

(* udpStatFinishRequest: the last one at work, or a failure, closes the    *)
(* entry and leaves it to the cleaners.                                    *)
Finished(stats, s, ok) ==
  IF stats[s] = None THEN udpStats' = stats /\ UNCHANGED ids
  ELSE LET left == stats[s].pending - 1
           over == ~ok \/ left <= 0
       IN /\ udpStats' = [stats EXCEPT ![s] =
               [status |-> IF ~over THEN @.status ELSE IF ok THEN "F" ELSE "X",
                pending |-> left]]
          /\ IF over THEN Insert({s}) ELSE UNCHANGED ids

-----------------------------------------------------------------------------
(* Receiving                                                               *)

(* A datagram arrives, the oldest or one that overtook it.                 *)
Receive(s) ==
  /\ parsing = None
  /\ garbled[s] < MaxGarbled
  /\ \E i \in 1 .. Len(net[s]) :
       /\ i > 1 => faults[s] < MaxFaults
       /\ faults' = [faults EXCEPT ![s] = IF i > 1 THEN @ + 1 ELSE @]
       /\ source_buffer' = [source_buffer EXCEPT ![s] = @ \o net[s][i]]
       /\ net' = [net EXCEPT ![s] = RemoveAt(@, i)]
  /\ parsing' = s
  /\ UNCHANGED <<sending, unsent, tasks, handled, garbled, udpStats, cleanVars>>

(* What the start of a buffer tells: a message, [size, ok]. If it is not   *)
(* the header of a message that was sent, it may tell anything. Bound: of  *)
(* the lengths the source uses.                                            *)
Headers(s) ==
  LET b == source_buffer[s]
      i == b[1][1]
  IN IF \A k \in 1 .. HeadSize : b[k] = <<i, k>>
     THEN {Script(s)[i]}
     ELSE {[Script(s)[j] EXCEPT !.ok = o] : j \in 1 .. Len(Script(s)), o \in BOOLEAN}

(* The message that is complete and may be cut off, if any.                *)
Complete(s) ==
  IF Len(source_buffer[s]) < HeadSize THEN {}
  ELSE {m \in Headers(s) : m.size <= Len(source_buffer[s])}

(* What a message is: a message that was sent, or 0.                       *)
Origin(s, cells) ==
  IF \E i \in 1 .. Len(Script(s)) : cells = Bytes(s, i) THEN cells[1][1] ELSE 0

(* A bug the properties must notice: one message a datagram.               *)
OneMessage(s) == parsing' = None

(* The loop goes on while there are bytes.                                 *)
GoOn(s) == parsing' = IF source_buffer'[s] = <<>> THEN None ELSE s

(* A complete message is handed to a goroutine. Version 2 begins an entry  *)
(* in the table; a header of version 1 that tells no length drops all that *)
(* the source sent.                                                        *)
CutMessage ==
  /\ parsing # None
  /\ LET s == parsing
         b == source_buffer[s]
     IN \E m \in Complete(s) :
          /\ m.ok \/ Version(s) = 2
          /\ LET origin == Origin(s, SubSeq(b, 1, m.size))
             IN /\ handled' = [handled EXCEPT ![s] = Append(@, origin)]
                /\ garbled' = [garbled EXCEPT ![s] = IF origin = 0 THEN @ + 1 ELSE @]
          /\ tasks' = tasks \cup {[source |-> s, num |-> Len(handled[s]) + 1,
                                   ok |-> m.ok, stage |-> "begun"]}
          /\ source_buffer' = [source_buffer EXCEPT ![s] = SubSeq(b, m.size + 1, Len(b))]
          /\ udpStats' = IF Version(s) = 2 THEN Begun(udpStats, s) ELSE udpStats
          /\ GoOn(s)
  /\ UNCHANGED <<wireVars, cleanVars>>

Flush ==
  /\ parsing # None
  /\ LET s == parsing
     IN /\ Version(s) = 1 /\ Len(source_buffer[s]) >= HeadSize
        /\ \E m \in Headers(s) : ~m.ok
        /\ source_buffer' = [source_buffer EXCEPT ![s] = <<>>]
        /\ faults' = [faults EXCEPT ![s] = MaxFaults + 1]
        /\ Finished(udpStats, s, FALSE)
  /\ parsing' = None
  /\ UNCHANGED <<sending, unsent, net, tasks, handled, garbled, second, batches>>

(* More bytes are needed.                                                  *)
Wait ==
  /\ parsing # None
  /\ LET s == parsing
         short == Len(source_buffer[s]) < HeadSize
     IN \/ short
        \/ ~short /\ \E m \in Headers(s) :
             m.size > Len(source_buffer[s]) /\ (m.ok \/ Version(s) = 2)
  /\ parsing' = None
  /\ UNCHANGED <<wireVars, source_buffer, tasks, handled, garbled, udpStats, cleanVars>>

-----------------------------------------------------------------------------
(* Serving                                                                 *)

(* runRequest decodes whatever it is given; runRequestV2 does not note as  *)
(* a request what cannot be decoded. Then the handler is called.           *)
RunRequest(t) == Requested(udpStats, t.source)
RunRequestV2(t) == IF t.ok THEN Requested(udpStats, t.source) ELSE udpStats

Serve(t) ==
  /\ t.stage = "begun"
  /\ tasks' = (tasks \ {t}) \cup {[t EXCEPT !.stage = "served"]}
  /\ udpStats' = IF Version(t.source) = 2 THEN RunRequestV2(t) ELSE RunRequest(t)
  /\ UNCHANGED <<wireVars, source_buffer, parsing, handled, garbled, cleanVars>>

FinishTask(t) ==
  /\ t.stage = "served"
  /\ tasks' = tasks \ {t}
  /\ Finished(udpStats, t.source, t.ok)
  /\ UNCHANGED <<wireVars, source_buffer, parsing, handled, garbled, second, batches>>

-----------------------------------------------------------------------------
(* Cleaning                                                                *)

(* cleaners_get: the slot behind the current one is emptied.               *)
CleanersGet(pos) ==
  LET taken == (pos + 1) % Slots
      free == CHOOSE n \in 1 .. MaxBatches : \A b \in batches : b.num # n
  IN /\ batches' = IF ids[taken] = {} THEN batches
                   ELSE batches \cup {[num |-> free, stage |-> "taken",
                                       sources |-> ids[taken]]}
     /\ ids' = [ids EXCEPT ![taken] = {}]

(* A new second, or the one after if the ticker was late: a slot is taken  *)
(* for a goroutine to look at.                                             *)
Turn ==
  /\ Cardinality(batches) < MaxBatches
  /\ \E d \in {1, 2} : second' = (second + d) % (Slots * SlotSeconds)
  /\ CleanersGet(second' \div SlotSeconds)
  /\ UNCHANGED <<wireVars, taskVars, udpStats>>

Closed(s) == udpStats[s] # None /\ udpStats[s].status \in {"F", "X"}

(* A bug the properties must notice: what failed is not removed.           *)
CleanFinished(b) ==
  /\ b.stage = "taken"
  /\ LET over == {s \in b.sources : Closed(s) /\ udpStats[s].status = "F"}
         back == {s \in b.sources : udpStats[s] # None} \ over
     IN /\ udpStats' = [s \in Sources |-> IF s \in over THEN None ELSE udpStats[s]]
        /\ batches' = (batches \ {b}) \cup
             {[b EXCEPT !.stage = "looked", !.sources = back]}
  /\ UNCHANGED <<wireVars, taskVars, second, ids>>

(* The callback: closed entries are removed, others looked at again later. *)
Clean(b) ==
  /\ b.stage = "taken"
  /\ LET over == {s \in b.sources : Closed(s)}
         back == {s \in b.sources : udpStats[s] # None} \ over
     IN /\ udpStats' = [s \in Sources |-> IF s \in over THEN None ELSE udpStats[s]]
        /\ batches' = (batches \ {b}) \cup
             {[b EXCEPT !.stage = "looked", !.sources = back]}
  /\ UNCHANGED <<wireVars, taskVars, second, ids>>

PutBack(b) ==
  /\ b.stage = "looked"
  /\ Insert(b.sources)
  /\ batches' = batches \ {b}
  /\ UNCHANGED <<wireVars, taskVars, udpStats, second>>

-----------------------------------------------------------------------------
Receiver == CutMessage \/ Flush \/ Wait
Server == \E t \in tasks : Serve(t) \/ FinishTask(t)
Cleaner == \E b \in batches : Clean(b) \/ PutBack(b)

Next ==
  \/ \E s \in Sources : Send(s) \/ Lose(s) \/ Receive(s)
  \/ Receiver \/ Server \/ Turn \/ Cleaner

Spec == Init /\ [][Next]_vars

(* Goroutines are scheduled, handlers return, time passes. Sources and     *)
(* network owe nothing.                                                    *)
FairSpec ==
  Spec /\ WF_vars(Receiver) /\ WF_vars(Server) /\ WF_vars(Turn) /\ WF_vars(Cleaner)

-----------------------------------------------------------------------------
(* Properties                                                              *)

Cells == (Nat \ {0}) \X (Nat \ {0})
Status == [status : {"O", "P", "F", "X"}, pending : Int]

(* Buffers, slots and the table are about known sources; no more messages  *)
(* are pending than are being served (hs_udp.go:13-25, 57-88, 316-325).    *)
TypeOK ==
  /\ sending \in Cases
  /\ unsent \in [Sources -> Seq(Cells)]
  /\ net \in [Sources -> Seq(Seq(Cells))]
  /\ source_buffer \in [Sources -> Seq(Cells)]
  /\ parsing \in Sources \cup {None}
  /\ tasks \subseteq [source : Sources, num : Nat, ok : BOOLEAN,
                      stage : {"begun", "served"}]
  /\ udpStats \in [Sources -> Status \cup {None}]
  /\ \A s \in Sources : udpStats[s] # None =>
       udpStats[s].pending <= Cardinality({t \in tasks : t.source = s})
  /\ second \in 0 .. Slots * SlotSeconds - 1
  /\ ids \in [0 .. Slots - 1 -> SUBSET Sources]
  /\ batches \subseteq [num : 1 .. MaxBatches, stage : {"taken", "looked"},
                        sources : SUBSET Sources]
  /\ handled \in [Sources -> Seq(Nat)]
  /\ faults \in [Sources -> Nat] /\ garbled \in [Sources -> Nat]

(* However a source's messages are cut into datagrams, what is handed on   *)
(* is message after message as it was sent, the rest waits, and nothing    *)
(* complete waits (hs_udp.go:169-217) - as long as no datagram of it was   *)
(* lost or overtaken and nothing of it was flushed.                        *)
HandledAsSent ==
  \A s \in Sources : faults[s] = 0 =>
    LET n == Len(handled[s])
        cut == FlattenSeq([i \in 1 .. n |-> Bytes(s, i)])
    IN /\ \A i \in 1 .. n : handled[s][i] = i
       /\ cut \o source_buffer[s] \o FlattenSeq(net[s]) \o unsent[s] = Wire(s)
       /\ parsing # s /\ Len(source_buffer[s]) >= HeadSize =>
            Len(source_buffer[s]) < Script(s)[n + 1].size

(* A closed entry is in a slot or in the hands of a cleaner, whatever      *)
(* messages of its source begin, end and fail around it (hs_udp.go:68-88,  *)
(* 30-48, 355-361): none is forgotten.                                     *)
FinishedScheduled ==
  \A s \in Sources : Closed(s) =>
    \/ \E i \in DOMAIN ids : s \in ids[i]
    \/ \E b \in batches : s \in b.sources

(* No source stays in the table for ever (hs_udp.go:30-48, 322-365).       *)
StatsCleaned == \A s \in Sources : udpStats[s] # None ~> udpStats[s] = None
=============================================================================
