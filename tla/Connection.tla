----------------------------- MODULE Connection -----------------------------
(***************************************************************************)
(* A TCP connection of handler_socket2 (handler_socket.go, conn_ex.go): it *)
(* cuts what it reads into requests, serves them one after another, and    *)
(* answers each, compressed as negotiated.                                 *)
(*                                                                         *)
(* A byte is a cell <<i, k>>: byte k of the client's request i. What was   *)
(* read and is not served yet is data_stream, a slice: of 32 KiB of memory *)
(* the connection has for its whole life (sharedmem), of a slab lent until *)
(* the end of the request, or of memory of its own. Answers are put        *)
(* together at the start of sharedmem. What they are written over becomes  *)
(* Junk, of which the program may make anything.                           *)
(*                                                                         *)
(* Clients follow the protocol: a request is at least as long as its       *)
(* header and at most 16 MiB. A client may be silent for ever, go away, or *)
(* fail at any time. Connections share nothing but slabs, compressors and  *)
(* statistics, so one is modelled.                                         *)
(***************************************************************************)
EXTENDS ConnStats, Sequences, SequencesExt, FiniteSets

CONSTANTS
  Cases,       \* clients: [script, distance, enabled], see IsCase
  HeadSize,    \* bytes that tell a request's kind and length (5)
  ReadSize,    \* the read buffer (16 KiB)
  SharedSize,  \* sharedmem (32 KiB)
  AnswerHead,  \* length of an answer's header
  Slack,       \* bytes that stay free behind a short answer (10)
  Threshold,   \* configured compression threshold
  MaxGarbled,  \* bound: requests served from bytes that are not the client's
  None

(* form: is it a request ("ok"), has it another first byte ("kind"), or    *)
(* can it not be decoded ("params")? resp: length of the answer. fast: is  *)
(* the answer given as fastreturn? skip: __skipsendback. A conn-ex request *)
(* tells if the client knows snappy, and the threshold it wants.           *)
ProtocolRequests ==
  [size : Nat, form : {"ok", "kind", "params"}, resp : Nat, fast : BOOLEAN,
   skip : BOOLEAN, conn_ex : BOOLEAN, snappy : BOOLEAN, threshold : Nat]

(* A client sends a number of requests from a distance (0 local, 1 LAN,    *)
(* 2 WAN) to a server that enables some compressors.                       *)
IsCase(c) ==
  /\ c \in [script : Seq(ProtocolRequests), distance : 0 .. 2,
            enabled : SUBSET {"flate", "snappy"}]
  /\ \A i \in 1 .. Len(c.script) : c.script[i].size >= HeadSize

ASSUME ConnectionAssumption ==
  /\ \A c \in Cases : IsCase(c)
  /\ {HeadSize, ReadSize, SharedSize} \subseteq Nat \ {0}
  /\ {AnswerHead, Slack, Threshold, MaxGarbled} \subseteq Nat /\ AnswerHead < SharedSize
  /\ None \notin {"flate", "snappy"}

VARIABLES
  script,     \* the client's requests
  wire,       \* cells sent and not read yet
  pc,         \* "new", "read", "body", "serve", "send", "failing", "closing",
              \* "closed", "crashed" (the program has ended)
  stream,     \* data_stream
  place,      \* where it lies: "shared", "slab" or "own" memory
  base,       \* its first byte in sharedmem
  size,       \* message_len
  reading,    \* t_start # 0
  message,    \* the request being served
  held,       \* params has an allocator, which holds slabs
  fastreturn, \* params.fastreturn: the request it answers, or None
  enabled,    \* the compressors there are
  distance,   \* conn_ex.remote_distance
  comp,       \* conn_ex.comp: "flate", "snappy" or None
  threshold,  \* conn_ex.compression_threshold
  handled,    \* ghost: requests served or refused, [req, served]
  answers,    \* ghost: [of, content, said]
  overwritten \* ghost: an answer was written over bytes not served yet

streamVars == <<wire, stream, place, base, size, reading>>
paramVars == <<message, held, fastreturn>>
connVars == <<enabled, distance, comp, threshold>>
ghosts == <<handled, answers, overwritten>>
vars == <<script, pc, streamVars, paramVars, connVars, ghosts, statsVars>>

Junk == <<0, 0>>
(* What bytes that are not the client's may be taken for. Bound: requests  *)
(* like those the client sends, of any form.                               *)
Requests == {[script[i] EXCEPT !.form = f] :
               i \in 1 .. Len(script), f \in {"ok", "kind", "params"}}
Bytes(i) == [k \in 1 .. script[i].size |-> <<i, k>>]
Wire(s) == FlattenSeq([i \in 1 .. Len(s) |-> [k \in 1 .. s[i].size |-> <<i, k>>]])

-----------------------------------------------------------------------------
(* The connection begins                                                   *)

Init ==
  /\ \E c \in Cases :
       script = c.script /\ distance = c.distance /\ enabled = c.enabled
  /\ wire = Wire(script)
  /\ pc = "new"
  /\ stream = <<>> /\ place = "own" /\ base = 0
  /\ size = 0 /\ reading = FALSE
  /\ message = None
  /\ held = FALSE /\ fastreturn = None
  /\ comp = None /\ threshold = 0
  /\ handled = <<>> /\ answers = <<>> /\ overwritten = FALSE
  /\ StatsInit

(* make_conn_ex: nothing is compressed for a local client.                 *)
MakeConnEx ==
  /\ threshold' = IF distance > 0 THEN Threshold ELSE 0
  /\ comp' = IF distance > 0 /\ "flate" \in enabled /\ Threshold # 0
             THEN "flate" ELSE None

(* serveSocket up to its loop.                                             *)
Accept ==
  /\ pc = "new"
  /\ pc' = "read"
  /\ MakeConnEx
  /\ MakeConnection
  /\ UNCHANGED <<script, streamVars, paramVars, enabled, distance, ghosts>>

-----------------------------------------------------------------------------
(* Reading                                                                 *)

(* A bug the properties must notice: there is always room.                 *)
AppendInPlace(s, cells, where, capacity) ==
  /\ stream' = s \o cells
  /\ place' = where

(* append(data_stream, cells...): what outgrows its memory moves.          *)
AppendCells(s, cells, where, capacity) ==
  /\ stream' = s \o cells
  /\ place' = IF Len(s \o cells) > capacity THEN "own" ELSE where

Capacity == CASE place = "shared" -> SharedSize - base
              [] place = "slab" -> size
              [] OTHER -> Len(wire) + Len(stream)

(* What the header of a request tells: its kind, and its length. A header  *)
(* that is Junk, or not the client's, tells anything.                      *)
Headers(s) ==
  LET i == s[1][1]
  IN IF \A k \in 1 .. HeadSize : s[k] = <<i, k>> /\ s[k] # Junk
     THEN {script[i]} ELSE Requests

(* A bug the properties must notice: the rest of the last request is       *)
(* forgotten when the next one gets its memory.                            *)
PlaceWithoutRest(cells, r) ==
  /\ AppendCells(<<>>, cells, "shared", SharedSize)
  /\ base' = 0 /\ UNCHANGED held

(* A request that fits is put together in sharedmem, another in a slab of  *)
(* its size.                                                               *)
Place(cells, r) ==
  IF r.size < SharedSize
  THEN /\ AppendCells(stream, cells, "shared", SharedSize)
       /\ base' = 0 /\ UNCHANGED held
  ELSE /\ AppendCells(stream, cells, "slab", r.size)
       /\ base' = 0 /\ held' = TRUE

(* The next turn of the loop with what conn.Read gave it, if it was asked. *)
(* getStreamBuffer makes nothing of less than a header.                    *)
Framed(cells) ==
  LET all == stream \o cells
  IN IF Len(all) < HeadSize
     THEN /\ AppendCells(stream, cells, place, Capacity)
          /\ UNCHANGED <<pc, base, size, held, handled>>
     ELSE \E r \in Headers(all) :
            IF r.form = "kind"
            THEN /\ pc' = "failing"
                 /\ handled' = Append(handled, [req |-> all[1][1], served |-> FALSE])
                 /\ UNCHANGED <<stream, place, base, size, held>>
            ELSE /\ pc' = "body"
                 /\ size' = r.size
                 /\ Place(cells, r)
                 /\ UNCHANGED handled

(* The first thing of a request that arrives.                              *)
NoteReading ==
  /\ reading' = TRUE
  /\ IF reading THEN UNCHANGED statsVars ELSE StateReading

Chunks == 1 .. IF Len(wire) < ReadSize THEN Len(wire) ELSE ReadSize

Garbled == {i \in 1 .. Len(handled) : handled[i].req # i}

(* Less than a header is left: read, as much as there is.                  *)
ReadHeader ==
  /\ pc = "read" /\ Len(stream) < HeadSize
  /\ Cardinality(Garbled) < MaxGarbled
  /\ \E n \in Chunks :
       /\ Framed(SubSeq(wire, 1, n))
       /\ wire' = SubSeq(wire, n + 1, Len(wire))
  /\ NoteReading
  /\ UNCHANGED <<script, message, fastreturn, connVars, answers, overwritten>>

(* The next request, or its header, was read with the last one.            *)
HeaderThere ==
  /\ pc = "read" /\ Len(stream) >= HeadSize
  /\ Cardinality(Garbled) < MaxGarbled
  /\ Framed(<<>>)
  /\ NoteReading
  /\ UNCHANGED <<script, wire, message, fastreturn, connVars, answers, overwritten>>

ReadBody ==
  /\ pc = "body" /\ Len(stream) < size
  /\ \E n \in Chunks :
       /\ AppendCells(stream, SubSeq(wire, 1, n), place, Capacity)
       /\ wire' = SubSeq(wire, n + 1, Len(wire))
  /\ UNCHANGED <<script, pc, base, size, reading, paramVars, connVars, ghosts,
                 statsVars>>

(* The client went away, or the connection failed.                         *)
ReadFails ==
  /\ \/ pc = "read" /\ Len(stream) < HeadSize
     \/ pc = "body" /\ Len(stream) < size
  /\ pc' \in {"closing", "failing"}
  /\ UNCHANGED <<script, streamVars, paramVars, connVars, ghosts, statsVars>>

-----------------------------------------------------------------------------
(* Serving                                                                 *)

(* What a request is taken for.                                            *)
Meanings(m) ==
  IF \E i \in 1 .. Len(script) : m = Bytes(i)
  THEN {script[m[1][1]]} ELSE Requests

Origin(m) ==
  IF \E i \in 1 .. Len(script) : m = Bytes(i) THEN m[1][1] ELSE 0

(* message = data_stream[5:message_len]; data_stream =                     *)
(* data_stream[message_len:]. What is left stays where it is.              *)
Cut(m) ==
  /\ stream' = SubSeq(stream, size + 1, Len(stream))
  /\ base' = IF place = "shared" /\ Len(stream) > size THEN base + size ELSE 0
  /\ place' = IF Len(stream) > size THEN place ELSE "own"

(* The request is complete: it is cut off and decoded.                     *)
Decode ==
  /\ pc = "body" /\ Len(stream) >= size
  /\ LET m == SubSeq(stream, 1, size)
     IN /\ Cut(m)
        /\ \E r \in Meanings(m) :
             /\ handled' = Append(handled,
                  [req |-> Origin(m), served |-> r.form = "ok"])
             /\ IF r.form = "ok"
                THEN pc' = "serve" /\ message' = r /\ StateServing
                ELSE pc' = "failing" /\ UNCHANGED <<message, statsVars>>
  /\ UNCHANGED <<script, wire, size, reading, held, fastreturn, connVars, answers,
                 overwritten>>

(* A bug the properties must notice: flate is not put back for a WAN.      *)
NegotiateAnySnappy(r) ==
  IF distance = 0 THEN UNCHANGED <<comp, threshold>>
  ELSE LET wanted == IF r.snappy /\ "snappy" \in enabled THEN "snappy" ELSE comp
           usable == IF wanted = None /\ "flate" \in enabled THEN "flate" ELSE wanted
       IN /\ threshold' = r.threshold
          /\ comp' = IF r.threshold = 0 THEN None ELSE usable

(* A bug the properties must notice: who turns compression off keeps the   *)
(* compressor.                                                             *)
NegotiateKeepingComp(r) ==
  IF distance = 0 THEN UNCHANGED <<comp, threshold>>
  ELSE LET wanted == IF r.snappy /\ "snappy" \in enabled THEN "snappy" ELSE comp
           usable == IF (wanted = None \/ distance > 1) /\ "flate" \in enabled
                     THEN "flate" ELSE wanted
       IN threshold' = r.threshold /\ comp' = usable

(* handle_conn_ex                                                          *)
Negotiate(r) ==
  IF distance = 0 THEN UNCHANGED <<comp, threshold>>
  ELSE LET wanted == IF r.snappy /\ "snappy" \in enabled THEN "snappy" ELSE comp
           usable == IF (wanted = None \/ distance > 1) /\ "flate" \in enabled
                     THEN "flate" ELSE wanted
       IN /\ threshold' = r.threshold
          /\ comp' = IF r.threshold = 0 THEN None ELSE usable

(* The handler runs and its answer is chosen: an answer longer than the    *)
(* read buffer is copied into a slab.                                      *)
Serve ==
  /\ pc = "serve"
  /\ pc' = "send"
  /\ LET r == message
         n == Len(handled)
     IN IF r.conn_ex
        THEN Negotiate(r) /\ StateWriting(0) /\ UNCHANGED <<held, fastreturn>>
        ELSE /\ LET copied == ~r.fast /\ fastreturn = None /\ r.resp > ReadSize
                IN /\ fastreturn' = IF r.fast \/ copied THEN n ELSE fastreturn
                   /\ held' = (held \/ copied)
             /\ StateWriting(r.resp)
             /\ UNCHANGED <<comp, threshold>>
  /\ UNCHANGED <<script, streamVars, message, enabled, distance, ghosts>>

-----------------------------------------------------------------------------
(* Answering                                                               *)

(* The first n bytes of sharedmem are written.                             *)
WriteShared(n) ==
  LET hit == {k \in 1 .. Len(stream) : place = "shared" /\ base + k <= n}
  IN /\ stream' = [k \in 1 .. Len(stream) |-> IF k \in hit THEN Junk ELSE stream[k]]
     /\ overwritten' = (overwritten \/ hit # {})

(* Header and data go together if there is room.                           *)
Together(n) == AnswerHead + IF AnswerHead + n + Slack < SharedSize THEN n ELSE 0

Compresses(len) == threshold > 0 /\ len > threshold

(* The multi-part compressor sendBack uses is always the one for flate.    *)
HasCompressor == comp = None \/ "flate" \in enabled

(* The ways sendBack can go: the encoding the header names, what is sent   *)
(* and what is written. The bytes have another one: what it calls gzip is  *)
(* bare deflate, and what it names after the negotiated compressor is      *)
(* always multi-part flate.                                                *)
Deliveries(len) ==
  LET plain == [said |-> "plain", sent |-> len, written |-> Together(len)]
  IN IF ~Compresses(len) THEN {plain}
     ELSE IF comp = None
     THEN {[said |-> "gzip", sent |-> n, written |-> Together(n)] : n \in {1, len}}
     ELSE {plain, [said |-> comp, sent |-> 1, written |-> AnswerHead]}

AnswerLength == IF message.conn_ex THEN 0 ELSE message.resp

(* A bug the properties must notice: Cleanup keeps the last answer.        *)
CleanupKeepingAnswer == held' = FALSE /\ UNCHANGED fastreturn

(* params.Cleanup: slabs are given back.                                   *)
Cleanup == held' = FALSE /\ fastreturn' = None

(* sendBack, StateKeepalive and Cleanup, the end of a turn of the loop. An *)
(* answer is made of fastreturn if there is one.                           *)
Answer ==
  /\ pc = "send"
  /\ pc' = "read"
  /\ LET len == AnswerLength
         n == Len(handled)
         content == IF fastreturn = None THEN n ELSE fastreturn
     IN IF message.skip
        THEN /\ StateKeepalive(len, len, TRUE)
             /\ UNCHANGED <<stream, overwritten, answers>>
        ELSE \E d \in Deliveries(len) :
               /\ Compresses(len) => HasCompressor
               /\ WriteShared(d.written)
               /\ answers' = Append(answers, [of |-> n, content |-> content,
                                              said |-> d.said])
               /\ StateKeepalive(len, d.sent, FALSE)
  /\ Cleanup
  /\ message' = None
  /\ reading' = FALSE
  /\ UNCHANGED <<script, wire, place, base, size, connVars, handled>>

(* Compress is called on a compressor that was never made: the deferred    *)
(* function of serveSocket catches the panic and ends the program.         *)
Crash ==
  /\ pc = "send" /\ ~message.skip
  /\ Compresses(AnswerLength) /\ ~HasCompressor
  /\ pc' = "crashed"
  /\ UNCHANGED <<script, streamVars, paramVars, connVars, ghosts, statsVars>>

-----------------------------------------------------------------------------
(* The end                                                                 *)

Fail ==
  /\ pc = "failing"
  /\ pc' = "closing"
  /\ Close("failed")
  /\ UNCHANGED <<script, streamVars, paramVars, connVars, ghosts>>

(* The connection is closed and serveSocket returns; its variables are     *)
(* gone. What params holds of the slabs stays lent.                        *)
Finish ==
  /\ pc = "closing"
  /\ pc' = "closed"
  /\ Close("final")
  /\ wire' = <<>> /\ stream' = <<>> /\ place' = "own" /\ base' = 0
  /\ size' = 0 /\ reading' = FALSE
  /\ message' = None /\ fastreturn' = None
  /\ comp' = None /\ threshold' = 0
  /\ UNCHANGED <<script, held, enabled, distance, ghosts>>

(* Time goes on, sleepers wake; the two Closes of a connection follow each *)
(* other at once.                                                          *)
Clock ==
  /\ pc # "crashed"
  /\ \/ pc # "closing" /\ Second
     \/ NoticeSecond
     \/ \E k \in Closers : CloserShows(k) \/ CloserRemoves(k)
  /\ UNCHANGED <<script, pc, streamVars, paramVars, connVars, ghosts>>

(* Somebody looks at the status page.                                      *)
StatusPage ==
  /\ pc # "crashed"
  /\ HistoryGet
  /\ UNCHANGED <<script, pc, streamVars, paramVars, connVars, ghosts>>

Step ==
  \/ Accept \/ ReadHeader \/ HeaderThere \/ ReadBody \/ ReadFails
  \/ Decode \/ Serve \/ Answer \/ Crash \/ Fail \/ Finish

(* Nothing happens in a program that has ended.                            *)
Exited == pc = "crashed" /\ UNCHANGED vars

Next == Step \/ Clock \/ StatusPage \/ Exited

Spec == Init /\ [][Next]_vars

(* Time passes and sleeping goroutines wake. Nothing is asked of clients.  *)
FairSpec == Spec /\ WF_vars(Clock)

-----------------------------------------------------------------------------
(* Properties                                                              *)

Cells == (Nat \ {0}) \X (Nat \ {0}) \cup {Junk}

(* The stream lies where it can (handler_socket.go:77-131): in sharedmem   *)
(* up to its end, in a slab up to the request's size.                      *)
TypeOK ==
  /\ StatsTypeOK
  /\ [script |-> script, distance |-> distance, enabled |-> enabled] \in Cases
  /\ wire \in Seq(Cells) /\ stream \in Seq(Cells)
  /\ pc \in {"new", "read", "body", "serve", "send", "failing", "closing", "closed",
            "crashed"}
  /\ place \in {"shared", "slab", "own"}
  /\ base \in Nat /\ size \in Nat /\ reading \in BOOLEAN
  /\ place = "shared" => base + Len(stream) <= SharedSize
  /\ place = "slab" => Len(stream) <= size
  /\ message \in Requests \cup {None}
  /\ held \in BOOLEAN /\ fastreturn \in Nat \cup {None}
  /\ comp \in enabled \cup {None} /\ threshold \in Nat
  /\ handled \in Seq([req : Nat, served : BOOLEAN])
  /\ overwritten \in BOOLEAN

(* Whatever pieces the bytes arrive in and wherever they are put, requests *)
(* are served in order, each from its own bytes, none refused that is well *)
(* formed (handler_socket.go:205-290) - unless an answer was written over  *)
(* bytes that wait (handler_socket.go:384, 405).                           *)
RequestsIntact ==
  \A i \in 1 .. Len(handled) :
    handled[i] = [req |-> i, served |-> script[i].form = "ok"]
RequestsKept == ~overwritten => RequestsIntact

(* An answer has the content of the request it answers: nothing of it is   *)
(* left from the request before (handler_socket.go:351-373, hs_params.go:  *)
(* 274-284).                                                               *)
AnswersMatch == \A i \in 1 .. Len(answers) : answers[i].content = answers[i].of

(* What the requests before request n have negotiated.                     *)
Asked(n) == {k \in 1 .. n - 1 : script[k].conn_ex}
AgreedThreshold(n) ==
  IF Asked(n) = {} THEN Threshold ELSE script[Max(Asked(n))].threshold
KnowsSnappy(n) ==
  /\ "snappy" \in enabled
  /\ \E k \in Asked(n) :
       /\ script[k].snappy
       /\ \A j \in Asked(n) : j >= k => script[j].threshold # 0
Agreed(n) == IF KnowsSnappy(n) /\ distance = 1 THEN "snappy"
             ELSE IF "flate" \in enabled THEN "flate" ELSE "gzip"

(* "always use no compression for LOCAL(0), snappy or flate for LAN(1) and *)
(* flate for WAN(2)" (conn_ex.go:48): however often a client negotiates,   *)
(* the two variables the connection keeps for it amount to a rule about    *)
(* its requests so far. An answer that names a compressor is one longer    *)
(* than the threshold the client asked for last, and names what that rule  *)
(* says: snappy to a client in the LAN that told it knows snappy and did   *)
(* not turn compression off since.                                         *)
NegotiationKept ==
  ~overwritten => \A i \in 1 .. Len(answers) :
    LET a == answers[i]
    IN a.said # "plain" =>
         /\ distance # 0
         /\ AgreedThreshold(a.of) \in 1 .. script[a.of].resp - 1
         /\ a.said = Agreed(a.of)

(* Only with mp-snappy as the only compressor, a configuration the program *)
(* names itself (compression_ex.go:24), and only for a client that told it *)
(* knows snappy and did not turn compression off since, does an answer     *)
(* longer than the threshold end the program: the compressor for flate it  *)
(* would be given to was never made (handler_socket.go:440, 202,           *)
(* conn_ex.go:49-76).                                                      *)
CrashExplained ==
  ~overwritten /\ pc = "crashed" =>
    LET n == Len(handled)
    IN /\ "flate" \notin enabled /\ KnowsSnappy(n)
       /\ AgreedThreshold(n) \in 1 .. script[n].resp - 1

(* A slab lent to a request is free again when the connection is over:     *)
(* "this buffer is freed at the end of request" (handler_socket.go:119).   *)
MemoryReturned == pc = "closed" => ~held

(* The entry of a connection that ended is removed for good, and nobody    *)
(* uses it afterwards, though a failed connection is closed twice          *)
(* (stats.go:199-234).                                                     *)
EntryRemoved == []~nilEntry /\ (pc = "closed" ~> []~listed)
=============================================================================
