-------------------------- MODULE UDPServiceProofs --------------------------
(***************************************************************************)
(* The UDP service: an entry of the table of sources that is closed is     *)
(* never forgotten by the cleaners; however datagrams cut what a source    *)
(* sends, its messages are cut off as they were sent; and no more of them  *)
(* are pending in the table than are being served - for any sources, any   *)
(* messages, sizes and number of slots.                                    *)
(***************************************************************************)
EXTENDS UDPService, DataProofs

(* Slots, batches and goroutines are about entries of the table.           *)
TableInv ==
  /\ DOMAIN udpStats = Sources
  /\ second \in Nat
  /\ ids \in [0 .. Slots - 1 -> SUBSET Sources]
  /\ parsing \in Sources \cup {None}
  /\ \A t \in tasks : t.source \in Sources
  /\ \A b \in batches : b.sources \subseteq Sources

IInv == TableInv /\ FinishedScheduled

-----------------------------------------------------------------------------
(* Slots                                                                   *)

(* Whatever the time, a slot is meant.                                     *)
LEMMA SlotExists ==
  ASSUME NEW n \in Int
  PROVE  n % Slots \in 0 .. Slots - 1
  <1>1. Slots \in Nat /\ Slots > 0
    BY UDPAssumption
  <1> QED
    BY <1>1

LEMMA PositionTyped ==
  ASSUME NEW t \in Nat
  PROVE  t \div SlotSeconds \in Int
  <1>1. SlotSeconds \in Nat /\ SlotSeconds > 0
    BY UDPAssumption
  <1> QED
    BY <1>1

(* Inserting sources keeps those of every slot and adds the new ones.      *)
LEMMA InsertKeeps ==
  ASSUME TableInv, NEW S \in SUBSET Sources, Insert(S)
  PROVE  /\ ids' \in [0 .. Slots - 1 -> SUBSET Sources]
         /\ \A i \in DOMAIN ids : ids[i] \subseteq ids'[i]
         /\ \E i \in DOMAIN ids : S \subseteq ids'[i]
         /\ DOMAIN ids' = DOMAIN ids
  <1>1. PICK late \in {0, 1} :
          ids' = [ids EXCEPT ![(item_pos - late) % Slots] = @ \cup S]
    BY DEF Insert
  <1> DEFINE k == (item_pos - late) % Slots
  <1>2. k \in 0 .. Slots - 1
    <2>1. item_pos \in Int
      BY PositionTyped DEF item_pos, TableInv
    <2>2. item_pos - late \in Int
      BY <1>1, <2>1
    <2> QED
      BY <2>2, SlotExists
  <1>3. ids' = [ids EXCEPT ![k] = @ \cup S]
    BY <1>1
  <1> HIDE DEF k
  <1> QED
    BY <1>2, <1>3 DEF TableInv

-----------------------------------------------------------------------------
(* Steps                                                                   *)

(* A step keeps what is scheduled when it forgets no slot and no batch and *)
(* closes no entry.                                                        *)
LEMMA NothingClosed ==
  ASSUME IInv, UNCHANGED <<ids, batches>>,
         \A s \in Sources : Closed(s)' => Closed(s)
  PROVE  FinishedScheduled'
  BY DEF IInv, FinishedScheduled

(* What is done to an entry that is not being closed.                      *)
LEMMA BegunOpen ==
  ASSUME TableInv, NEW s \in Sources, udpStats' = Begun(udpStats, s)
  PROVE  /\ DOMAIN udpStats' = Sources
         /\ \A x \in Sources : Closed(x)' => Closed(x)
  <1>1. /\ udpStats' = [udpStats EXCEPT ![s] = [status |-> "O", pending |-> 0]]
        /\ DOMAIN udpStats = Sources
    BY DEF Begun, TableInv
  <1>2. ASSUME NEW x \in Sources, Closed(x)' PROVE Closed(x)
    <2>1. CASE x = s
      BY <1>1, <1>2, <2>1 DEF Closed
    <2>2. CASE x # s
      BY <1>1, <1>2, <2>2 DEF Closed
    <2> QED
      BY <2>1, <2>2
  <1> QED
    BY <1>1, <1>2

LEMMA RequestedOpen ==
  ASSUME TableInv, NEW s \in Sources, udpStats' = Requested(udpStats, s)
  PROVE  /\ DOMAIN udpStats' = Sources
         /\ \A x \in Sources : Closed(x)' => Closed(x)
  <1>1. CASE udpStats[s] = None
    BY <1>1 DEF Requested, TableInv, Closed
  <1>2. CASE udpStats[s] # None
    <2>1. PICK p : udpStats' = [udpStats EXCEPT ![s] = [status |-> "P", pending |-> p]]
      BY <1>2 DEF Requested
    <2>2. ASSUME NEW x \in Sources, Closed(x)' PROVE Closed(x)
      <3>1. CASE x = s
        BY <2>1, <2>2, <3>1 DEF Closed, TableInv
      <3>2. CASE x # s
        BY <2>1, <2>2, <3>2 DEF Closed, TableInv
      <3> QED
        BY <3>1, <3>2
    <2> QED
      BY <2>1, <2>2 DEF TableInv
  <1> QED
    BY <1>1, <1>2

(* The end of a message: an entry that is closed by it goes to a slot.     *)
LEMMA FinishedSchedules ==
  ASSUME IInv, NEW s \in Sources, NEW ok, Finished(udpStats, s, ok),
         UNCHANGED batches
  PROVE  /\ DOMAIN udpStats' = Sources
         /\ ids' \in [0 .. Slots - 1 -> SUBSET Sources]
         /\ FinishedScheduled'
  <1>1. CASE udpStats[s] = None
    <2>1. UNCHANGED <<udpStats, ids, batches>>
      BY <1>1 DEF Finished
    <2> QED
      BY <2>1 DEF IInv, TableInv, FinishedScheduled, Closed
  <1>2. CASE udpStats[s] # None
    <2> DEFINE left == udpStats[s].pending - 1
               over == ~ok \/ left <= 0
               status == IF ~over THEN udpStats[s].status
                         ELSE IF ok THEN "F" ELSE "X"
    <2>1. /\ udpStats' = [udpStats EXCEPT ![s] = [status |-> status, pending |-> left]]
          /\ IF over THEN Insert({s}) ELSE UNCHANGED ids
      BY <1>2 DEF Finished
    <2>2. ~over => status = udpStats[s].status
      OBVIOUS
    <2> HIDE DEF left, over, status
    <2>3. DOMAIN udpStats' = Sources /\ udpStats'[s].status = status
      BY <2>1 DEF IInv, TableInv
    <2>4. \A x \in Sources : x # s => (Closed(x)' => Closed(x))
      BY <2>1 DEF IInv, TableInv, Closed
    <2>5. CASE over
      <3>1. Insert({s})
        BY <2>1, <2>5
      <3>2. /\ ids' \in [0 .. Slots - 1 -> SUBSET Sources]
            /\ \A i \in DOMAIN ids : ids[i] \subseteq ids'[i]
            /\ \E i \in DOMAIN ids : {s} \subseteq ids'[i]
            /\ DOMAIN ids' = DOMAIN ids
        BY <3>1, InsertKeeps DEF IInv
      <3> QED
        BY <2>3, <2>4, <3>2 DEF IInv, FinishedScheduled
    <2>6. CASE ~over
      <3>1. UNCHANGED ids /\ (Closed(s)' => Closed(s))
        BY <1>2, <2>1, <2>2, <2>3, <2>6 DEF Closed
      <3> QED
        BY <2>3, <2>4, <2>6, <3>1, NothingClosed DEF IInv, TableInv
    <2> QED
      BY <2>5, <2>6
  <1> QED
    BY <1>1, <1>2

(* The receiver cuts messages off, or drops what a source sent.            *)
LEMMA ReceiverInv == IInv /\ Receiver => IInv'
  <1> SUFFICES ASSUME IInv, Receiver PROVE IInv'
    OBVIOUS
  <1>1. CASE CutMessage
    <2>1. /\ parsing \in Sources /\ parsing' \in {None, parsing}
          /\ UNCHANGED <<second, ids, batches>>
          /\ udpStats' \in {Begun(udpStats, parsing), udpStats}
      BY <1>1 DEF CutMessage, GoOn, cleanVars, IInv, TableInv
    <2>2. \A t \in tasks' : t.source \in Sources
      <3>1. PICK num, ok, stage :
              tasks' = tasks \cup {[source |-> parsing, num |-> num, ok |-> ok,
                                    stage |-> stage]}
        BY <1>1 DEF CutMessage
      <3> QED
        BY <2>1, <3>1 DEF IInv, TableInv
    <2>3. /\ DOMAIN udpStats' = Sources
          /\ \A x \in Sources : Closed(x)' => Closed(x)
      <3>1. CASE udpStats' = udpStats
        BY <3>1 DEF IInv, TableInv, Closed
      <3>2. CASE udpStats' = Begun(udpStats, parsing)
        BY <2>1, <3>2, BegunOpen DEF IInv
      <3> QED
        BY <2>1, <3>1, <3>2
    <2>4. TableInv'
      BY <2>1, <2>2, <2>3 DEF IInv, TableInv
    <2>5. FinishedScheduled'
      BY <2>1, <2>3, NothingClosed
    <2> QED
      BY <2>4, <2>5 DEF IInv
  <1>2. CASE Flush
    <2>1. /\ parsing \in Sources /\ parsing' = None
          /\ Finished(udpStats, parsing, FALSE)
          /\ UNCHANGED <<second, tasks, batches>>
      BY <1>2 DEF Flush, IInv, TableInv
    <2>2. /\ DOMAIN udpStats' = Sources
          /\ ids' \in [0 .. Slots - 1 -> SUBSET Sources]
          /\ FinishedScheduled'
      BY <2>1, FinishedSchedules
    <2> QED
      BY <2>1, <2>2 DEF IInv, TableInv
  <1>3. CASE Wait
    BY <1>3 DEF Wait, cleanVars, IInv, TableInv, FinishedScheduled, Closed
  <1> QED
    BY <1>1, <1>2, <1>3 DEF Receiver

(* A goroutine notes its message as a request, then as finished.           *)
LEMMA ServerInv == IInv /\ Server => IInv'
  <1> SUFFICES ASSUME IInv, NEW t \in tasks, Serve(t) \/ FinishTask(t) PROVE IInv'
    BY DEF Server
  <1>1. t.source \in Sources
    BY DEF IInv, TableInv
  <1>2. CASE Serve(t)
    <2>1. /\ tasks' = (tasks \ {t}) \cup {[t EXCEPT !.stage = "served"]}
          /\ udpStats' \in {Requested(udpStats, t.source), udpStats}
          /\ UNCHANGED <<parsing, second, ids, batches>>
      BY <1>2 DEF Serve, RunRequest, RunRequestV2, cleanVars
    <2>2. [t EXCEPT !.stage = "served"].source = t.source
      OBVIOUS
    <2>3. /\ DOMAIN udpStats' = Sources
          /\ \A x \in Sources : Closed(x)' => Closed(x)
      <3>1. CASE udpStats' = udpStats
        BY <3>1 DEF IInv, TableInv, Closed
      <3>2. CASE udpStats' = Requested(udpStats, t.source)
        BY <1>1, <3>2, RequestedOpen DEF IInv
      <3> QED
        BY <2>1, <3>1, <3>2
    <2>4. \A x \in tasks' : x.source \in Sources
      <3>1. ASSUME NEW x \in tasks' PROVE x.source \in Sources
        <4>1. CASE x \in tasks
          BY <4>1 DEF IInv, TableInv
        <4>2. CASE x = [t EXCEPT !.stage = "served"]
          BY <1>1, <2>2, <4>2
        <4> QED
          BY <2>1, <3>1, <4>1, <4>2
      <3> QED
        BY <3>1
    <2>5. FinishedScheduled'
      BY <2>1, <2>3, NothingClosed
    <2> QED
      BY <2>1, <2>3, <2>4, <2>5 DEF IInv, TableInv
  <1>3. CASE FinishTask(t)
    <2>1. /\ tasks' = tasks \ {t} /\ Finished(udpStats, t.source, t.ok)
          /\ UNCHANGED <<parsing, second, batches>>
      BY <1>3 DEF FinishTask
    <2>2. /\ DOMAIN udpStats' = Sources
          /\ ids' \in [0 .. Slots - 1 -> SUBSET Sources]
          /\ FinishedScheduled'
      BY <1>1, <2>1, FinishedSchedules
    <2> QED
      BY <2>1, <2>2 DEF IInv, TableInv
  <1> QED
    BY <1>2, <1>3

(* A slot is emptied into a batch.                                         *)
LEMMA TurnInv == IInv /\ Turn => IInv'
  <1> SUFFICES ASSUME IInv, Turn PROVE IInv'
    OBVIOUS
  <1>1. /\ UNCHANGED <<parsing, tasks, udpStats>>
        /\ CleanersGet(second' \div SlotSeconds)
        /\ \E d \in {1, 2} : second' = (second + d) % (Slots * SlotSeconds)
    BY DEF Turn, taskVars
  <1>2. second' \in Nat
    <2>1. Slots \in Nat /\ SlotSeconds \in Nat /\ Slots > 0 /\ SlotSeconds > 0
      BY UDPAssumption
    <2>2. Slots * SlotSeconds \in Nat /\ Slots * SlotSeconds > 0
      BY <2>1
    <2> DEFINE m == Slots * SlotSeconds
    <2>3. m \in Nat /\ m > 0
      BY <2>2
    <2>4. PICK d \in {1, 2} : second' = (second + d) % m
      BY <1>1
    <2> HIDE DEF m
    <2>5. second + d \in Int
      BY DEF IInv, TableInv
    <2> QED
      BY <2>3, <2>4, <2>5
  <1> DEFINE taken == (second' \div SlotSeconds + 1) % Slots
  <1>3. taken \in 0 .. Slots - 1
    <2>1. second' \div SlotSeconds \in Int
      BY <1>2, PositionTyped
    <2>2. second' \div SlotSeconds + 1 \in Int
      BY <2>1
    <2> QED
      BY <2>2, SlotExists
  <1>4. /\ ids' = [ids EXCEPT ![taken] = {}]
        /\ \/ ids[taken] = {} /\ batches' = batches
           \/ \E n : batches' = batches \cup {[num |-> n, stage |-> "taken",
                                               sources |-> ids[taken]]}
    BY <1>1 DEF CleanersGet
  <1> HIDE DEF taken
  <1>5. /\ ids' \in [0 .. Slots - 1 -> SUBSET Sources] /\ DOMAIN ids' = DOMAIN ids
        /\ \A i \in DOMAIN ids : i # taken => ids'[i] = ids[i]
        /\ ids[taken] \subseteq Sources
    BY <1>3, <1>4 DEF IInv, TableInv
  <1>6. /\ batches \subseteq batches'
        /\ \A s \in ids[taken] : \E b \in batches' : s \in b.sources
        /\ \A b \in batches' : b.sources \subseteq Sources
    <2>1. CASE ids[taken] = {} /\ batches' = batches
      BY <2>1 DEF IInv, TableInv
    <2>2. CASE \E n : batches' = batches \cup {[num |-> n, stage |-> "taken",
                                                sources |-> ids[taken]]}
      <3>1. PICK new : /\ batches' = batches \cup {new}
                       /\ new.sources = ids[taken]
        <4>1. PICK n : batches' = batches \cup {[num |-> n, stage |-> "taken",
                                                 sources |-> ids[taken]]}
          BY <2>2
        <4>2. [num |-> n, stage |-> "taken", sources |-> ids[taken]].sources
                = ids[taken]
          OBVIOUS
        <4> QED
          BY <4>1, <4>2
      <3> QED
        BY <1>5, <3>1 DEF IInv, TableInv
    <2> QED
      BY <1>4, <2>1, <2>2
  <1>7. FinishedScheduled'
    BY <1>1, <1>5, <1>6 DEF IInv, FinishedScheduled, Closed
  <1> QED
    BY <1>1, <1>2, <1>5, <1>6, <1>7 DEF IInv, TableInv

(* A cleaner removes what is closed and puts the rest back.                *)
LEMMA CleanerInv == IInv /\ Cleaner => IInv'
  <1> SUFFICES ASSUME IInv, NEW b \in batches, Clean(b) \/ PutBack(b) PROVE IInv'
    BY DEF Cleaner
  <1>1. b.sources \subseteq Sources
    BY DEF IInv, TableInv
  <1>2. CASE Clean(b)
    <2> DEFINE over == {s \in b.sources : Closed(s)}
               back == {s \in b.sources : udpStats[s] # None} \ over
               new == [b EXCEPT !.stage = "looked", !.sources = back]
    <2>1. /\ udpStats' = [s \in Sources |-> IF s \in over THEN None ELSE udpStats[s]]
          /\ batches' = (batches \ {b}) \cup {new}
          /\ UNCHANGED <<parsing, tasks, second, ids>>
      BY <1>2 DEF Clean, taskVars
    <2>2. ASSUME NEW x \in batches' PROVE x.sources \subseteq Sources
      <3>1. CASE x \in batches
        BY <3>1 DEF IInv, TableInv
      <3>2. CASE x = new
        <4>1. new.sources \in {back, b.sources}
          OBVIOUS
        <4>2. back \subseteq Sources
          BY <1>1
        <4> HIDE DEF new
        <4> QED
          BY <1>1, <3>2, <4>1, <4>2
      <3> HIDE DEF new
      <3> QED
        BY <2>1, <2>2, <3>1, <3>2
    <2>3. TableInv'
      BY <2>1, <2>2 DEF IInv, TableInv
    <2>4. ASSUME NEW s \in Sources, Closed(s)'
          PROVE  \/ \E i \in DOMAIN ids' : s \in ids'[i]
                 \/ \E x \in batches' : s \in x.sources
      <3>1. s \notin over /\ udpStats'[s] = udpStats[s]
        BY <2>1, <2>4 DEF Closed
      <3>2. Closed(s)
        BY <2>4, <3>1 DEF Closed
      <3>3. s \notin b.sources
        BY <3>1, <3>2
      <3>4. \/ \E i \in DOMAIN ids : s \in ids[i]
            \/ \E x \in batches : s \in x.sources
        BY <3>2 DEF IInv, FinishedScheduled
      <3> HIDE DEF over, new
      <3> QED
        BY <2>1, <3>3, <3>4
    <2> QED
      BY <2>3, <2>4 DEF IInv, FinishedScheduled
  <1>3. CASE PutBack(b)
    <2>1. /\ Insert(b.sources) /\ batches' = batches \ {b}
          /\ UNCHANGED <<parsing, tasks, udpStats, second>>
      BY <1>3 DEF PutBack, taskVars
    <2>2. /\ ids' \in [0 .. Slots - 1 -> SUBSET Sources]
          /\ \A i \in DOMAIN ids : ids[i] \subseteq ids'[i]
          /\ \E i \in DOMAIN ids : b.sources \subseteq ids'[i]
          /\ DOMAIN ids' = DOMAIN ids
      BY <1>1, <2>1, InsertKeeps DEF IInv
    <2>3. FinishedScheduled'
      BY <2>1, <2>2 DEF IInv, FinishedScheduled, Closed
    <2> QED
      BY <2>1, <2>2, <2>3 DEF IInv, TableInv
  <1> QED
    BY <1>2, <1>3

-----------------------------------------------------------------------------
(* The specification                                                       *)

(* The table and the slots are empty at first.                             *)
LEMMA InitInv == Init => IInv
  BY DEF Init, IInv, TableInv, FinishedScheduled, Closed

(* Every step keeps the invariant.                                         *)
LEMMA NextInv == IInv /\ [Next]_vars => IInv'
  <1> SUFFICES ASSUME IInv, [Next]_vars PROVE IInv'
    OBVIOUS
  <1>1. ASSUME NEW s \in Sources, Send(s) \/ Lose(s) PROVE IInv'
    BY <1>1
    DEF Send, Lose, taskVars, cleanVars, IInv, TableInv, FinishedScheduled, Closed
  <1>2. ASSUME NEW s \in Sources, Receive(s) PROVE IInv'
    BY <1>2 DEF Receive, cleanVars, IInv, TableInv, FinishedScheduled, Closed
  <1>3. CASE UNCHANGED vars
    BY <1>3
    DEF vars, taskVars, cleanVars, IInv, TableInv, FinishedScheduled, Closed
  <1> QED
    BY <1>1, <1>2, <1>3, ReceiverInv, ServerInv, TurnInv, CleanerInv DEF Next

(* A closed entry of the table is in a slot or in the hands of a cleaner,  *)
(* however the receiver, the goroutines that serve and the cleaners take   *)
(* turns (hs_udp.go:30-48, 68-88, 355-361).                                *)
THEOREM ClosedStayScheduled == Spec => []FinishedScheduled
  <1>1. IInv => FinishedScheduled
    BY DEF IInv
  <1> QED
    BY <1>1, InitInv, NextInv, PTL DEF Spec

-----------------------------------------------------------------------------
(* Messages                                                                *)

(* The first messages of a source put together, and its cells.             *)
First(s, n) == FlattenSeq([i \in 1 .. n |-> Bytes(s, i)])
Sent(s) == (1 .. Len(Script(s))) \X (Nat \ {0})

(* What was cut off, what waits and what is on its way make what a source  *)
(* sends.                                                                  *)
AsSent(s, h, b, w, u) ==
  /\ Len(h) <= Len(Script(s)) /\ \A i \in 1 .. Len(h) : h[i] = i
  /\ First(s, Len(h)) \o b \o FlattenSeq(w) \o u = Wire(s)
Waiting(s, h, b) == Len(b) >= HeadSize => Len(b) < Script(s)[Len(h) + 1].size

StreamOK(s) ==
  /\ unsent[s] \in Seq(Sent(s)) /\ net[s] \in Seq(Seq(Sent(s)))
  /\ source_buffer[s] \in Seq(Sent(s))
  /\ handled[s] \in Seq(Nat) /\ faults[s] \in Nat /\ garbled[s] \in Nat
InOrder(s) ==
  faults[s] = 0 =>
    /\ AsSent(s, handled[s], source_buffer[s], net[s], unsent[s])
    /\ parsing # s => Waiting(s, handled[s], source_buffer[s])

(* Every variable by source is a function of the sources.                  *)
OfSources(f) == f = [s \in Sources |-> f[s]]
StreamInv ==
  /\ sending \in Cases /\ parsing \in Sources \cup {None}
  /\ OfSources(unsent) /\ OfSources(net) /\ OfSources(source_buffer)
  /\ OfSources(handled) /\ OfSources(faults) /\ OfSources(garbled)
  /\ \A s \in Sources : StreamOK(s) /\ InOrder(s)

(* A goroutine is known by its source and number; it is pending in the     *)
(* table at most while it is between its request and its end.              *)
Served(s) == {t \in tasks : t.source = s /\ t.stage = "served"}
TasksOK ==
  /\ tasks \subseteq [source : Sources, num : Nat, ok : BOOLEAN, stage : {"begun", "served"}]
  /\ IsFiniteSet(tasks)
  /\ \A t \in tasks : t.num <= Len(handled[t.source])
  /\ \A t \in tasks, u \in tasks : t.source = u.source /\ t.num = u.num => t = u
StatsOK ==
  /\ udpStats \in [Sources -> Status \cup {None}]
  /\ \A s \in Sources : udpStats[s] # None => udpStats[s].pending <= Cardinality(Served(s))
TaskInv == TasksOK /\ StatsOK

BatchInv ==
  /\ second \in 0 .. Slots * SlotSeconds - 1
  /\ batches \subseteq [num : 1 .. MaxBatches, stage : {"taken", "looked"},
                        sources : SUBSET Sources]
  /\ IsFiniteSet(batches)

LEMMA SizesTyped ==
  /\ HeadSize \in Nat /\ HeadSize >= 1 /\ MaxFaults \in Nat
  /\ MaxBatches \in Nat /\ MaxBatches >= 1 /\ None \notin Sources
  BY UDPAssumption

LEMMA ScriptTyped ==
  ASSUME sending \in Cases, NEW s \in Sources
  PROVE  /\ Script(s) \in Seq([size : Nat, ok : BOOLEAN]) /\ Len(Script(s)) \in Nat
         /\ \A i \in 1 .. Len(Script(s)) :
              /\ Script(s)[i] \in [size : Nat, ok : BOOLEAN]
              /\ Script(s)[i].size \in Nat /\ Script(s)[i].ok \in BOOLEAN
              /\ Script(s)[i].size >= HeadSize /\ Script(s)[i].size >= 1
  <1>1. /\ sending \in [Sources -> [version : {1, 2}, messages : Seq([size : Nat, ok : BOOLEAN])]]
        /\ \A i \in 1 .. Len(sending[s].messages) : sending[s].messages[i].size >= HeadSize
    BY UDPAssumption
  <1>2. PICK m \in Seq([size : Nat, ok : BOOLEAN]) : m = Script(s)
    <2>1. sending[s] \in [version : {1, 2}, messages : Seq([size : Nat, ok : BOOLEAN])]
      BY <1>1
    <2>2. sending[s].messages \in Seq([size : Nat, ok : BOOLEAN])
      BY <2>1
    <2> QED
      BY <2>2 DEF Script
  <1>3. ASSUME NEW i \in 1 .. Len(m) PROVE m[i] \in [size : Nat, ok : BOOLEAN]
    BY ElementOfSeq
  <1>4. ASSUME NEW i \in 1 .. Len(m) PROVE m[i].size >= HeadSize
    BY <1>1, <1>2 DEF Script
  <1>5. ASSUME NEW i \in 1 .. Len(m)
        PROVE  m[i].size \in Nat /\ m[i].ok \in BOOLEAN
    BY <1>3
  <1>6. ASSUME NEW i \in 1 .. Len(m) PROVE m[i].size >= 1
    BY <1>4, <1>5, SizesTyped
  <1>7. Len(m) \in Nat
    BY LenProperties
  <1> QED
    BY <1>2, <1>3, <1>4, <1>5, <1>6, <1>7

(* Cells of a source are cells.                                            *)
LEMMA SentCells ==
  ASSUME NEW s
  PROVE  Seq(Sent(s)) \subseteq Seq(Cells) /\ Seq(Seq(Sent(s))) \subseteq Seq(Seq(Cells))
  <1>1. Sent(s) \subseteq Cells
    BY DEF Sent, Cells
  <1>2. ASSUME NEW A, NEW B, A \subseteq B PROVE Seq(A) \subseteq Seq(B)
    <2>1. ASSUME NEW q \in Seq(A) PROVE q \in Seq(B)
      <3>1. \A i \in 1 .. Len(q) : q[i] \in B
        BY <1>2, ElementOfSeq
      <3>2. Len(q) \in Nat /\ q \in [1 .. Len(q) -> A]
        BY LenProperties
      <3>3. q \in [1 .. Len(q) -> B]
        BY <1>2, <3>2
      <3> QED
        BY <3>2, <3>3, SeqDef
    <2> QED
      BY <2>1
  <1>3. Seq(Sent(s)) \subseteq Seq(Cells)
    BY <1>1, <1>2
  <1> QED
    BY <1>2, <1>3

LEMMA BytesTyped ==
  ASSUME sending \in Cases, NEW s \in Sources, NEW i \in 1 .. Len(Script(s))
  PROVE  /\ Bytes(s, i) \in Seq(Sent(s))
         /\ Len(Bytes(s, i)) = Script(s)[i].size
         /\ \A k \in 1 .. Script(s)[i].size : Bytes(s, i)[k] = <<i, k>>
         /\ Bytes(s, i)[1] = <<i, 1>>
  <1>1. Script(s)[i].size \in Nat /\ Script(s)[i].size >= 1
    BY ScriptTyped
  <1>2. \A k \in 1 .. Script(s)[i].size : <<i, k>> \in Sent(s)
    BY DEF Sent
  <1>3. Bytes(s, i) \in [1 .. Script(s)[i].size -> Sent(s)]
    BY <1>2 DEF Bytes
  <1>4. Bytes(s, i) \in Seq(Sent(s))
    BY <1>1, <1>3, SeqDef
  <1>5. Len(Bytes(s, i)) = Script(s)[i].size
    BY <1>1, <1>3, <1>4
  <1>6. \A k \in 1 .. Script(s)[i].size : Bytes(s, i)[k] = <<i, k>>
    BY DEF Bytes
  <1>7. Bytes(s, i)[1] = <<i, 1>>
    BY <1>1, <1>6
  <1> QED
    BY <1>4, <1>5, <1>6, <1>7

LEMMA WireTyped ==
  ASSUME sending \in Cases, NEW s \in Sources, NEW n \in 0 .. Len(Script(s))
  PROVE  /\ First(s, n) \in Seq(Sent(s)) /\ Wire(s) \in Seq(Sent(s))
         /\ First(s, 0) = <<>>
  <1> DEFINE p == [i \in 1 .. n |-> Bytes(s, i)]
             q == [i \in 1 .. Len(Script(s)) |-> Bytes(s, i)]
  <1>1. n \in Nat /\ Len(Script(s)) \in Nat
    BY ScriptTyped
  <1>2. p \in Seq(Seq(Sent(s))) /\ q \in Seq(Seq(Sent(s)))
    <2>1. p \in [1 .. n -> Seq(Sent(s))] /\ q \in [1 .. Len(Script(s)) -> Seq(Sent(s))]
      BY <1>1, BytesTyped
    <2> QED
      BY <1>1, <2>1, SeqDef
  <1>3. [i \in 1 .. 0 |-> Bytes(s, i)] = <<>>
    OBVIOUS
  <1>4. First(s, n) = FlattenSeq(p) /\ Wire(s) = FlattenSeq(q)
    BY DEF First, Wire
  <1>5. First(s, 0) = <<>>
    BY <1>3, FlattenOfNone DEF First
  <1> HIDE DEF p, q
  <1> QED
    BY <1>2, <1>4, <1>5, FlattenType

(* Behind the first messages the next one begins, if there is one.         *)
LEMMA NextMessage ==
  ASSUME sending \in Cases, NEW s \in Sources, NEW n \in 0 .. Len(Script(s)),
         NEW rest \in Seq(Sent(s)), First(s, n) \o rest = Wire(s)
  PROVE  /\ n = Len(Script(s)) => rest = <<>>
         /\ n < Len(Script(s)) =>
              /\ \E x \in Seq(Sent(s)) : rest = Bytes(s, n + 1) \o x
              /\ First(s, n + 1) = First(s, n) \o Bytes(s, n + 1)
  <1> DEFINE p == [i \in 1 .. Len(Script(s)) |-> Bytes(s, i)]
  <1>1. n \in Nat /\ Len(Script(s)) \in Nat
    BY ScriptTyped
  <1>2. p \in Seq(Seq(Sent(s))) /\ Len(p) = Len(Script(s))
    <2>1. p \in [1 .. Len(Script(s)) -> Seq(Sent(s))]
      BY <1>1, BytesTyped
    <2> QED
      BY <1>1, <2>1, SeqDef
  <1>3. ASSUME NEW k \in 0 .. Len(Script(s))
        PROVE  FlattenSeq(SubSeq(p, 1, k)) = First(s, k)
    <2>1. SubSeq(p, 1, k) = [i \in 1 .. k |-> Bytes(s, i)]
      <3>1. Len(p) = Len(Script(s)) /\ k \in Nat /\ k <= Len(p)
        BY <1>1, <1>2
      <3>2. SubSeq(p, 1, k) = [i \in 1 .. k |-> p[i]]
        <4> HIDE DEF p
        <4> QED
          BY <3>1
      <3> QED
        BY <1>1, <3>2
    <2> QED
      BY <2>1 DEF First
  <1>4. Wire(s) = FlattenSeq(p)
    BY DEF Wire
  <1>5. FlattenSeq(SubSeq(p, 1, n)) = First(s, n)
    BY <1>3
  <1>6. /\ n = Len(p) => rest = <<>>
        /\ n < Len(p) =>
             /\ \E x \in Seq(Sent(s)) : rest = p[n + 1] \o x
             /\ FlattenSeq(SubSeq(p, 1, n + 1)) = FlattenSeq(SubSeq(p, 1, n)) \o p[n + 1]
    <2> HIDE DEF p
    <2> QED
      <3>1. PICK C : C = Sent(s)
        OBVIOUS
      <3>2. PICK q \in Seq(Seq(C)) : q = p
        BY <1>2, <3>1
      <3>3. n \in 0 .. Len(q) /\ rest \in Seq(C) /\ FlattenSeq(SubSeq(q, 1, n)) \o rest = FlattenSeq(q)
        BY <1>2, <1>4, <1>5, <3>1, <3>2
      <3>4. /\ n = Len(q) => rest = <<>>
            /\ n < Len(q) =>
                 /\ \E x \in Seq(C) : rest = q[n + 1] \o x
                 /\ FlattenSeq(SubSeq(q, 1, n + 1)) = FlattenSeq(SubSeq(q, 1, n)) \o q[n + 1]
        BY <3>3, NextPiece
      <3> QED
        BY <3>1, <3>2, <3>4
  <1>7. ASSUME n < Len(Script(s))
        PROVE  p[n + 1] = Bytes(s, n + 1) /\ FlattenSeq(SubSeq(p, 1, n + 1)) = First(s, n + 1)
    <2>1. n + 1 \in 0 .. Len(Script(s)) /\ n + 1 \in 1 .. Len(Script(s))
      BY <1>1, <1>7
    <2> QED
      BY <1>3, <2>1
  <1> HIDE DEF p
  <1> QED
    BY <1>2, <1>5, <1>6, <1>7

(* If nothing was lost, the buffer begins with the next message.           *)
LEMMA NextKnown ==
  ASSUME sending \in Cases, NEW s \in Sources,
         NEW h \in Seq(Nat), NEW b \in Seq(Sent(s)), NEW w \in Seq(Seq(Sent(s))),
         NEW u \in Seq(Sent(s)), AsSent(s, h, b, w, u), Len(b) >= HeadSize
  PROVE  /\ Len(h) \in Nat /\ Len(h) < Len(Script(s))
         /\ First(s, Len(h) + 1) = First(s, Len(h)) \o Bytes(s, Len(h) + 1)
         /\ \E x \in Seq(Sent(s)) : b \o (FlattenSeq(w) \o u) = Bytes(s, Len(h) + 1) \o x
         /\ First(s, Len(h)) \o (b \o (FlattenSeq(w) \o u)) = Wire(s)
  <1>1. PICK n \in 0 .. Len(Script(s)) : n = Len(h)
    BY ScriptTyped, LenProperties DEF AsSent
  <1>2. PICK f \in Seq(Sent(s)) : f = FlattenSeq(w)
    BY FlattenType
  <1>3. PICK a \in Seq(Sent(s)) : a = First(s, n)
    BY WireTyped
  <1>4. PICK y \in Seq(Sent(s)) : y = f \o u
    BY ConcatProperties
  <1>5. PICK rest \in Seq(Sent(s)) : rest = b \o y
    BY ConcatProperties
  <1>6. a \o rest = Wire(s)
    <2>1. PICK ab, abf, l, r : ab = a \o b /\ abf = ab \o f /\ l = abf \o u /\ r = a \o rest
      OBVIOUS
    <2>2. l = Wire(s)
      BY <1>1, <1>2, <1>3, <2>1 DEF AsSent
    <2>3. Regroups4(Sent(s), a, b, f, u, ab, abf, y, rest, l, r)
      BY <1>4, <1>5, <2>1 DEF Regroups4
    <2>4. l = r
      BY <2>3, FourParts
    <2> QED
      BY <2>1, <2>2, <2>4
  <1>7. n # Len(Script(s))
    <2>1. Len(rest) = Len(b) + Len(y) /\ Len(b) \in Nat /\ Len(y) \in Nat
      BY <1>5, ConcatProperties, LenProperties
    <2>2. rest # <<>>
      BY <2>1, SizesTyped, EmptySeq
    <2> QED
      BY <1>3, <1>6, <2>2, NextMessage
  <1>8. n \in Nat /\ n < Len(Script(s))
    BY <1>7, ScriptTyped
  <1>9. /\ \E x \in Seq(Sent(s)) : rest = Bytes(s, n + 1) \o x
        /\ First(s, n + 1) = First(s, n) \o Bytes(s, n + 1)
    BY <1>3, <1>6, <1>8, NextMessage
  <1> QED
    BY <1>1, <1>2, <1>3, <1>4, <1>5, <1>6, <1>8, <1>9

LEMMA HeaderKnown ==
  ASSUME sending \in Cases, NEW s \in Sources, StreamOK(s),
         AsSent(s, handled[s], source_buffer[s], net[s], unsent[s]),
         Len(source_buffer[s]) >= HeadSize
  PROVE  /\ Len(handled[s]) \in Nat /\ Len(handled[s]) < Len(Script(s))
         /\ Headers(s) = {Script(s)[Len(handled[s]) + 1]}
  <1> DEFINE b == source_buffer[s]
             y == FlattenSeq(net[s]) \o unsent[s]
  <1>1. /\ Len(handled[s]) \in Nat /\ Len(handled[s]) < Len(Script(s))
        /\ \E x \in Seq(Sent(s)) : b \o y = Bytes(s, Len(handled[s]) + 1) \o x
    BY NextKnown DEF StreamOK
  <1>2. b \in Seq(Sent(s)) /\ y \in Seq(Sent(s)) /\ Len(b) \in Nat
    BY FlattenType, ConcatProperties, LenProperties DEF StreamOK
  <1>3. PICK i \in 1 .. Len(Script(s)) : i = Len(handled[s]) + 1
    BY <1>1, ScriptTyped
  <1>4. PICK x \in Seq(Sent(s)) : b \o y = Bytes(s, i) \o x
    BY <1>1, <1>3
  <1>5. PICK c \in Seq(Sent(s)) :
          /\ c = Bytes(s, i) /\ Len(c) = Script(s)[i].size /\ Len(c) >= HeadSize
          /\ \A k \in 1 .. Script(s)[i].size : c[k] = <<i, k>>
    BY BytesTyped, ScriptTyped
  <1> HIDE DEF y
  <1>6. ASSUME NEW k \in 1 .. HeadSize PROVE b[k] = <<i, k>>
    <2>1. Len(y) \in Nat /\ Len(x) \in Nat /\ Len(c) \in Nat /\ HeadSize \in Nat
      BY <1>2, LenProperties, SizesTyped
    <2>2. Len(b) >= HeadSize
      BY SizesTyped
    <2>3. k \in 1 .. Len(b) + Len(y) /\ k <= Len(b) /\ k \in 1 .. Len(c) + Len(x) /\ k <= Len(c)
      BY <1>2, <1>5, <2>1, <2>2
    <2>4. (b \o y)[k] = b[k]
      BY <1>2, <2>3, ConcatProperties
    <2>5. (c \o x)[k] = c[k]
      BY <1>5, <2>3, ConcatProperties
    <2>6. c[k] = <<i, k>>
      BY <1>5, <2>3, ScriptTyped
    <2> QED
      BY <1>4, <1>5, <2>4, <2>5, <2>6
  <1>7. b[1] = <<i, 1>> /\ b[1][1] = i
    BY <1>6, SizesTyped
  <1>8. \A k \in 1 .. HeadSize : b[k] = <<b[1][1], k>>
    BY <1>6, <1>7
  <1>9. Headers(s) = {Script(s)[i]}
    BY <1>7, <1>8 DEF Headers
  <1> QED
    BY <1>1, <1>3, <1>9

LEMMA OriginOfMessage ==
  ASSUME sending \in Cases, NEW s \in Sources, NEW i \in 1 .. Len(Script(s))
  PROVE  Origin(s, Bytes(s, i)) = i
  BY BytesTyped DEF Origin

(* The next message is cut off the buffer.                                 *)
LEMMA CutAsSent ==
  ASSUME sending \in Cases, NEW s \in Sources,
         NEW h \in Seq(Nat), NEW b \in Seq(Sent(s)), NEW w \in Seq(Seq(Sent(s))),
         NEW u \in Seq(Sent(s)), AsSent(s, h, b, w, u), Len(b) >= HeadSize,
         NEW z \in Nat, z = Script(s)[Len(h) + 1].size, z <= Len(b)
  PROVE  /\ Origin(s, SubSeq(b, 1, z)) = Len(h) + 1
         /\ AsSent(s, Append(h, Len(h) + 1), SubSeq(b, z + 1, Len(b)), w, u)
  <1>1. /\ Len(h) \in Nat /\ Len(h) < Len(Script(s))
        /\ First(s, Len(h) + 1) = First(s, Len(h)) \o Bytes(s, Len(h) + 1)
        /\ \E x \in Seq(Sent(s)) : b \o (FlattenSeq(w) \o u) = Bytes(s, Len(h) + 1) \o x
        /\ First(s, Len(h)) \o (b \o (FlattenSeq(w) \o u)) = Wire(s)
    BY NextKnown
  <1>2. PICK f \in Seq(Sent(s)) : f = FlattenSeq(w)
    BY FlattenType
  <1>3. PICK i \in 1 .. Len(Script(s)) : i = Len(h) + 1
    BY <1>1, ScriptTyped
  <1>4. PICK a \in Seq(Sent(s)) : a = First(s, Len(h))
    BY <1>1, ScriptTyped, WireTyped
  <1>5. PICK m \in Seq(Sent(s)) : m = Bytes(s, i) /\ Len(m) = z
    BY <1>3, BytesTyped
  <1>6. PICK y \in Seq(Sent(s)) : y = f \o u
    BY ConcatProperties
  <1>7. PICK x \in Seq(Sent(s)) : b \o y = m \o x
    BY <1>1, <1>2, <1>3, <1>5, <1>6
  <1>8. PICK c \in Seq(Sent(s)), d \in Seq(Sent(s)) :
          /\ c = SubSeq(b, 1, z) /\ d = SubSeq(b, z + 1, Len(b)) /\ c \o d = b /\ Len(c) = z
    <2>1. z \in 0 .. Len(b)
      BY LenProperties
    <2> QED
      BY <2>1, CutInTwo
  <1>9. PICK r \in Seq(Sent(s)) : r = d \o y
    BY ConcatProperties
  <1>10. PICK by, cr : by = b \o y /\ cr = c \o r
    OBVIOUS
  <1>11. c = m /\ r = x
    <2>1. Regroups(Sent(s), c, d, y, b, r, by, cr)
      BY <1>8, <1>9, <1>10 DEF Regroups
    <2>2. by = cr
      BY <2>1, ThreeParts
    <2>3. c \o r = m \o x /\ Len(c) = Len(m)
      BY <1>5, <1>7, <1>8, <1>10, <2>2
    <2> QED
      BY <2>3, SameParts
  <1>12. PICK e \in Seq(Sent(s)) : e = First(s, i) /\ e = a \o m
    BY <1>1, <1>3, <1>4, <1>5, ConcatProperties
  <1>13. ((e \o d) \o f) \o u = Wire(s)
    <2>1. PICK ed, edf, l, er, abr :
            ed = e \o d /\ edf = ed \o f /\ l = edf \o u /\ er = e \o r /\ abr = a \o by
      OBVIOUS
    <2>2. Regroups4(Sent(s), e, d, f, u, ed, edf, y, r, l, er)
      BY <1>6, <1>9, <2>1 DEF Regroups4
    <2>3. Regroups(Sent(s), a, m, r, e, by, er, abr)
      BY <1>7, <1>10, <1>11, <1>12, <2>1 DEF Regroups
    <2>4. l = er /\ er = abr
      BY <2>2, <2>3, ThreeParts, FourParts
    <2>5. abr = Wire(s)
      BY <1>1, <1>2, <1>4, <1>6, <1>10, <2>1
    <2> QED
      BY <2>1, <2>4, <2>5
  <1>14. PICK q \in Seq(Nat) : q = Append(h, i)
    <2>1. h \in Seq(Nat) /\ i \in Nat
      OBVIOUS
    <2>2. Append(h, i) \in Seq(Nat)
      BY <2>1, AppendProperties
    <2> QED
      BY <2>2
  <1>15. Len(q) = i /\ \A k \in 1 .. i : q[k] = k
    <2>1. \A k \in 1 .. Len(h) : h[k] = k
      BY DEF AsSent
    <2>2. /\ Len(q) = Len(h) + 1 /\ q[Len(h) + 1] = i
          /\ \A k \in 1 .. Len(h) : q[k] = h[k]
      BY <1>1, <1>3, <1>14
    <2>3. ASSUME NEW k \in 1 .. i PROVE q[k] = k
      <3>1. k \in 1 .. Len(h) \/ k = Len(h) + 1
        <4>1. Len(h) \in Nat /\ i = Len(h) + 1
          BY <1>1, <1>3
        <4> QED
          BY <4>1
      <3> QED
        BY <1>3, <2>1, <2>2, <3>1
    <2> QED
      BY <1>3, <2>2, <2>3
  <1>16. AsSent(s, q, d, w, u)
    <2>1. Len(q) <= Len(Script(s)) /\ \A k \in 1 .. Len(q) : q[k] = k
      BY <1>1, <1>3, <1>15
    <2>2. First(s, Len(q)) \o d \o FlattenSeq(w) \o u = Wire(s)
      BY <1>2, <1>12, <1>13, <1>15
    <2> QED
      BY <2>1, <2>2 DEF AsSent
  <1>17. Origin(s, c) = i
    BY <1>5, <1>11, OriginOfMessage
  <1> QED
    BY <1>3, <1>8, <1>14, <1>16, <1>17

(* A datagram is made of what is to be sent.                               *)
LEMMA SendAsSent ==
  ASSUME NEW s, NEW h, NEW b \in Seq(Sent(s)), NEW w \in Seq(Seq(Sent(s))),
         NEW u \in Seq(Sent(s)), NEW a \in Seq(Sent(s)), a = First(s, Len(h)),
         AsSent(s, h, b, w, u), NEW n \in 1 .. Len(u)
  PROVE  /\ SubSeq(u, 1, n) \in Seq(Sent(s)) /\ SubSeq(u, n + 1, Len(u)) \in Seq(Sent(s))
         /\ AsSent(s, h, b, Append(w, SubSeq(u, 1, n)), SubSeq(u, n + 1, Len(u)))
  <1>1. PICK c \in Seq(Sent(s)), d \in Seq(Sent(s)) :
          c = SubSeq(u, 1, n) /\ d = SubSeq(u, n + 1, Len(u)) /\ c \o d = u
    <2>1. n \in 0 .. Len(u) /\ u \in Seq(Sent(s))
      BY LenProperties
    <2>2. /\ SubSeq(u, 1, n) \in Seq(Sent(s)) /\ SubSeq(u, n + 1, Len(u)) \in Seq(Sent(s))
          /\ SubSeq(u, 1, n) \o SubSeq(u, n + 1, Len(u)) = u
      BY <2>1, CutInTwo
    <2> QED
      BY <2>2
  <1>2. PICK f \in Seq(Sent(s)) : f = FlattenSeq(w)
    BY FlattenType
  <1>3. PICK fc \in Seq(Sent(s)) : fc = FlattenSeq(Append(w, c)) /\ fc = f \o c
    <2>1. Append(w, c) \in Seq(Seq(Sent(s)))
      BY AppendProperties
    <2> QED
      BY <1>2, <2>1, FlattenAppend, FlattenType
  <1>4. PICK ab \in Seq(Sent(s)) : ab = a \o b
    BY ConcatProperties
  <1>5. PICK abf \in Seq(Sent(s)) : abf = ab \o f
    BY ConcatProperties
  <1>6. PICK abfc, l, r, x :
          abfc = abf \o c /\ l = abf \o u /\ r = abfc \o d /\ x = ab \o fc
    OBVIOUS
  <1>7. l = r
    <2>1. Regroups(Sent(s), abf, c, d, abfc, u, r, l)
      BY <1>1, <1>5, <1>6 DEF Regroups
    <2> QED
      BY <2>1, ThreeParts
  <1>8. abfc = x
    <2>1. Regroups(Sent(s), ab, f, c, abf, fc, abfc, x)
      BY <1>2, <1>3, <1>4, <1>5, <1>6 DEF Regroups
    <2> QED
      BY <2>1, ThreeParts
  <1>9. l = Wire(s)
    BY <1>2, <1>4, <1>5, <1>6 DEF AsSent
  <1>10. ((First(s, Len(h)) \o b) \o FlattenSeq(Append(w, c))) \o d = Wire(s)
    BY <1>3, <1>4, <1>5, <1>6, <1>7, <1>8, <1>9
  <1>11. AsSent(s, h, b, Append(w, c), d)
    BY <1>10 DEF AsSent
  <1> QED
    BY <1>1, <1>11

(* The oldest datagram is put behind the buffer.                           *)
LEMMA ReceiveAsSent ==
  ASSUME NEW s, NEW h, NEW b \in Seq(Sent(s)), NEW w \in Seq(Seq(Sent(s))),
         NEW u \in Seq(Sent(s)), NEW a \in Seq(Sent(s)), a = First(s, Len(h)),
         AsSent(s, h, b, w, u), 1 \in 1 .. Len(w)
  PROVE  AsSent(s, h, b \o w[1], RemoveAt(w, 1), u)
  <1>1. PICK c \in Seq(Sent(s)) : c = w[1]
    BY ElementOfSeq
  <1>2. PICK v \in Seq(Seq(Sent(s))) : v = RemoveAt(w, 1)
    BY RemoveAtRange
  <1>3. w = <<c>> \o v
    <2>1. Len(w) \in Nat /\ Len(w) \in 1 .. Len(w)
      BY LenProperties
    <2>2. SubSeq(w, 1, Len(w)) = <<w[1]>> \o SubSeq(w, 1 + 1, Len(w))
      BY <2>1, SubSeqRecursiveFirst
    <2>3. SubSeq(w, 1, Len(w)) = w
      BY SubSeqFull
    <2>4. RemoveAt(w, 1) = SubSeq(w, 1, 0) \o SubSeq(w, 2, Len(w))
      BY DEF RemoveAt
    <2>5. SubSeq(w, 1, 0) = <<>> /\ SubSeq(w, 2, Len(w)) \in Seq(Seq(Sent(s)))
      <3>1. SubSeq(w, 1 + 1, Len(w)) \in Seq(Seq(Sent(s)))
        BY CutInTwo
      <3> QED
        BY <3>1, SubSeqEmpty
    <2>6. v = SubSeq(w, 2, Len(w))
      BY <1>2, <2>4, <2>5, ConcatEmptySeq
    <2> QED
      BY <1>1, <2>2, <2>3, <2>6
  <1>4. PICK f \in Seq(Sent(s)), g \in Seq(Sent(s)) :
          f = FlattenSeq(w) /\ g = FlattenSeq(v) /\ f = c \o g
    <2>1. <<c>> \in Seq(Seq(Sent(s)))
      OBVIOUS
    <2>2. FlattenSeq(<<c>> \o v) = FlattenSeq(<<c>>) \o FlattenSeq(v)
      BY <2>1, FlattenConcat
    <2> QED
      BY <1>3, <2>2, FlattenOfOne, FlattenType
  <1>5. PICK ab \in Seq(Sent(s)), bc \in Seq(Sent(s)) : ab = a \o b /\ bc = b \o c
    BY ConcatProperties
  <1>6. PICK abf, abc, x, y :
          abf = ab \o f /\ abc = ab \o c /\ x = abc \o g /\ y = a \o bc
    OBVIOUS
  <1>7. x = abf
    <2>1. Regroups(Sent(s), ab, c, g, abc, f, x, abf)
      BY <1>4, <1>5, <1>6 DEF Regroups
    <2> QED
      BY <2>1, ThreeParts
  <1>8. abc = y
    <2>1. Regroups(Sent(s), a, b, c, ab, bc, abc, y)
      BY <1>5, <1>6 DEF Regroups
    <2> QED
      BY <2>1, ThreeParts
  <1>9. abf \o u = Wire(s)
    BY <1>4, <1>5, <1>6 DEF AsSent
  <1>10. ((First(s, Len(h)) \o bc) \o FlattenSeq(v)) \o u = Wire(s)
    BY <1>4, <1>5, <1>6, <1>7, <1>8, <1>9
  <1>11. AsSent(s, h, bc, v, u)
    BY <1>10 DEF AsSent
  <1> QED
    BY <1>1, <1>2, <1>5, <1>11

-----------------------------------------------------------------------------
(* Steps of sources, network and receiver                                  *)

LEMMA HeaderTyped ==
  ASSUME sending \in Cases, NEW s \in Sources, StreamOK(s),
         Len(source_buffer[s]) >= HeadSize, NEW m \in Headers(s)
  PROVE  m.size \in Nat /\ m.ok \in BOOLEAN /\ m.size >= 1
  <1> DEFINE b == source_buffer[s]
             i == b[1][1]
  <1>1. CASE \A k \in 1 .. HeadSize : b[k] = <<i, k>>
    <2>1. 1 \in 1 .. HeadSize /\ 1 \in 1 .. Len(b) /\ b \in Seq(Sent(s))
      BY SizesTyped, LenProperties DEF StreamOK
    <2>2. b[1] \in Sent(s)
      BY <2>1, ElementOfSeq
    <2>3. i \in 1 .. Len(Script(s))
      BY <2>2 DEF Sent
    <2>4. m = Script(s)[i]
      BY <1>1 DEF Headers
    <2> HIDE DEF i
    <2> QED
      BY <2>3, <2>4, ScriptTyped
  <1>2. CASE ~ \A k \in 1 .. HeadSize : b[k] = <<i, k>>
    <2>1. PICK j \in 1 .. Len(Script(s)), o \in BOOLEAN : m = [Script(s)[j] EXCEPT !.ok = o]
      BY <1>2 DEF Headers
    <2>2. PICK r \in [size : Nat, ok : BOOLEAN] : r = Script(s)[j] /\ r.size >= 1
      BY ScriptTyped
    <2> QED
      BY <2>1, <2>2
  <1> QED
    BY <1>1, <1>2

LEMMA OriginTyped ==
  ASSUME sending \in Cases, NEW s \in Sources, NEW cells
  PROVE  Origin(s, cells) \in Nat
  <1>1. CASE \E i \in 1 .. Len(Script(s)) : cells = Bytes(s, i)
    <2>1. PICK i \in 1 .. Len(Script(s)) : cells = Bytes(s, i)
      BY <1>1
    <2> QED
      BY <2>1, OriginOfMessage
  <1>2. CASE ~ \E i \in 1 .. Len(Script(s)) : cells = Bytes(s, i)
    BY <1>2 DEF Origin
  <1> QED
    BY <1>1, <1>2

(* What sources send does not change.                                      *)
LEMMA ScriptStays ==
  ASSUME sending' = sending, NEW s
  PROVE  Sent(s)' = Sent(s) /\ Script(s)' = Script(s)
  BY DEF Sent, Script

LEMMA AsSentStays ==
  ASSUME sending' = sending, NEW s, NEW h, NEW b, NEW w, NEW u, AsSent(s, h, b, w, u)
  PROVE  AsSent(s, h, b, w, u)'
  BY DEF AsSent, First, Wire, Bytes, Script

LEMMA WaitingStays ==
  ASSUME sending' = sending, NEW s, NEW h, NEW b, Waiting(s, h, b)
  PROVE  Waiting(s, h, b)'
  BY DEF Waiting, Script

(* What must hold of the stream of a source after a step.                  *)
LEMMA StreamNext ==
  ASSUME sending' = sending, NEW s \in Sources,
         NEW h \in Seq(Nat), NEW b \in Seq(Sent(s)), NEW w \in Seq(Seq(Sent(s))),
         NEW u \in Seq(Sent(s)), handled'[s] = h, source_buffer'[s] = b, net'[s] = w,
         unsent'[s] = u, faults'[s] \in Nat, garbled'[s] \in Nat,
         faults'[s] = 0 => AsSent(s, h, b, w, u) /\ (parsing' # s => Waiting(s, h, b))
  PROVE  StreamOK(s)' /\ InOrder(s)'
  <1>1. StreamOK(s)'
    BY ScriptStays DEF StreamOK
  <1>2. ASSUME faults'[s] = 0
        PROVE  /\ AsSent(s, h, b, w, u)'
               /\ parsing' # s => Waiting(s, h, b)'
    BY <1>2, AsSentStays, WaitingStays
  <1>3. InOrder(s)'
    BY <1>2 DEF InOrder
  <1> QED
    BY <1>1, <1>3

(* A source the step is not about.                                         *)
LEMMA StreamStays ==
  ASSUME StreamInv, sending' = sending, NEW s \in Sources,
         handled'[s] = handled[s], source_buffer'[s] = source_buffer[s], net'[s] = net[s],
         unsent'[s] = unsent[s], faults'[s] = faults[s], garbled'[s] = garbled[s],
         parsing' # s => parsing # s
  PROVE  StreamOK(s)' /\ InOrder(s)'
  <1>1. StreamOK(s) /\ InOrder(s)
    BY DEF StreamInv
  <1>2. PICK h \in Seq(Nat), b \in Seq(Sent(s)), w \in Seq(Seq(Sent(s))), u \in Seq(Sent(s)) :
          h = handled[s] /\ b = source_buffer[s] /\ w = net[s] /\ u = unsent[s]
    BY <1>1 DEF StreamOK
  <1>3. faults[s] = 0 => AsSent(s, h, b, w, u) /\ (parsing # s => Waiting(s, h, b))
    BY <1>1, <1>2 DEF InOrder
  <1>4. faults'[s] \in Nat /\ garbled'[s] \in Nat
    BY <1>1 DEF StreamOK
  <1>5. faults'[s] = 0 => AsSent(s, h, b, w, u) /\ (parsing' # s => Waiting(s, h, b))
    BY <1>3
  <1>6. handled'[s] = h /\ source_buffer'[s] = b /\ net'[s] = w /\ unsent'[s] = u
    BY <1>2
  <1> QED
    BY <1>4, <1>5, <1>6, StreamNext

(* The parts of the stream of a source, by name.                           *)
LEMMA StreamParts ==
  ASSUME StreamInv, NEW s \in Sources
  PROVE  /\ sending \in Cases /\ StreamOK(s)
         /\ \E h \in Seq(Nat), b \in Seq(Sent(s)), w \in Seq(Seq(Sent(s))), u \in Seq(Sent(s)) :
              /\ h = handled[s] /\ b = source_buffer[s] /\ w = net[s] /\ u = unsent[s]
              /\ faults[s] = 0 =>
                   /\ AsSent(s, h, b, w, u) /\ (parsing # s => Waiting(s, h, b))
                   /\ \E a \in Seq(Sent(s)) : a = First(s, Len(h))
  <1>1. StreamOK(s) /\ InOrder(s) /\ sending \in Cases
    BY DEF StreamInv
  <1>2. PICK h \in Seq(Nat), b \in Seq(Sent(s)), w \in Seq(Seq(Sent(s))), u \in Seq(Sent(s)) :
          h = handled[s] /\ b = source_buffer[s] /\ w = net[s] /\ u = unsent[s]
    BY <1>1 DEF StreamOK
  <1>3. faults[s] = 0 => AsSent(s, h, b, w, u) /\ (parsing # s => Waiting(s, h, b))
    BY <1>1, <1>2 DEF InOrder
  <1>4. ASSUME faults[s] = 0 PROVE First(s, Len(h)) \in Seq(Sent(s))
    <2>1. Len(h) \in 0 .. Len(Script(s))
      BY <1>1, <1>3, <1>4, ScriptTyped, LenProperties DEF AsSent
    <2> QED
      BY <1>1, <2>1, WireTyped
  <1> QED
    BY <1>1, <1>2, <1>3, <1>4

LEMMA SendKeeps ==
  ASSUME StreamInv, NEW s \in Sources, Send(s)
  PROVE  StreamInv'
  <1>1. PICK n \in 1 .. MaxDatagram :
          /\ n <= Len(unsent[s])
          /\ net' = [net EXCEPT ![s] = Append(@, SubSeq(unsent[s], 1, n))]
          /\ unsent' = [unsent EXCEPT ![s] = SubSeq(@, n + 1, Len(@))]
    BY DEF Send
  <1>2. UNCHANGED <<sending, faults, source_buffer, parsing, handled, garbled>>
    BY DEF Send, taskVars
  <1>3. ASSUME NEW x \in Sources, x # s PROVE StreamOK(x)' /\ InOrder(x)'
    BY <1>1, <1>2, <1>3, StreamStays DEF StreamInv, OfSources
  <1>4. StreamOK(s)' /\ InOrder(s)'
    <2>1. PICK h \in Seq(Nat), b \in Seq(Sent(s)), w \in Seq(Seq(Sent(s))), u \in Seq(Sent(s)) :
            /\ h = handled[s] /\ b = source_buffer[s] /\ w = net[s] /\ u = unsent[s]
            /\ faults[s] = 0 =>
                 /\ AsSent(s, h, b, w, u) /\ (parsing # s => Waiting(s, h, b))
                 /\ \E a \in Seq(Sent(s)) : a = First(s, Len(h))
      BY StreamParts
    <2>2. n \in 1 .. Len(u) /\ n \in 0 .. Len(u)
      BY <1>1, <2>1, LenProperties
    <2>3. PICK d \in Seq(Sent(s)), r \in Seq(Sent(s)) :
            d = SubSeq(u, 1, n) /\ r = SubSeq(u, n + 1, Len(u))
      BY <2>2, CutInTwo
    <2>4. PICK v \in Seq(Seq(Sent(s))) : v = Append(w, d)
      BY AppendProperties
    <2>5. net'[s] = v /\ unsent'[s] = r
      BY <1>1, <2>1, <2>3, <2>4 DEF StreamInv, OfSources
    <2>6. ASSUME faults[s] = 0
          PROVE  AsSent(s, h, b, v, r) /\ (parsing' # s => Waiting(s, h, b))
      <3>1. PICK a \in Seq(Sent(s)) : a = First(s, Len(h))
        BY <2>1, <2>6
      <3>2. AsSent(s, h, b, w, u)
        BY <2>1, <2>6
      <3>3. AsSent(s, h, b, Append(w, SubSeq(u, 1, n)), SubSeq(u, n + 1, Len(u)))
        BY <2>2, <3>1, <3>2, SendAsSent
      <3> QED
        BY <1>2, <2>1, <2>3, <2>4, <2>6, <3>3
    <2>7. /\ handled'[s] = h /\ source_buffer'[s] = b /\ faults'[s] \in Nat /\ garbled'[s] \in Nat
          /\ faults'[s] = 0 => AsSent(s, h, b, v, r) /\ (parsing' # s => Waiting(s, h, b))
      BY <1>2, <2>1, <2>6, StreamParts DEF StreamOK
    <2> QED
      BY <1>2, <2>5, <2>7, StreamNext
  <1>5. OfSources(net)' /\ OfSources(unsent)'
    BY <1>1 DEF StreamInv, OfSources
  <1>6. \A x \in Sources : StreamOK(x)' /\ InOrder(x)'
    BY <1>3, <1>4
  <1> QED
    BY <1>2, <1>5, <1>6 DEF StreamInv, OfSources

LEMMA LoseKeeps ==
  ASSUME StreamInv, NEW s \in Sources, Lose(s)
  PROVE  StreamInv'
  <1>1. PICK i \in 1 .. Len(net[s]) : net' = [net EXCEPT ![s] = RemoveAt(@, i)]
    BY DEF Lose
  <1>2. /\ faults' = [faults EXCEPT ![s] = @ + 1]
        /\ UNCHANGED <<sending, unsent, source_buffer, parsing, handled, garbled>>
    BY DEF Lose, taskVars
  <1>3. ASSUME NEW x \in Sources, x # s PROVE StreamOK(x)' /\ InOrder(x)'
    BY <1>1, <1>2, <1>3, StreamStays DEF StreamInv, OfSources
  <1>4. StreamOK(s)' /\ InOrder(s)'
    <2>1. PICK h \in Seq(Nat), b \in Seq(Sent(s)), w \in Seq(Seq(Sent(s))), u \in Seq(Sent(s)) :
            h = handled[s] /\ b = source_buffer[s] /\ w = net[s] /\ u = unsent[s]
      BY StreamParts
    <2>2. PICK v \in Seq(Seq(Sent(s))) : v = RemoveAt(w, i)
      BY <1>1, <2>1, RemoveAtRange
    <2>3. net'[s] = v
      BY <1>1, <2>1, <2>2 DEF StreamInv, OfSources
    <2>4. faults'[s] \in Nat /\ faults'[s] # 0 /\ garbled'[s] \in Nat
      <3>1. faults[s] \in Nat /\ garbled[s] \in Nat
        BY StreamParts DEF StreamOK
      <3> QED
        BY <1>2, <3>1 DEF StreamInv, OfSources
    <2>5. handled'[s] = h /\ source_buffer'[s] = b /\ unsent'[s] = u
      BY <1>2, <2>1
    <2> QED
      BY <1>2, <2>3, <2>4, <2>5, StreamNext
  <1>5. OfSources(net)' /\ OfSources(faults)'
    BY <1>1, <1>2 DEF StreamInv, OfSources
  <1>6. \A x \in Sources : StreamOK(x)' /\ InOrder(x)'
    BY <1>3, <1>4
  <1> QED
    BY <1>2, <1>5, <1>6 DEF StreamInv, OfSources

LEMMA ReceiveKeeps ==
  ASSUME StreamInv, NEW s \in Sources, Receive(s)
  PROVE  StreamInv'
  <1>1. PICK i \in 1 .. Len(net[s]) :
          /\ faults' = [faults EXCEPT ![s] = IF i > 1 THEN @ + 1 ELSE @]
          /\ source_buffer' = [source_buffer EXCEPT ![s] = @ \o net[s][i]]
          /\ net' = [net EXCEPT ![s] = RemoveAt(@, i)]
    BY DEF Receive
  <1>2. parsing = None /\ parsing' = s /\ UNCHANGED <<sending, unsent, handled, garbled>>
    BY DEF Receive
  <1>3. ASSUME NEW x \in Sources, x # s PROVE StreamOK(x)' /\ InOrder(x)'
    <2>1. parsing # x
      BY <1>2, SizesTyped
    <2> QED
      BY <1>1, <1>2, <1>3, <2>1, StreamStays DEF StreamInv, OfSources
  <1>4. StreamOK(s)' /\ InOrder(s)'
    <2>1. PICK h \in Seq(Nat), b \in Seq(Sent(s)), w \in Seq(Seq(Sent(s))), u \in Seq(Sent(s)) :
            /\ h = handled[s] /\ b = source_buffer[s] /\ w = net[s] /\ u = unsent[s]
            /\ faults[s] = 0 =>
                 /\ AsSent(s, h, b, w, u) /\ (parsing # s => Waiting(s, h, b))
                 /\ \E a \in Seq(Sent(s)) : a = First(s, Len(h))
      BY StreamParts
    <2>2. PICK v \in Seq(Seq(Sent(s))) : v = RemoveAt(w, i)
      BY <1>1, <2>1, RemoveAtRange
    <2>3. PICK d \in Seq(Sent(s)) : d = w[i]
      BY <1>1, <2>1, ElementOfSeq
    <2>4. PICK c \in Seq(Sent(s)) : c = b \o d
      BY ConcatProperties
    <2>5. net'[s] = v /\ source_buffer'[s] = c
      BY <1>1, <2>1, <2>2, <2>3, <2>4 DEF StreamInv, OfSources
    <2>6. /\ faults[s] \in Nat /\ garbled[s] \in Nat
          /\ faults'[s] = IF i > 1 THEN faults[s] + 1 ELSE faults[s]
      BY <1>1, StreamParts DEF StreamInv, OfSources, StreamOK
    <2>7. ASSUME faults'[s] = 0 PROVE AsSent(s, h, c, v, u)
      <3>1. i = 1 /\ faults[s] = 0
        BY <1>1, <2>6, <2>7, LenProperties
      <3>2. PICK a \in Seq(Sent(s)) : a = First(s, Len(h))
        BY <2>1, <3>1
      <3>3. AsSent(s, h, b, w, u) /\ 1 \in 1 .. Len(w)
        BY <1>1, <2>1, <3>1
      <3>4. AsSent(s, h, b \o w[1], RemoveAt(w, 1), u)
        BY <3>2, <3>3, ReceiveAsSent
      <3> QED
        BY <2>2, <2>3, <2>4, <3>1, <3>4
    <2>8. faults'[s] = 0 => AsSent(s, h, c, v, u) /\ (parsing' # s => Waiting(s, h, c))
      BY <1>2, <2>7
    <2>9. handled'[s] = h /\ unsent'[s] = u /\ faults'[s] \in Nat /\ garbled'[s] \in Nat
      BY <1>2, <2>1, <2>6
    <2> QED
      BY <1>2, <2>5, <2>8, <2>9, StreamNext
  <1>5. OfSources(net)' /\ OfSources(faults)' /\ OfSources(source_buffer)'
    BY <1>1 DEF StreamInv, OfSources
  <1>6. \A x \in Sources : StreamOK(x)' /\ InOrder(x)'
    BY <1>3, <1>4
  <1> QED
    BY <1>2, <1>5, <1>6 DEF StreamInv, OfSources

LEMMA CutMessageKeeps ==
  ASSUME StreamInv, CutMessage
  PROVE  StreamInv'
  <1>1. PICK s \in Sources : s = parsing
    BY DEF CutMessage, StreamInv
  <1>2. PICK m \in Complete(s) :
          LET b == source_buffer[s]
              origin == Origin(s, SubSeq(b, 1, m.size))
          IN /\ handled' = [handled EXCEPT ![s] = Append(@, origin)]
             /\ garbled' = [garbled EXCEPT ![s] = IF origin = 0 THEN @ + 1 ELSE @]
             /\ source_buffer' = [source_buffer EXCEPT ![s] = SubSeq(b, m.size + 1, Len(b))]
             /\ GoOn(s)
    BY <1>1 DEF CutMessage
  <1>3. UNCHANGED <<sending, unsent, net, faults>>
    BY DEF CutMessage, wireVars
  <1>4. parsing' = IF source_buffer'[s] = <<>> THEN None ELSE s
    BY <1>2 DEF GoOn
  <1>5. ASSUME NEW x \in Sources, x # s PROVE StreamOK(x)' /\ InOrder(x)'
    <2>1. parsing # x
      BY <1>1, <1>5
    <2> QED
      BY <1>2, <1>3, <1>5, <2>1, StreamStays DEF StreamInv, OfSources
  <1>6. StreamOK(s)' /\ InOrder(s)'
    <2>1. PICK h \in Seq(Nat), b \in Seq(Sent(s)), w \in Seq(Seq(Sent(s))), u \in Seq(Sent(s)) :
            /\ h = handled[s] /\ b = source_buffer[s] /\ w = net[s] /\ u = unsent[s]
            /\ faults[s] = 0 =>
                 /\ AsSent(s, h, b, w, u) /\ (parsing # s => Waiting(s, h, b))
                 /\ \E a \in Seq(Sent(s)) : a = First(s, Len(h))
      BY StreamParts
    <2>2. sending \in Cases /\ StreamOK(s)
      BY StreamParts
    <2>3. Len(b) >= HeadSize /\ m \in Headers(s) /\ m.size <= Len(b)
      <3>1. Len(b) \in Nat
        BY LenProperties
      <3> QED
        BY <1>2, <2>1, <3>1, SizesTyped DEF Complete
    <2>4. PICK z \in Nat : z = m.size
      BY <2>1, <2>2, <2>3, HeaderTyped
    <2>5. PICK c \in Seq(Sent(s)), d \in Seq(Sent(s)) :
            c = SubSeq(b, 1, z) /\ d = SubSeq(b, z + 1, Len(b))
      <3>1. z \in 0 .. Len(b)
        BY <2>3, <2>4, LenProperties
      <3> QED
        BY <3>1, CutInTwo
    <2>6. PICK o \in Nat : o = Origin(s, c)
      BY <2>2, OriginTyped
    <2>7. PICK q \in Seq(Nat) : q = Append(h, o)
      BY AppendProperties
    <2>8. handled'[s] = q /\ source_buffer'[s] = d /\ garbled'[s] \in Nat
      <3>1. garbled[s] \in Nat
        BY <2>2 DEF StreamOK
      <3>2. /\ handled' = [handled EXCEPT ![s] = Append(@, o)]
            /\ garbled' = [garbled EXCEPT ![s] = IF o = 0 THEN @ + 1 ELSE @]
            /\ source_buffer' = [source_buffer EXCEPT ![s] = d]
        BY <1>2, <2>1, <2>4, <2>5, <2>6
      <3>3. handled'[s] = q /\ source_buffer'[s] = d
        BY <2>1, <2>7, <3>2 DEF StreamInv, OfSources
      <3>4. garbled'[s] = IF o = 0 THEN garbled[s] + 1 ELSE garbled[s]
        BY <3>2 DEF StreamInv, OfSources
      <3> QED
        BY <3>1, <3>3, <3>4
    <2>9. ASSUME faults[s] = 0 PROVE AsSent(s, q, d, w, u)
      <3>1. AsSent(s, h, b, w, u)
        BY <2>1, <2>9
      <3>2. Headers(s) = {Script(s)[Len(h) + 1]}
        BY <2>1, <2>2, <2>3, <3>1, HeaderKnown
      <3>3. z = Script(s)[Len(h) + 1].size /\ z <= Len(b)
        BY <2>3, <2>4, <3>2
      <3>4. /\ Origin(s, SubSeq(b, 1, z)) = Len(h) + 1
            /\ AsSent(s, Append(h, Len(h) + 1), SubSeq(b, z + 1, Len(b)), w, u)
        BY <2>2, <2>3, <3>1, <3>3, CutAsSent
      <3> QED
        BY <2>5, <2>6, <2>7, <3>4
    <2>10. ASSUME parsing' # s PROVE Waiting(s, q, d)
      <3>1. d = <<>>
        BY <1>4, <2>8, <2>10
      <3>2. Len(d) = 0
        BY <3>1
      <3> QED
        BY <3>2, SizesTyped DEF Waiting
    <2>11. /\ net'[s] = w /\ unsent'[s] = u /\ faults'[s] \in Nat /\ faults'[s] = faults[s]
      BY <1>3, <2>1, <2>2 DEF StreamOK
    <2>12. faults'[s] = 0 => AsSent(s, q, d, w, u) /\ (parsing' # s => Waiting(s, q, d))
      BY <2>9, <2>10, <2>11
    <2> QED
      BY <1>3, <2>8, <2>11, <2>12, StreamNext
  <1>7. OfSources(handled)' /\ OfSources(garbled)' /\ OfSources(source_buffer)'
    BY <1>2 DEF StreamInv, OfSources
  <1>8. \A x \in Sources : StreamOK(x)' /\ InOrder(x)'
    BY <1>5, <1>6
  <1>9. parsing' \in Sources \cup {None}
    BY <1>4
  <1> QED
    BY <1>3, <1>7, <1>8, <1>9 DEF StreamInv, OfSources

LEMMA FlushKeeps ==
  ASSUME StreamInv, Flush
  PROVE  StreamInv'
  <1>1. PICK s \in Sources : s = parsing
    BY DEF Flush, StreamInv
  <1>2. /\ source_buffer' = [source_buffer EXCEPT ![s] = <<>>]
        /\ faults' = [faults EXCEPT ![s] = MaxFaults + 1]
        /\ parsing' = None /\ UNCHANGED <<sending, unsent, net, handled, garbled>>
    BY <1>1 DEF Flush
  <1>3. ASSUME NEW x \in Sources, x # s PROVE StreamOK(x)' /\ InOrder(x)'
    <2>1. parsing # x
      BY <1>1, <1>3
    <2> QED
      BY <1>2, <1>3, <2>1, StreamStays DEF StreamInv, OfSources
  <1>4. StreamOK(s)' /\ InOrder(s)'
    <2>1. PICK h \in Seq(Nat), b \in Seq(Sent(s)), w \in Seq(Seq(Sent(s))), u \in Seq(Sent(s)) :
            h = handled[s] /\ b = source_buffer[s] /\ w = net[s] /\ u = unsent[s]
      BY StreamParts
    <2>2. PICK e \in Seq(Sent(s)) : e = <<>>
      BY EmptySeq
    <2>3. /\ source_buffer'[s] = e /\ faults'[s] = MaxFaults + 1
          /\ handled'[s] = h /\ net'[s] = w /\ unsent'[s] = u /\ garbled'[s] \in Nat
      BY <1>2, <2>1, <2>2, StreamParts DEF StreamInv, OfSources, StreamOK
    <2>4. faults'[s] \in Nat /\ faults'[s] # 0
      BY <2>3, SizesTyped
    <2> QED
      BY <1>2, <2>3, <2>4, StreamNext
  <1>5. OfSources(faults)' /\ OfSources(source_buffer)'
    BY <1>2 DEF StreamInv, OfSources
  <1>6. \A x \in Sources : StreamOK(x)' /\ InOrder(x)'
    BY <1>3, <1>4
  <1> QED
    BY <1>2, <1>5, <1>6 DEF StreamInv, OfSources

LEMMA WaitKeeps ==
  ASSUME StreamInv, Wait
  PROVE  StreamInv'
  <1>1. PICK s \in Sources : s = parsing
    BY DEF Wait, StreamInv
  <1>2. parsing' = None /\ UNCHANGED <<sending, unsent, net, source_buffer, handled, faults, garbled>>
    BY DEF Wait, wireVars
  <1>3. \/ Len(source_buffer[s]) < HeadSize
        \/ /\ ~(Len(source_buffer[s]) < HeadSize)
           /\ \E m \in Headers(s) : m.size > Len(source_buffer[s])
    BY <1>1 DEF Wait
  <1>4. ASSUME NEW x \in Sources, x # s PROVE StreamOK(x)' /\ InOrder(x)'
    <2>1. parsing # x
      BY <1>1, <1>4
    <2> QED
      BY <1>2, <1>4, <2>1, StreamStays DEF StreamInv, OfSources
  <1>5. StreamOK(s)' /\ InOrder(s)'
    <2>1. PICK h \in Seq(Nat), b \in Seq(Sent(s)), w \in Seq(Seq(Sent(s))), u \in Seq(Sent(s)) :
            /\ h = handled[s] /\ b = source_buffer[s] /\ w = net[s] /\ u = unsent[s]
            /\ faults[s] = 0 =>
                 /\ AsSent(s, h, b, w, u) /\ (parsing # s => Waiting(s, h, b))
                 /\ \E a \in Seq(Sent(s)) : a = First(s, Len(h))
      BY StreamParts
    <2>2. sending \in Cases /\ StreamOK(s) /\ Len(b) \in Nat
      BY StreamParts, LenProperties
    <2>3. ASSUME faults[s] = 0 PROVE AsSent(s, h, b, w, u) /\ Waiting(s, h, b)
      <3>1. AsSent(s, h, b, w, u)
        BY <2>1, <2>3
      <3>2. ASSUME Len(b) >= HeadSize PROVE Len(b) < Script(s)[Len(h) + 1].size
        <4>1. /\ Len(h) \in Nat /\ Len(h) < Len(Script(s))
              /\ Headers(s) = {Script(s)[Len(h) + 1]}
          BY <2>1, <2>2, <3>1, <3>2, HeaderKnown
        <4>2. Script(s)[Len(h) + 1].size \in Nat
          <5>1. Len(h) + 1 \in 1 .. Len(Script(s))
            BY <2>2, <4>1, ScriptTyped
          <5> QED
            BY <2>2, <5>1, ScriptTyped
        <4>3. PICK m \in Headers(s) : m.size > Len(b)
          BY <1>3, <2>1, <2>2, <3>2, SizesTyped
        <4> QED
          BY <2>2, <4>1, <4>2, <4>3
      <3> QED
        BY <3>1, <3>2 DEF Waiting
    <2>4. /\ handled'[s] = h /\ source_buffer'[s] = b /\ net'[s] = w /\ unsent'[s] = u
          /\ faults'[s] = faults[s] /\ faults'[s] \in Nat /\ garbled'[s] \in Nat
      BY <1>2, <2>1, <2>2 DEF StreamOK
    <2>5. faults'[s] = 0 => AsSent(s, h, b, w, u) /\ (parsing' # s => Waiting(s, h, b))
      BY <2>3, <2>4
    <2> QED
      BY <1>2, <2>4, <2>5, StreamNext
  <1>6. \A x \in Sources : StreamOK(x)' /\ InOrder(x)'
    BY <1>4, <1>5
  <1> QED
    BY <1>2, <1>6 DEF StreamInv, OfSources

LEMMA StreamInit == Init => StreamInv
  <1> SUFFICES ASSUME Init PROVE StreamInv
    OBVIOUS
  <1>1. ASSUME NEW s \in Sources PROVE StreamOK(s) /\ InOrder(s)
    <2>1. sending \in Cases /\ 0 \in 0 .. Len(Script(s))
      BY ScriptTyped DEF Init
    <2>2. PICK e \in Seq(Sent(s)), wire \in Seq(Sent(s)) :
            /\ e = <<>> /\ Len(e) = 0 /\ e = First(s, 0) /\ wire = Wire(s)
      BY <2>1, WireTyped, EmptySeq
    <2>3. /\ unsent[s] = wire /\ net[s] = <<>> /\ source_buffer[s] = e /\ handled[s] = <<>>
          /\ faults[s] = 0 /\ garbled[s] = 0
      BY <2>2 DEF Init
    <2>4. StreamOK(s)
      BY <2>3 DEF StreamOK
    <2>5. First(s, Len(handled[s])) \o source_buffer[s] = e
      <3>1. Len(handled[s]) = 0
        BY <2>3
      <3> QED
        BY <2>2, <2>3, <3>1, ConcatEmptySeq
    <2>6. ((First(s, Len(handled[s])) \o source_buffer[s]) \o FlattenSeq(net[s])) \o unsent[s]
            = Wire(s)
      <3>1. FlattenSeq(net[s]) = e
        BY <2>2, <2>3, FlattenOfNone
      <3>2. e \o e = e /\ e \o wire = wire
        BY <2>2, ConcatEmptySeq
      <3> QED
        BY <2>2, <2>3, <2>5, <3>1, <3>2
    <2>7. Len(handled[s]) = 0 /\ Len(source_buffer[s]) = 0
      BY <2>2, <2>3
    <2>8. AsSent(s, handled[s], source_buffer[s], net[s], unsent[s])
      BY <2>1, <2>6, <2>7, ScriptTyped DEF AsSent
    <2>9. Waiting(s, handled[s], source_buffer[s])
      BY <2>7, SizesTyped DEF Waiting
    <2> QED
      BY <2>4, <2>8, <2>9 DEF InOrder
  <1> QED
    BY <1>1 DEF Init, StreamInv, OfSources

LEMMA NextStream == StreamInv /\ [Next]_vars => StreamInv'
  <1> SUFFICES ASSUME StreamInv, [Next]_vars PROVE StreamInv'
    OBVIOUS
  <1>1. ASSUME NEW s \in Sources, Send(s) \/ Lose(s) \/ Receive(s) PROVE StreamInv'
    BY <1>1, SendKeeps, LoseKeeps, ReceiveKeeps
  <1>2. CASE Receiver
    BY <1>2, CutMessageKeeps, FlushKeeps, WaitKeeps DEF Receiver
  <1>3. CASE UNCHANGED <<wireVars, source_buffer, parsing, handled, garbled>>
    <2>1. UNCHANGED <<sending, unsent, net, faults, source_buffer, parsing, handled, garbled>>
      BY <1>3 DEF wireVars
    <2>2. \A x \in Sources : StreamOK(x)' /\ InOrder(x)'
      BY <2>1, StreamStays
    <2> QED
      BY <2>1, <2>2 DEF StreamInv, OfSources
  <1>4. CASE Server
    <2>1. PICK t \in tasks : Serve(t) \/ FinishTask(t)
      BY <1>4 DEF Server
    <2> QED
      BY <1>3, <2>1 DEF Serve, FinishTask
  <1>5. CASE Turn
    BY <1>3, <1>5 DEF Turn, taskVars
  <1>6. CASE Cleaner
    BY <1>3, <1>6 DEF Cleaner, Clean, PutBack, taskVars
  <1>7. CASE UNCHANGED vars
    BY <1>3, <1>7 DEF vars, taskVars
  <1> QED
    BY <1>1, <1>2, <1>4, <1>5, <1>6, <1>7 DEF Next

(* Whatever datagrams a source makes of its messages and whenever they     *)
(* arrive, each message is cut off once, in the order they were sent, and  *)
(* none that is complete waits (hs_udp.go:169-217), as long as no datagram *)
(* was lost or overtaken.                                                  *)
THEOREM MessagesHandledAsSent == Spec => []HandledAsSent
  <1>1. StreamInv => HandledAsSent
    <2> SUFFICES ASSUME StreamInv, NEW s \in Sources, faults[s] = 0
                 PROVE  /\ \A i \in 1 .. Len(handled[s]) : handled[s][i] = i
                        /\ First(s, Len(handled[s])) \o source_buffer[s]
                             \o FlattenSeq(net[s]) \o unsent[s] = Wire(s)
                        /\ parsing # s /\ Len(source_buffer[s]) >= HeadSize =>
                             Len(source_buffer[s]) < Script(s)[Len(handled[s]) + 1].size
      BY DEF HandledAsSent, First
    <2>1. /\ AsSent(s, handled[s], source_buffer[s], net[s], unsent[s])
          /\ parsing # s => Waiting(s, handled[s], source_buffer[s])
      BY DEF StreamInv, InOrder
    <2> QED
      BY <2>1 DEF AsSent, Waiting
  <1> QED
    BY <1>1, StreamInit, NextStream, PTL DEF Spec

-----------------------------------------------------------------------------
(* Goroutines that serve, and the entries they are pending in              *)

LEMMA ServedFinite ==
  ASSUME TasksOK, NEW s
  PROVE  /\ IsFiniteSet(Served(s)) /\ Cardinality(Served(s)) \in Nat
         /\ IsFiniteSet({t \in tasks : t.source = s})
         /\ Cardinality(Served(s)) <= Cardinality({t \in tasks : t.source = s})
         /\ Cardinality({t \in tasks : t.source = s}) \in Nat
  <1> DEFINE all == {t \in tasks : t.source = s}
  <1>1. all \subseteq tasks /\ Served(s) \subseteq all
    BY DEF Served
  <1>2. IsFiniteSet(tasks)
    BY DEF TasksOK
  <1> HIDE DEF all
  <1>3. IsFiniteSet(all)
    BY <1>1, <1>2, FS_Subset
  <1>4. IsFiniteSet(Served(s)) /\ Cardinality(Served(s)) <= Cardinality(all)
    BY <1>1, <1>3, FS_Subset
  <1> QED
    BY <1>3, <1>4, FS_CardinalityType DEF all

(* A message that is cut off gets a number no other of its source has.     *)
LEMMA NewTask ==
  ASSUME TasksOK, NEW s \in Sources, NEW ok \in BOOLEAN,
         \A x \in Sources : Len(handled[x]) \in Nat,
         NEW d, d = [source |-> s, num |-> Len(handled[s]) + 1, ok |-> ok, stage |-> "begun"],
         tasks' = tasks \cup {d}, Len(handled'[s]) = Len(handled[s]) + 1,
         \A x \in Sources : x # s => Len(handled'[x]) = Len(handled[x])
  PROVE  TasksOK' /\ \A x : Served(x)' = Served(x)
  <1>1. /\ d.source = s /\ d.num = Len(handled[s]) + 1 /\ d.stage = "begun"
        /\ d \in [source : Sources, num : Nat, ok : BOOLEAN, stage : {"begun", "served"}]
    OBVIOUS
  <1>2. \A t \in tasks : t.source \in Sources /\ t.num \in Nat /\ t.num <= Len(handled[t.source])
    BY DEF TasksOK
  <1>3. \A t \in tasks : t.num <= Len(handled'[t.source])
    <2> SUFFICES ASSUME NEW t \in tasks PROVE t.num <= Len(handled'[t.source])
      OBVIOUS
    <2>1. t.source \in Sources /\ t.num \in Nat /\ t.num <= Len(handled[t.source])
      BY <1>2
    <2>2. PICK x \in Sources, l \in Nat : x = t.source /\ l = Len(handled[x])
      BY <2>1
    <2> QED
      BY <2>1, <2>2
  <1>4. \A t \in tasks : t.source = s => t.num # d.num
    BY <1>1, <1>2
  <1>5. IsFiniteSet(tasks')
    BY FS_AddElement DEF TasksOK
  <1>6. TasksOK'
    <2>1. tasks' \subseteq [source : Sources, num : Nat, ok : BOOLEAN, stage : {"begun", "served"}]
      BY <1>1 DEF TasksOK
    <2>2. \A t \in tasks' : t.num <= Len(handled'[t.source])
      BY <1>1, <1>3
    <2>3. \A t \in tasks', u \in tasks' : t.source = u.source /\ t.num = u.num => t = u
      <3> SUFFICES ASSUME NEW t \in tasks', NEW u \in tasks', t.source = u.source, t.num = u.num
                   PROVE  t = u
        OBVIOUS
      <3>1. CASE t \in tasks /\ u \in tasks
        BY <3>1 DEF TasksOK
      <3>2. CASE t = d \/ u = d
        BY <1>1, <1>4, <3>2
      <3> QED
        BY <3>1, <3>2
    <2> QED
      BY <1>5, <2>1, <2>2, <2>3 DEF TasksOK
  <1>7. ASSUME NEW x PROVE Served(x)' = Served(x)
    BY <1>1 DEF Served
  <1> QED
    BY <1>6, <1>7

(* One that calls its handler is pending from then on.                     *)
LEMMA TaskServed ==
  ASSUME TasksOK, NEW t \in tasks, t.stage = "begun",
         NEW d, d = [t EXCEPT !.stage = "served"], tasks' = (tasks \ {t}) \cup {d},
         handled' = handled
  PROVE  /\ TasksOK'
         /\ Cardinality(Served(t.source)') = Cardinality(Served(t.source)) + 1
         /\ \A x : x # t.source => Served(x)' = Served(x)
  <1>1. t \in [source : Sources, num : Nat, ok : BOOLEAN, stage : {"begun", "served"}]
    BY DEF TasksOK
  <1>2. /\ d.source = t.source /\ d.num = t.num /\ d.stage = "served"
        /\ d \in [source : Sources, num : Nat, ok : BOOLEAN, stage : {"begun", "served"}]
    BY <1>1
  <1>3. d \notin tasks
    <2>1. ASSUME d \in tasks PROVE d = t
      BY <1>2, <2>1 DEF TasksOK
    <2> QED
      BY <1>2, <2>1
  <1>4. TasksOK'
    <2>1. IsFiniteSet(tasks')
      <3>1. IsFiniteSet(tasks \ {t})
        BY FS_RemoveElement DEF TasksOK
      <3> QED
        BY <3>1, FS_AddElement
    <2>2. tasks' \subseteq [source : Sources, num : Nat, ok : BOOLEAN, stage : {"begun", "served"}]
      BY <1>2 DEF TasksOK
    <2>3. \A u \in tasks' : u.num <= Len(handled'[u.source])
      BY <1>2 DEF TasksOK
    <2>4. \A u \in tasks', v \in tasks' : u.source = v.source /\ u.num = v.num => u = v
      <3> SUFFICES ASSUME NEW u \in tasks', NEW v \in tasks', u.source = v.source, u.num = v.num
                   PROVE  u = v
        OBVIOUS
      <3>1. CASE u \in tasks \ {t} /\ v \in tasks \ {t}
        BY <3>1 DEF TasksOK
      <3>2. ASSUME NEW y \in tasks \ {t} PROVE ~(y.source = d.source /\ y.num = d.num)
        BY <1>2, <3>2 DEF TasksOK
      <3> QED
        BY <3>1, <3>2
    <2> QED
      BY <2>1, <2>2, <2>3, <2>4 DEF TasksOK
  <1>5. Served(t.source)' = Served(t.source) \cup {d} /\ d \notin Served(t.source)
    BY <1>2, <1>3 DEF Served
  <1>6. Cardinality(Served(t.source) \cup {d}) = Cardinality(Served(t.source)) + 1
    BY <1>5, ServedFinite, FS_AddElement
  <1>7. ASSUME NEW x, x # t.source PROVE Served(x)' = Served(x)
    BY <1>2, <1>7 DEF Served
  <1> QED
    BY <1>4, <1>5, <1>6, <1>7

LEMMA TaskEnded ==
  ASSUME TasksOK, NEW t \in tasks, t.stage = "served", tasks' = tasks \ {t},
         handled' = handled
  PROVE  /\ TasksOK'
         /\ Cardinality(Served(t.source)') = Cardinality(Served(t.source)) - 1
         /\ \A x : x # t.source => Served(x)' = Served(x)
  <1>1. TasksOK'
    <2>1. IsFiniteSet(tasks')
      BY FS_RemoveElement DEF TasksOK
    <2> QED
      BY <2>1 DEF TasksOK
  <1>2. Served(t.source)' = Served(t.source) \ {t} /\ t \in Served(t.source)
    BY DEF Served
  <1>3. Cardinality(Served(t.source) \ {t}) = Cardinality(Served(t.source)) - 1
    BY <1>2, ServedFinite, FS_RemoveElement
  <1>4. ASSUME NEW x, x # t.source PROVE Served(x)' = Served(x)
    BY <1>4 DEF Served
  <1> QED
    BY <1>1, <1>2, <1>3, <1>4

(* What the end of a message does to the count of its source.              *)
LEMMA FinishedCounts ==
  ASSUME udpStats \in [Sources -> Status \cup {None}], NEW s \in Sources, NEW ok \in BOOLEAN,
         Finished(udpStats, s, ok)
  PROVE  /\ udpStats' \in [Sources -> Status \cup {None}]
         /\ \A x \in Sources : x # s => udpStats'[x] = udpStats[x]
         /\ udpStats'[s] # None =>
              /\ udpStats[s] # None /\ udpStats[s].pending \in Int
              /\ udpStats'[s].pending = udpStats[s].pending - 1
  <1>1. CASE udpStats[s] = None
    <2>1. udpStats' = udpStats
      BY <1>1 DEF Finished
    <2> QED
      BY <1>1, <2>1
  <1>2. CASE udpStats[s] # None
    <2>1. udpStats[s].status \in {"O", "P", "F", "X"} /\ udpStats[s].pending \in Int
      BY <1>2 DEF Status
    <2>2. PICK left \in Int : left = udpStats[s].pending - 1
      BY <2>1
    <2> DEFINE status == IF ~(~ok \/ left <= 0) THEN udpStats[s].status
                         ELSE IF ok THEN "F" ELSE "X"
    <2>3. udpStats' = [udpStats EXCEPT ![s] = [status |-> status, pending |-> left]]
      BY <1>2, <2>2 DEF Finished
    <2>4. status \in {"O", "P", "F", "X"}
      BY <2>1
    <2> HIDE DEF status
    <2>5. PICK e \in Status : e = [status |-> status, pending |-> left] /\ e.pending = left
      <3>1. PICK e : e = [status |-> status, pending |-> left]
        OBVIOUS
      <3>2. e \in Status /\ e.pending = left
        BY <2>4, <3>1 DEF Status
      <3> QED
        BY <3>1, <3>2
    <2>6. udpStats' = [udpStats EXCEPT ![s] = e]
      BY <2>3, <2>5
    <2> QED
      BY <1>2, <2>1, <2>2, <2>5, <2>6
  <1> QED
    BY <1>1, <1>2

LEMMA RequestedCounts ==
  ASSUME udpStats \in [Sources -> Status \cup {None}], NEW s \in Sources
  PROVE  /\ Requested(udpStats, s) \in [Sources -> Status \cup {None}]
         /\ \A x \in Sources : x # s => Requested(udpStats, s)[x] = udpStats[x]
         /\ Requested(udpStats, s)[s] # None =>
              /\ udpStats[s] # None /\ udpStats[s].pending \in Int
              /\ Requested(udpStats, s)[s].pending = udpStats[s].pending + 1
  <1>1. CASE udpStats[s] = None
    BY <1>1 DEF Requested
  <1>2. CASE udpStats[s] # None
    <2>1. udpStats[s].pending \in Int
      BY <1>2 DEF Status
    <2>2. PICK more \in Int : more = udpStats[s].pending + 1
      BY <2>1
    <2>3. Requested(udpStats, s) = [udpStats EXCEPT ![s] = [status |-> "P", pending |-> more]]
      BY <1>2, <2>2 DEF Requested
    <2>4. PICK e \in Status : e = [status |-> "P", pending |-> more] /\ e.pending = more
      <3>1. PICK e : e = [status |-> "P", pending |-> more]
        OBVIOUS
      <3>2. e \in Status /\ e.pending = more
        BY <3>1 DEF Status
      <3> QED
        BY <3>1, <3>2
    <2>5. Requested(udpStats, s) = [udpStats EXCEPT ![s] = e]
      BY <2>3, <2>4
    <2> QED
      BY <1>2, <2>1, <2>2, <2>4, <2>5
  <1> QED
    BY <1>1, <1>2

LEMMA CutMessageCounted ==
  ASSUME StreamInv, TaskInv, CutMessage
  PROVE  TaskInv'
  <1>1. PICK s \in Sources : s = parsing
    BY DEF CutMessage, StreamInv
  <1>2. PICK m \in Complete(s) : \E origin :
          /\ handled' = [handled EXCEPT ![s] = Append(@, origin)]
          /\ tasks' = tasks \cup {[source |-> s, num |-> Len(handled[s]) + 1,
                                   ok |-> m.ok, stage |-> "begun"]}
          /\ udpStats' = IF Version(s) = 2 THEN Begun(udpStats, s) ELSE udpStats
          /\ origin = Origin(s, SubSeq(source_buffer[s], 1, m.size))
    <2>1. PICK m \in Complete(s) :
            LET b == source_buffer[s]
                origin == Origin(s, SubSeq(b, 1, m.size))
            IN /\ handled' = [handled EXCEPT ![s] = Append(@, origin)]
               /\ tasks' = tasks \cup {[source |-> s, num |-> Len(handled[s]) + 1,
                                        ok |-> m.ok, stage |-> "begun"]}
               /\ udpStats' = IF Version(s) = 2 THEN Begun(udpStats, s) ELSE udpStats
      BY <1>1 DEF CutMessage
    <2>2. PICK origin : origin = Origin(s, SubSeq(source_buffer[s], 1, m.size))
      OBVIOUS
    <2> QED
      BY <2>1, <2>2
  <1>3. PICK origin :
          /\ handled' = [handled EXCEPT ![s] = Append(@, origin)]
          /\ tasks' = tasks \cup {[source |-> s, num |-> Len(handled[s]) + 1,
                                   ok |-> m.ok, stage |-> "begun"]}
          /\ udpStats' = IF Version(s) = 2 THEN Begun(udpStats, s) ELSE udpStats
          /\ origin = Origin(s, SubSeq(source_buffer[s], 1, m.size))
    BY <1>2
  <1>4. m.ok \in BOOLEAN
    <2>1. sending \in Cases /\ StreamOK(s)
      BY StreamParts
    <2>2. Len(source_buffer[s]) >= HeadSize /\ m \in Headers(s)
      <3>1. Len(source_buffer[s]) \in Nat
        BY <2>1, LenProperties DEF StreamOK
      <3> QED
        BY <1>3, <3>1, SizesTyped DEF Complete
    <2> QED
      BY <2>1, <2>2, HeaderTyped
  <1>5. \A x \in Sources : handled[x] \in Seq(Nat) /\ Len(handled[x]) \in Nat
    BY LenProperties DEF StreamInv, StreamOK
  <1>6. origin \in Nat
    BY <1>3, OriginTyped DEF StreamInv
  <1>7. Len(handled'[s]) = Len(handled[s]) + 1
    <2>1. PICK h \in Seq(Nat) : h = handled[s]
      BY <1>5
    <2>2. handled'[s] = Append(h, origin)
      BY <1>3, <2>1 DEF StreamInv, OfSources
    <2> QED
      BY <1>6, <2>1, <2>2, AppendProperties
  <1>8. \A x \in Sources : x # s => Len(handled'[x]) = Len(handled[x])
    BY <1>3 DEF StreamInv, OfSources
  <1>9. PICK d : d = [source |-> s, num |-> Len(handled[s]) + 1, ok |-> m.ok, stage |-> "begun"]
    OBVIOUS
  <1>10. TasksOK' /\ \A x : Served(x)' = Served(x)
    BY <1>3, <1>4, <1>5, <1>7, <1>8, <1>9, NewTask DEF TaskInv
  <1>11. StatsOK'
    <2>1. \A x \in Sources : Cardinality(Served(x)') = Cardinality(Served(x))
      BY <1>10
    <2>2. CASE udpStats' = udpStats
      BY <2>1, <2>2 DEF TaskInv, StatsOK
    <2>3. CASE udpStats' = Begun(udpStats, s)
      <3>1. PICK e \in Status : e = [status |-> "O", pending |-> 0] /\ e.pending = 0
        <4>1. PICK e : e = [status |-> "O", pending |-> 0]
          OBVIOUS
        <4>2. e \in Status /\ e.pending = 0
          BY <4>1 DEF Status
        <4> QED
          BY <4>1, <4>2
      <3>2. udpStats' = [udpStats EXCEPT ![s] = e] /\ udpStats \in [Sources -> Status \cup {None}]
        BY <2>3, <3>1 DEF Begun, TaskInv, StatsOK
      <3>3. 0 <= Cardinality(Served(s))
        <4>1. Cardinality(Served(s)) \in Nat
          BY ServedFinite DEF TaskInv
        <4> QED
          BY <4>1
      <3>4. \A x \in Sources : udpStats'[x] # None => udpStats'[x].pending <= Cardinality(Served(x)')
        BY <2>1, <3>1, <3>2, <3>3 DEF TaskInv, StatsOK
      <3> QED
        BY <3>2, <3>4 DEF StatsOK
    <2> QED
      BY <1>3, <2>2, <2>3
  <1> QED
    BY <1>10, <1>11 DEF TaskInv

LEMMA FlushCounted ==
  ASSUME StreamInv, TaskInv, Flush
  PROVE  TaskInv'
  <1>1. PICK s \in Sources : s = parsing
    BY DEF Flush, StreamInv
  <1>2. Finished(udpStats, s, FALSE) /\ UNCHANGED <<tasks, handled>>
    BY <1>1 DEF Flush
  <1>3. /\ udpStats' \in [Sources -> Status \cup {None}]
        /\ \A x \in Sources : x # s => udpStats'[x] = udpStats[x]
        /\ udpStats'[s] # None =>
             /\ udpStats[s] # None /\ udpStats[s].pending \in Int
             /\ udpStats'[s].pending = udpStats[s].pending - 1
    BY <1>2, FinishedCounts DEF TaskInv, StatsOK
  <1>4. ASSUME NEW x \in Sources, udpStats'[x] # None
        PROVE  udpStats'[x].pending <= Cardinality(Served(x)')
    <2>1. PICK c \in Nat : c = Cardinality(Served(x)) /\ c = Cardinality(Served(x)')
      BY <1>2, ServedFinite DEF TaskInv, Served
    <2>2. CASE x = s
      <3>1. udpStats[x].pending \in Int /\ udpStats[x].pending <= c
        BY <1>3, <1>4, <2>1, <2>2 DEF TaskInv, StatsOK
      <3>2. udpStats'[x].pending = udpStats[x].pending - 1
        BY <1>3, <1>4, <2>2
      <3> QED
        BY <2>1, <3>1, <3>2
    <2>3. CASE x # s
      BY <1>3, <1>4, <2>1, <2>3 DEF TaskInv, StatsOK
    <2> QED
      BY <2>2, <2>3
  <1>5. TasksOK'
    BY <1>2 DEF TaskInv, TasksOK
  <1> QED
    BY <1>3, <1>4, <1>5 DEF TaskInv, StatsOK

LEMMA ServeCounted ==
  ASSUME TaskInv, NEW t \in tasks, Serve(t)
  PROVE  TaskInv'
  <1>1. PICK s \in Sources : s = t.source
    BY DEF TaskInv, TasksOK
  <1>2. PICK d : d = [t EXCEPT !.stage = "served"]
    OBVIOUS
  <1>3. /\ t.stage = "begun" /\ tasks' = (tasks \ {t}) \cup {d} /\ handled' = handled
        /\ udpStats' \in {Requested(udpStats, s), udpStats}
    BY <1>1, <1>2 DEF Serve, RunRequest, RunRequestV2
  <1>4. /\ TasksOK' /\ Cardinality(Served(s)') = Cardinality(Served(s)) + 1
        /\ \A x : x # s => Served(x)' = Served(x)
    BY <1>1, <1>2, <1>3, TaskServed DEF TaskInv
  <1>5. udpStats \in [Sources -> Status \cup {None}]
    BY DEF TaskInv, StatsOK
  <1>6. /\ udpStats' \in [Sources -> Status \cup {None}]
        /\ \A x \in Sources : x # s => udpStats'[x] = udpStats[x]
        /\ udpStats'[s] # None =>
             /\ udpStats[s] # None /\ udpStats[s].pending \in Int
             /\ udpStats'[s].pending \in {udpStats[s].pending, udpStats[s].pending + 1}
    <2>1. CASE udpStats' = udpStats
      BY <1>5, <2>1 DEF Status
    <2>2. CASE udpStats' = Requested(udpStats, s)
      BY <1>5, <2>2, RequestedCounts
    <2> QED
      BY <1>3, <2>1, <2>2
  <1>7. ASSUME NEW x \in Sources, udpStats'[x] # None
        PROVE  udpStats'[x].pending <= Cardinality(Served(x)')
    <2>1. PICK c \in Nat : c = Cardinality(Served(x))
      BY ServedFinite DEF TaskInv
    <2>2. CASE x = s
      BY <1>4, <1>6, <1>7, <2>1, <2>2 DEF TaskInv, StatsOK
    <2>3. CASE x # s
      BY <1>4, <1>6, <1>7, <2>1, <2>3 DEF TaskInv, StatsOK
    <2> QED
      BY <2>2, <2>3
  <1> QED
    BY <1>4, <1>6, <1>7 DEF TaskInv, StatsOK

LEMMA FinishTaskCounted ==
  ASSUME TaskInv, NEW t \in tasks, FinishTask(t)
  PROVE  TaskInv'
  <1>1. PICK s \in Sources, ok \in BOOLEAN : s = t.source /\ ok = t.ok
    BY DEF TaskInv, TasksOK
  <1>2. /\ t.stage = "served" /\ tasks' = tasks \ {t} /\ handled' = handled
        /\ Finished(udpStats, s, ok)
    BY <1>1 DEF FinishTask
  <1>3. /\ TasksOK' /\ Cardinality(Served(s)') = Cardinality(Served(s)) - 1
        /\ \A x : x # s => Served(x)' = Served(x)
    BY <1>1, <1>2, TaskEnded DEF TaskInv
  <1>4. /\ udpStats' \in [Sources -> Status \cup {None}]
        /\ \A x \in Sources : x # s => udpStats'[x] = udpStats[x]
        /\ udpStats'[s] # None =>
             /\ udpStats[s] # None /\ udpStats[s].pending \in Int
             /\ udpStats'[s].pending = udpStats[s].pending - 1
    BY <1>2, FinishedCounts DEF TaskInv, StatsOK
  <1>5. ASSUME NEW x \in Sources, udpStats'[x] # None
        PROVE  udpStats'[x].pending <= Cardinality(Served(x)')
    <2>1. PICK c \in Nat : c = Cardinality(Served(x))
      BY ServedFinite DEF TaskInv
    <2>2. CASE x = s
      BY <1>3, <1>4, <1>5, <2>1, <2>2 DEF TaskInv, StatsOK
    <2>3. CASE x # s
      BY <1>3, <1>4, <1>5, <2>1, <2>3 DEF TaskInv, StatsOK
    <2> QED
      BY <2>2, <2>3
  <1> QED
    BY <1>3, <1>4, <1>5 DEF TaskInv, StatsOK

LEMMA CleanCounted ==
  ASSUME TaskInv, NEW b \in batches, Clean(b)
  PROVE  TaskInv'
  <1>1. PICK over : udpStats' = [s \in Sources |-> IF s \in over THEN None ELSE udpStats[s]]
    BY DEF Clean
  <1>2. UNCHANGED <<tasks, handled>>
    BY DEF Clean, taskVars
  <1>3. TasksOK' /\ \A s : Served(s)' = Served(s)
    BY <1>2 DEF TaskInv, TasksOK, Served
  <1>4. udpStats' \in [Sources -> Status \cup {None}]
    BY <1>1 DEF TaskInv, StatsOK
  <1>5. \A s \in Sources : udpStats'[s] # None => udpStats'[s].pending <= Cardinality(Served(s)')
    BY <1>1, <1>3 DEF TaskInv, StatsOK
  <1> QED
    BY <1>3, <1>4, <1>5 DEF TaskInv, StatsOK

LEMMA NextTasks == StreamInv /\ TaskInv /\ [Next]_vars => TaskInv'
  <1> SUFFICES ASSUME StreamInv, TaskInv, [Next]_vars PROVE TaskInv'
    OBVIOUS
  <1>1. CASE UNCHANGED <<tasks, handled, udpStats>>
    <2>1. TasksOK' /\ \A s : Served(s)' = Served(s)
      BY <1>1 DEF TaskInv, TasksOK, Served
    <2> QED
      BY <1>1, <2>1 DEF TaskInv, StatsOK
  <1>2. ASSUME NEW s \in Sources, Send(s) \/ Lose(s) \/ Receive(s) PROVE TaskInv'
    BY <1>1, <1>2 DEF Send, Lose, Receive, taskVars
  <1>3. CASE Receiver
    BY <1>1, <1>3, CutMessageCounted, FlushCounted DEF Receiver, Wait
  <1>4. CASE Server
    BY <1>4, ServeCounted, FinishTaskCounted DEF Server
  <1>5. CASE Turn \/ \E b \in batches : PutBack(b)
    BY <1>1, <1>5 DEF Turn, PutBack, taskVars
  <1>6. CASE \E b \in batches : Clean(b)
    BY <1>6, CleanCounted
  <1>7. CASE UNCHANGED vars
    BY <1>1, <1>7 DEF vars, taskVars
  <1> QED
    BY <1>2, <1>3, <1>4, <1>5, <1>6, <1>7 DEF Next, Cleaner

LEMMA TasksInit == Init => TaskInv
  <1> SUFFICES ASSUME Init PROVE TaskInv
    OBVIOUS
  <1>1. tasks = {} /\ udpStats = [s \in Sources |-> None]
    BY DEF Init
  <1>2. TasksOK
    BY <1>1, FS_EmptySet DEF TasksOK
  <1> QED
    BY <1>1, <1>2 DEF TaskInv, StatsOK

-----------------------------------------------------------------------------
(* Batches                                                                 *)

(* While there are fewer batches than numbers, one is free.                *)
LEMMA NumberFree ==
  ASSUME BatchInv, Cardinality(batches) < MaxBatches
  PROVE  \E n \in 1 .. MaxBatches : \A b \in batches : b.num # n
  <1> DEFINE nums == {b.num : b \in batches}
             g == [b \in batches |-> b.num]
  <1>1. g \in Surjection(batches, nums)
    BY DEF Surjection
  <1>2. IsFiniteSet(batches)
    BY DEF BatchInv
  <1> HIDE DEF g, nums
  <1>3. IsFiniteSet(nums) /\ Cardinality(nums) <= Cardinality(batches)
    BY <1>1, <1>2, FS_Surjection
  <1>4. Cardinality(1 .. MaxBatches) = MaxBatches
    BY SizesTyped, FS_Interval
  <1>5. ASSUME 1 .. MaxBatches \subseteq nums PROVE FALSE
    <2>1. Cardinality(1 .. MaxBatches) <= Cardinality(nums)
      BY <1>3, <1>5, FS_Subset
    <2>2. Cardinality(nums) \in Nat /\ Cardinality(batches) \in Nat
      BY <1>2, <1>3, FS_CardinalityType
    <2> QED
      BY <1>3, <1>4, <2>1, <2>2, SizesTyped
  <1>6. PICK n \in 1 .. MaxBatches : n \notin nums
    BY <1>5
  <1> QED
    BY <1>6 DEF nums

LEMMA TurnBatches ==
  ASSUME BatchInv, TableInv, Turn
  PROVE  BatchInv'
  <1>1. \E d \in {1, 2} : second' = (second + d) % (Slots * SlotSeconds)
    BY DEF Turn
  <1>2. second' \in 0 .. Slots * SlotSeconds - 1
    <2>1. Slots \in Nat /\ SlotSeconds \in Nat /\ Slots > 0 /\ SlotSeconds > 0
      BY UDPAssumption
    <2>2. PICK m \in Nat : m = Slots * SlotSeconds /\ m > 0
      BY <2>1
    <2>3. PICK d \in {1, 2} : second' = (second + d) % m
      BY <1>1, <2>2
    <2>4. second + d \in Int
      BY DEF TableInv
    <2>5. second' \in 0 .. m - 1
      BY <2>2, <2>3, <2>4
    <2> QED
      BY <2>2, <2>5
  <1>3. PICK free, taken :
          /\ free = CHOOSE n \in 1 .. MaxBatches : \A b \in batches : b.num # n
          /\ taken = (second' \div SlotSeconds + 1) % Slots
          /\ \/ batches' = batches
             \/ batches' = batches \cup {[num |-> free, stage |-> "taken",
                                          sources |-> ids[taken]]}
    <2>1. PICK free, taken :
            /\ free = CHOOSE n \in 1 .. MaxBatches : \A b \in batches : b.num # n
            /\ taken = (second' \div SlotSeconds + 1) % Slots
      OBVIOUS
    <2> QED
      BY <2>1 DEF Turn, CleanersGet
  <1>4. free \in 1 .. MaxBatches
    BY <1>3, NumberFree DEF Turn
  <1>5. ids[taken] \in SUBSET Sources
    <2>1. taken \in 0 .. Slots - 1
      <3>1. second' \in Nat
        BY <1>2
      <3>2. second' \div SlotSeconds \in Int
        BY <3>1, PositionTyped
      <3>3. second' \div SlotSeconds + 1 \in Int
        BY <3>2
      <3> QED
        BY <1>3, <3>3, SlotExists
    <2> QED
      BY <2>1 DEF TableInv
  <1>6. CASE batches' = batches
    BY <1>2, <1>6 DEF BatchInv
  <1>7. CASE batches' # batches
    <2>1. PICK new : /\ new = [num |-> free, stage |-> "taken", sources |-> ids[taken]]
                     /\ batches' = batches \cup {new}
      BY <1>3, <1>7
    <2>2. new \in [num : 1 .. MaxBatches, stage : {"taken", "looked"}, sources : SUBSET Sources]
      BY <1>4, <1>5, <2>1
    <2>3. IsFiniteSet(batches')
      BY <2>1, FS_AddElement DEF BatchInv
    <2> QED
      BY <1>2, <2>1, <2>2, <2>3 DEF BatchInv
  <1> QED
    BY <1>6, <1>7

LEMMA NextBatches == BatchInv /\ TableInv /\ [Next]_vars => BatchInv'
  <1> SUFFICES ASSUME BatchInv, TableInv, [Next]_vars PROVE BatchInv'
    OBVIOUS
  <1>1. CASE UNCHANGED <<second, batches>>
    BY <1>1 DEF BatchInv
  <1>2. ASSUME NEW s \in Sources, Send(s) \/ Lose(s) \/ Receive(s) PROVE BatchInv'
    BY <1>1, <1>2 DEF Send, Lose, Receive, cleanVars
  <1>3. CASE Receiver
    BY <1>1, <1>3 DEF Receiver, CutMessage, Flush, Wait, cleanVars
  <1>4. CASE Server
    BY <1>1, <1>4 DEF Server, Serve, FinishTask, cleanVars
  <1>5. ASSUME NEW b \in batches, Clean(b) PROVE BatchInv'
    <2> DEFINE back == {s \in b.sources : udpStats[s] # None} \ {s \in b.sources : Closed(s)}
    <2>1. PICK new : new = [b EXCEPT !.stage = "looked", !.sources = back]
      OBVIOUS
    <2>2. batches' = (batches \ {b}) \cup {new} /\ second' = second
      BY <1>5, <2>1 DEF Clean
    <2>3. b \in [num : 1 .. MaxBatches, stage : {"taken", "looked"}, sources : SUBSET Sources]
      BY DEF BatchInv
    <2>4. back \in SUBSET Sources
      BY <2>3
    <2> HIDE DEF back
    <2>5. new \in [num : 1 .. MaxBatches, stage : {"taken", "looked"}, sources : SUBSET Sources]
      BY <2>1, <2>3, <2>4
    <2>6. IsFiniteSet(batches')
      <3>1. IsFiniteSet(batches \ {b})
        BY FS_RemoveElement DEF BatchInv
      <3> QED
        BY <2>2, <3>1, FS_AddElement
    <2> QED
      BY <2>2, <2>5, <2>6 DEF BatchInv
  <1>6. ASSUME NEW b \in batches, PutBack(b) PROVE BatchInv'
    <2>1. batches' = batches \ {b} /\ second' = second
      BY <1>6 DEF PutBack
    <2> QED
      BY <2>1, FS_RemoveElement DEF BatchInv
  <1>7. CASE UNCHANGED vars
    BY <1>1, <1>7 DEF vars, cleanVars
  <1> QED
    BY <1>2, <1>3, <1>4, <1>5, <1>6, <1>7, TurnBatches DEF Next, Cleaner

LEMMA BatchesInit == Init => BatchInv
  <1> SUFFICES ASSUME Init PROVE BatchInv
    OBVIOUS
  <1>1. second = 0 /\ batches = {}
    BY DEF Init
  <1>2. 0 \in 0 .. Slots * SlotSeconds - 1
    <2>1. Slots \in Nat /\ SlotSeconds \in Nat /\ Slots > 0 /\ SlotSeconds > 0
      BY UDPAssumption
    <2>2. PICK m \in Nat : m = Slots * SlotSeconds /\ m > 0
      BY <2>1
    <2> QED
      BY <2>2
  <1> QED
    BY <1>1, <1>2, FS_EmptySet DEF BatchInv

(* Buffers, slots and the table are about known sources, and no more       *)
(* messages of a source are pending in the table than are being served,    *)
(* whatever was begun anew, failed or was cleaned meanwhile                *)
(* (hs_udp.go:13-25, 57-88, 316-325).                                      *)
THEOREM WellTyped == Spec => []TypeOK
  <1>1. IInv /\ StreamInv /\ TaskInv /\ BatchInv => TypeOK
    <2> SUFFICES ASSUME IInv, StreamInv, TaskInv, BatchInv PROVE TypeOK
      OBVIOUS
    <2>1. /\ unsent \in [Sources -> Seq(Cells)] /\ net \in [Sources -> Seq(Seq(Cells))]
          /\ source_buffer \in [Sources -> Seq(Cells)]
      <3>1. ASSUME NEW s \in Sources
            PROVE  /\ unsent[s] \in Seq(Cells) /\ net[s] \in Seq(Seq(Cells))
                   /\ source_buffer[s] \in Seq(Cells)
        BY SentCells DEF StreamInv, StreamOK
      <3> QED
        BY <3>1 DEF StreamInv, OfSources
    <2>2. handled \in [Sources -> Seq(Nat)] /\ faults \in [Sources -> Nat] /\ garbled \in [Sources -> Nat]
      BY DEF StreamInv, StreamOK, OfSources
    <2>3. ASSUME NEW s \in Sources, udpStats[s] # None
          PROVE  udpStats[s].pending <= Cardinality({t \in tasks : t.source = s})
      <3>1. PICK c \in Nat, all \in Nat :
              /\ c = Cardinality(Served(s)) /\ all = Cardinality({t \in tasks : t.source = s})
              /\ c <= all
        BY ServedFinite DEF TaskInv
      <3>2. udpStats[s].pending \in Int /\ udpStats[s].pending <= c
        BY <2>3, <3>1 DEF TaskInv, StatsOK, Status
      <3> QED
        BY <3>1, <3>2
    <2>4. /\ sending \in Cases /\ parsing \in Sources \cup {None}
          /\ ids \in [0 .. Slots - 1 -> SUBSET Sources]
      BY DEF StreamInv, IInv, TableInv
    <2> QED
      BY <2>1, <2>2, <2>3, <2>4 DEF TypeOK, TaskInv, TasksOK, StatsOK, BatchInv
  <1>2. Init => IInv /\ StreamInv /\ TaskInv /\ BatchInv
    BY InitInv, StreamInit, TasksInit, BatchesInit
  <1>3. IInv /\ StreamInv /\ TaskInv /\ BatchInv /\ [Next]_vars
          => (IInv /\ StreamInv /\ TaskInv /\ BatchInv)'
    BY NextInv, NextStream, NextTasks, NextBatches DEF IInv
  <1> QED
    BY <1>1, <1>2, <1>3, PTL DEF Spec
=============================================================================
