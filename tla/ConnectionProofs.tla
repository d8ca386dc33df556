-------------------------- MODULE ConnectionProofs --------------------------
(***************************************************************************)
(* What holds of a connection for every client: requests of any number,    *)
(* length and kind, read in any pieces, with buffers, headers, answers and *)
(* thresholds of any size.                                                 *)
(***************************************************************************)
EXTENDS Connection, DataProofs

-----------------------------------------------------------------------------
(* The inductive invariant                                                 *)

(* What the row of a second tells of it, the current second included.      *)
Told(a) == IF history[Row(a)].age = a THEN history[Row(a)].n ELSE 0

HistoryTypeOK ==
  /\ history \in [0 .. Slots - 1 -> [age : Ages, n : Nat]]
  /\ slot \in 0 .. Slots - 1
  /\ lag \in BOOLEAN
  /\ counted \in [0 .. Slots - 1 -> Nat]
  /\ torn \subseteq Ages

(* HistoryExact, of the current second too: it will be a complete one.     *)
HistoryTells ==
  \A a \in 0 .. Slots - 1 :
    Told(a) <= counted[a] /\ (a \notin torn => Told(a) = counted[a])

EntryTypeOK ==
  /\ status \in {"-", "O", "Sr", "Ss1", "W", "K", "X"}
  /\ listed \in BOOLEAN
  /\ closers \in [Closers -> [stage : {"none", "shown", "removed", "done"},
                              wait : -MaxLate .. Sleep]]
  /\ nilEntry \in BOOLEAN

(* The answer that is to be sent is among those counted already, and not   *)
(* yet among those skipped.                                                *)
AnswerLen == IF pc # "send" \/ message.conn_ex THEN 0 ELSE message.resp
SumsCover ==
  /\ sums \in [resp : Nat, sent : Nat, skipped : Nat]
  /\ sums.skipped <= sums.sent
  /\ sums.skipped + AnswerLen <= sums.resp

Setting == [script |-> script, distance |-> distance, enabled |-> enabled] \in Cases

Received == (1 .. Len(script)) \X (Nat \ {0}) \cup {Junk}
StreamOK ==
  /\ wire \in Seq(Received) /\ stream \in Seq(Received)
  /\ pc \in {"new", "read", "body", "serve", "send", "failing", "closing", "closed",
            "crashed"}
  /\ place \in {"shared", "slab", "own"}
  /\ base \in Nat /\ size \in Nat /\ reading \in BOOLEAN
  /\ place = "shared" => base + Len(stream) <= SharedSize
  /\ place = "slab" => Len(stream) <= size
  /\ handled \in Seq([req : Nat, served : BOOLEAN])
  /\ overwritten \in BOOLEAN

(* While a request is served there is one, and fastreturn is its own.      *)
ParamsOK ==
  /\ message \in Requests \cup {None}
  /\ pc \in {"serve", "send"} => message \in Requests
  /\ held \in BOOLEAN
  /\ fastreturn \in {None, Len(handled)}
  /\ pc \notin {"send", "crashed"} => fastreturn = None

(* A local client negotiates nothing.                                      *)
Negotiated ==
  /\ comp \in enabled \cup {None} /\ threshold \in Nat
  /\ distance = 0 => threshold = 0

(* What a client has negotiated before its request n. A server without     *)
(* flate has snappy for a client in a WAN too.                             *)
CompBefore(n) == IF KnowsSnappy(n) /\ (distance = 1 \/ "flate" \notin enabled)
                 THEN "snappy"
                 ELSE IF "flate" \in enabled THEN "flate" ELSE None
Settled(n) ==
  distance # 0 =>
    /\ threshold = AgreedThreshold(n)
    /\ comp = IF threshold = 0 THEN None ELSE CompBefore(n)

(* The request at work is the client's, and the variables of the           *)
(* connection are what was negotiated before it, or before the next.       *)
Following ==
  LET n == Len(handled)
  IN /\ pc = "new" => handled = <<>>
     /\ ~overwritten =>
          /\ pc \in {"serve", "send"} => n # 0 /\ message = script[n]
          /\ pc = "serve" => Settled(n)
          /\ pc \in {"read", "body", "send"} => Settled(n + 1)
          /\ CrashExplained

AnswersOK ==
  /\ answers \in Seq([of : Nat, content : Nat,
                      said : {"plain", "gzip", "flate", "snappy"}])
  /\ AnswersMatch
  /\ NegotiationKept

(* What was cut off, what waits and what is on its way make what the       *)
(* client sent; a request whose body is read is the next one.              *)
Sent(n) == Wire(SubSeq(script, 1, n))
NothingLost ==
  LET n == Len(handled)
  IN /\ RequestsIntact /\ n <= Len(script)
     /\ pc \notin {"failing", "closing", "closed"} =>
          Sent(n) \o (stream \o wire) = Wire(script)
     /\ pc = "body" =>
          n < Len(script) /\ size = script[n + 1].size /\ script[n + 1].form # "kind"
Kept == ~overwritten => NothingLost

HistoryInv == HistoryTypeOK /\ HistoryTells
IInv ==
  /\ HistoryInv /\ EntryTypeOK /\ SumsCover
  /\ Setting /\ StreamOK /\ ParamsOK /\ Negotiated /\ Kept
  /\ Following /\ AnswersOK

-----------------------------------------------------------------------------
(* The history                                                             *)

LEMMA SlotsTyped == Slots \in Nat \ {0} /\ Slots \in Int /\ Slots > 2
BY StatsAssumption

LEMMA RowTyped ==
  ASSUME HistoryTypeOK, NEW a \in Int
  PROVE  Row(a) \in 0 .. Slots - 1
<1>1. slot - a \in Int
  BY SlotsTyped DEF HistoryTypeOK
<1> QED
  BY <1>1, SlotsTyped, PlaceExists DEF Row

LEMMA RowsDiffer ==
  ASSUME HistoryTypeOK, NEW a \in 0 .. Slots - 1, NEW b \in 0 .. Slots - 1, a # b
  PROVE  Row(a) # Row(b)
<1>1. slot \in Int
  BY SlotsTyped DEF HistoryTypeOK
<1> QED
  BY <1>1, SlotsTyped, PlacesApart DEF Row

LEMMA RowHolds ==
  ASSUME HistoryTypeOK, NEW i \in 0 .. Slots - 1
  PROVE  history[i] \in [age : Ages, n : Nat]
BY DEF HistoryTypeOK

LEMMA ToldTyped ==
  ASSUME HistoryTypeOK, NEW a \in 0 .. Slots - 1
  PROVE  Told(a) \in Nat /\ counted[a] \in Nat
<1>1. a \in Int
  BY SlotsTyped
<1>2. history[Row(a)] \in [age : Ages, n : Nat]
  BY <1>1, RowTyped, RowHolds
<1> QED
  BY <1>2 DEF Told, HistoryTypeOK

(* One more is counted, in the second it belongs to and in no other.       *)
LEMMA CountKeeps ==
  ASSUME HistoryInv, NEW age \in {0, 1}, Count(age)
  PROVE  HistoryInv'
<1> USE DEF HistoryInv
<1> DEFINE S == 0 .. Slots - 1
           row == history[Row(age)]
           new == [age |-> age, n |-> IF row.age = age THEN row.n + 1 ELSE 1]
<1>1. age \in S /\ age \in Int /\ age \in Ages
  BY SlotsTyped DEF Ages, Old
<1>2. Row(age) \in S /\ row \in [age : Ages, n : Nat]
  BY <1>1, RowTyped, RowHolds
<1>3. /\ history' = [history EXCEPT ![Row(age)] = new]
      /\ counted' = [counted EXCEPT ![age] = @ + 1]
      /\ slot' = slot /\ lag' = lag /\ torn' = torn
  BY DEF Count
<1>4. new \in [age : Ages, n : Nat] /\ new.age = age
  BY <1>1, <1>2
<1>5. new.n = (IF row.age = age THEN row.n ELSE 0) + 1
  BY <1>2
<1> HIDE DEF row, new
<1>6. HistoryTypeOK'
  <2>1. history' \in [S -> [age : Ages, n : Nat]]
    BY <1>2, <1>3, <1>4 DEF HistoryTypeOK
  <2>2. counted[age] + 1 \in Nat
    BY <1>1 DEF HistoryTypeOK
  <2>3. counted' \in [S -> Nat]
    BY <1>3, <2>2 DEF HistoryTypeOK
  <2> QED
    BY <1>3, <2>1, <2>3 DEF HistoryTypeOK
<1>7. \A a : Row(a)' = Row(a)
  BY <1>3 DEF Row
<1>8. Told(age)' = Told(age) + 1
  <2>1. history'[Row(age)] = new
    BY <1>2, <1>3 DEF HistoryTypeOK
  <2>2. Told(age)' = new.n
    BY <1>4, <1>7, <2>1 DEF Told
  <2>3. Told(age) = IF row.age = age THEN row.n ELSE 0
    BY DEF Told, row
  <2> QED
    BY <1>5, <2>2, <2>3
<1>9. ASSUME NEW a \in S, a # age PROVE Told(a)' = Told(a) /\ counted'[a] = counted[a]
  <2>1. Row(a) \in S /\ Row(a) # Row(age)
    BY <1>1, <1>9, SlotsTyped, RowTyped, RowsDiffer
  <2>2. history'[Row(a)] = history[Row(a)]
    BY <1>3, <2>1 DEF HistoryTypeOK
  <2> QED
    BY <1>3, <1>7, <1>9, <2>2 DEF Told, HistoryTypeOK
<1>10. counted'[age] = counted[age] + 1
  BY <1>1, <1>3 DEF HistoryTypeOK
<1>11. ASSUME NEW a \in S
       PROVE  Told(a)' <= counted'[a] /\ (a \notin torn' => Told(a)' = counted'[a])
  <2>1. Told(a) \in Nat /\ counted[a] \in Nat
    BY <1>11, ToldTyped
  <2>2. Told(a) <= counted[a] /\ (a \notin torn' => Told(a) = counted[a])
    BY <1>3, <1>11 DEF HistoryTells
  <2>3. CASE a = age
    BY <1>8, <1>10, <2>1, <2>2, <2>3
  <2>4. CASE a # age
    BY <1>9, <2>2, <2>4
  <2> QED
    BY <2>3, <2>4
<1>12. HistoryTells'
  BY <1>11 DEF HistoryTells
<1> QED
  BY <1>6, <1>12

(* A second begins: all complete ones are one second older.                *)
LEMMA SecondKeeps ==
  ASSUME HistoryInv, Second
  PROVE  HistoryInv'
<1> USE DEF HistoryInv
<1> DEFINE S == 0 .. Slots - 1
<1>1. /\ slot' = (slot + 1) % Slots
      /\ history' = [i \in DOMAIN history |-> [history[i] EXCEPT !.age = Older(@)]]
      /\ counted' = [a \in S |-> IF a = 0 THEN 0 ELSE counted[a - 1]]
      /\ torn' = {Older(a) : a \in torn} \ {Old}
      /\ lag' = TRUE
  BY DEF Second
<1>2. \A a \in Ages : Older(a) \in Ages /\ Older(a) # 0
  BY SlotsTyped DEF Older, Ages, Old
<1>3. \A a \in Ages, b \in S : b # 0 /\ Older(a) = b <=> b # 0 /\ a = b - 1
  BY SlotsTyped DEF Older, Ages, Old
<1>4. ASSUME NEW i \in S
      PROVE  /\ history'[i] \in [age : Ages, n : Nat]
             /\ history'[i].age = Older(history[i].age)
             /\ history'[i].n = history[i].n
  <2>1. history[i] \in [age : Ages, n : Nat]
    BY <1>4, RowHolds
  <2>2. history'[i] = [history[i] EXCEPT !.age = Older(@)]
    BY <1>1, <1>4 DEF HistoryTypeOK
  <2> QED
    BY <1>2, <2>1, <2>2
<1>5. slot' \in S
  <2>1. slot + 1 \in Int
    BY SlotsTyped DEF HistoryTypeOK
  <2> QED
    BY <1>1, <2>1, SlotsTyped, PlaceExists
<1>6. HistoryTypeOK'
  <2>1. history' \in [S -> [age : Ages, n : Nat]]
    <3>1. history' = [i \in S |-> history'[i]]
      BY <1>1 DEF HistoryTypeOK
    <3> QED
      BY <1>4, <3>1
  <2>2. counted' \in [S -> Nat]
    <3>1. \A a \in S : a # 0 => a - 1 \in S /\ counted[a - 1] \in Nat
      BY SlotsTyped DEF HistoryTypeOK
    <3> QED
      BY <1>1, <3>1
  <2>3. torn' \subseteq Ages
    BY <1>1, <1>2 DEF HistoryTypeOK
  <2> QED
    BY <1>1, <1>5, <2>1, <2>2, <2>3 DEF HistoryTypeOK
<1>7. ASSUME NEW a \in S, a # 0 PROVE Row(a)' = Row(a - 1)
  <2>1. slot \in Int /\ slot + 1 \in Int /\ -a \in Int
    BY SlotsTyped DEF HistoryTypeOK
  <2> DEFINE t == (slot + 1) % Slots
  <2>2. (t + (-a)) % Slots = ((slot + 1) + (-a)) % Slots
    BY <2>1, SlotsTyped, PlaceSteps
  <2>3. t \in Int
    BY <2>1, SlotsTyped, PlaceExists
  <2> HIDE DEF t
  <2>4. t + (-a) = t - a /\ (slot + 1) + (-a) = slot - (a - 1)
    BY <2>1, <2>3
  <2>5. Row(a)' = (t - a) % Slots
    BY <1>1 DEF Row, t
  <2> QED
    BY <2>2, <2>4, <2>5 DEF Row
<1>8. ASSUME NEW a \in S, a # 0
      PROVE  /\ a - 1 \in S
             /\ Told(a)' = Told(a - 1)
             /\ counted'[a] = counted[a - 1]
             /\ a \notin torn' => a - 1 \notin torn
  <2>1. a - 1 \in S /\ a - 1 \in Int
    BY <1>8, SlotsTyped
  <2>2. Row(a - 1) \in S /\ history[Row(a - 1)] \in [age : Ages, n : Nat]
    BY <2>1, RowTyped, RowHolds
  <2>3. history'[Row(a - 1)].age = a <=> history[Row(a - 1)].age = a - 1
    BY <1>3, <1>4, <1>8, <2>2
  <2>4. Told(a)' = Told(a - 1)
    BY <1>4, <1>7, <1>8, <2>2, <2>3 DEF Told
  <2>5. a \notin torn' => a - 1 \notin torn
    <3>1. a - 1 \in Ages /\ Older(a - 1) = a /\ a # Old
      BY <1>8, SlotsTyped DEF Older, Ages, Old
    <3> QED
      BY <1>1, <3>1
  <2> QED
    BY <1>1, <1>8, <2>1, <2>4, <2>5
<1>9. Told(0)' = 0 /\ counted'[0] = 0
  <2>1. 0 \in S /\ 0 \in Int
    BY SlotsTyped
  <2>2. Row(0)' \in S
    <3>1. slot' - 0 \in Int
      BY <1>5, SlotsTyped
    <3>2. (slot' - 0) % Slots \in S
      BY <3>1, SlotsTyped, PlaceExists
    <3> QED
      BY <3>2 DEF Row
  <2>3. history'[Row(0)'].age # 0
    BY <1>2, <1>4, <2>2, RowHolds
  <2> QED
    BY <1>1, <2>1, <2>3 DEF Told
<1>10. ASSUME NEW a \in S
       PROVE  Told(a)' <= counted'[a] /\ (a \notin torn' => Told(a)' = counted'[a])
  <2>1. CASE a = 0
    BY <1>9, <2>1
  <2>2. CASE a # 0
    <3>1. Told(a - 1) <= counted[a - 1] /\ (a - 1 \notin torn => Told(a - 1) = counted[a - 1])
      BY <1>8, <1>10, <2>2 DEF HistoryTells
    <3> QED
      BY <1>8, <1>10, <2>2, <3>1
  <2> QED
    BY <2>1, <2>2
<1>11. HistoryTells'
  BY <1>10 DEF HistoryTells
<1> QED
  BY <1>6, <1>11

(* A row that is cleared told nothing of a second the history must tell,   *)
(* unless it was the current one, which is noted.                          *)
LEMMA HistoryGetKeeps ==
  ASSUME HistoryInv, HistoryGet
  PROVE  HistoryInv'
<1> USE DEF HistoryInv
<1> DEFINE S == 0 .. Slots - 1
           first == IF lag THEN 2 ELSE 1
           visited == first .. first + Slots - 2
           stale(i) == {a \in visited : Row(a) = i /\ history[i].age # a}
<1>1. /\ history' = [i \in S |-> IF stale(i) = {} THEN history[i]
                                 ELSE [age |-> CHOOSE a \in stale(i) : TRUE, n |-> 0]]
      /\ torn' = IF history[slot].age = 0 /\ lag THEN torn \cup {0} ELSE torn
      /\ slot' = slot /\ lag' = lag /\ counted' = counted
  BY DEF HistoryGet
<1>2. visited \subseteq Ages /\ 0 \in Ages
  BY SlotsTyped DEF Ages, Old, HistoryTypeOK
<1>3. ASSUME NEW i \in S, stale(i) # {}
      PROVE  history'[i] \in [age : Ages, n : Nat] /\ history'[i].n = 0
  <2>1. history'[i] = [age |-> CHOOSE a \in stale(i) : TRUE, n |-> 0]
    BY <1>1, <1>3
  <2>2. (CHOOSE a \in stale(i) : TRUE) \in Ages
    BY <1>2, <1>3
  <2> HIDE DEF stale
  <2> QED
    BY <2>1, <2>2
<1>4. ASSUME NEW i \in S, stale(i) = {} PROVE history'[i] = history[i]
  BY <1>1, <1>4
<1>5. HistoryTypeOK'
  <2>1. ASSUME NEW i \in S PROVE history'[i] \in [age : Ages, n : Nat]
    BY <1>3, <1>4, RowHolds
  <2>2. history' = [i \in S |-> history'[i]]
    BY <1>1
  <2> HIDE DEF stale
  <2>3. history' \in [S -> [age : Ages, n : Nat]]
    BY <2>1, <2>2
  <2>4. torn' \subseteq Ages
    BY <1>1, <1>2 DEF HistoryTypeOK
  <2> QED
    BY <1>1, <2>3, <2>4 DEF HistoryTypeOK
<1>6. \A a : Row(a)' = Row(a)
  BY <1>1 DEF Row
<1>7. Row(Slots) = Row(0) /\ Row(0) = slot
  <2>1. slot \in S /\ slot \in Int /\ slot - 0 = slot
    BY SlotsTyped DEF HistoryTypeOK
  <2>2. slot % Slots = slot
    BY <2>1, SlotsTyped, PlaceItself
  <2>3. slot % Slots = (slot - Slots) % Slots
    <3>1. PICK y \in Int : y = slot - Slots
      BY <2>1, SlotsTyped
    <3>2. slot = y + 1 * Slots /\ 1 \in Int
      BY <2>1, <3>1, SlotsTyped
    <3>3. slot % Slots = y % Slots
      BY <2>1, <3>2, SlotsTyped, PlaceTurns
    <3> QED
      BY <3>1, <3>3
  <2> QED
    BY <2>1, <2>2, <2>3 DEF Row
<1>8. ASSUME NEW a \in S, NEW b \in visited, Row(b) = Row(a), b # a
      PROVE  a = 0 /\ lag
  <2>1. b \in S \/ (b = Slots /\ lag)
    <3>1. CASE lag
      BY <3>1, SlotsTyped
    <3>2. CASE ~lag
      BY <3>2, SlotsTyped
    <3> QED
      BY <3>1, <3>2
  <2>2. CASE b \in S
    BY <1>8, <2>2, RowsDiffer
  <2>3. CASE b = Slots /\ lag
    <3>1. 0 \in S /\ Row(0) = Row(a)
      BY <1>7, <1>8, <2>3, SlotsTyped
    <3> QED
      BY <2>3, <3>1, RowsDiffer
  <2> QED
    BY <2>1, <2>2, <2>3
<1>9. ASSUME NEW a \in S
      PROVE  Told(a)' <= counted'[a] /\ (a \notin torn' => Told(a)' = counted'[a])
  <2>1. Row(a) \in S /\ a \in Int
    BY <1>9, SlotsTyped, RowTyped
  <2>2. Told(a) \in Nat /\ counted[a] \in Nat
    BY <1>9, ToldTyped
  <2>3. Told(a) <= counted[a] /\ (a \notin torn => Told(a) = counted[a])
    BY <1>9 DEF HistoryTells
  <2>4. torn \subseteq torn'
    BY <1>1
  <2>5. CASE stale(Row(a)) = {}
    <3>1. Told(a)' = Told(a)
      BY <1>4, <1>6, <2>1, <2>5 DEF Told
    <3> QED
      BY <1>1, <2>3, <2>4, <3>1
  <2>6. CASE stale(Row(a)) # {}
    <3>1. Told(a)' = 0
      BY <1>3, <1>6, <2>1, <2>6 DEF Told
    <3>2. ASSUME Told(a) # 0 PROVE a \in torn'
      <4>1. history[Row(a)].age = a
        BY <3>2 DEF Told
      <4>2. PICK b \in visited : Row(b) = Row(a) /\ b # a
        BY <2>6, <4>1
      <4>3. a = 0 /\ lag
        BY <1>8, <4>2
      <4>4. history[slot].age = 0 /\ lag
        BY <1>7, <4>1, <4>3
      <4> QED
        BY <1>1, <4>3, <4>4
    <3> QED
      BY <1>1, <2>2, <2>3, <2>4, <3>1, <3>2
  <2> QED
    BY <2>5, <2>6
<1>10. HistoryTells'
  BY <1>9 DEF HistoryTells
<1> QED
  BY <1>5, <1>10

LEMMA HistoryStays ==
  ASSUME HistoryInv, UNCHANGED <<history, slot, counted, torn>>, lag' \in BOOLEAN
  PROVE  HistoryInv'
<1>1. HistoryTypeOK'
  BY DEF HistoryInv, HistoryTypeOK
<1>2. \A a : Told(a)' = Told(a)
  BY DEF Told, Row
<1>3. HistoryTells'
  BY <1>2 DEF HistoryInv, HistoryTells
<1> QED
  BY <1>1, <1>3 DEF HistoryInv

(* What a step can do to the history.                                      *)
LEMMA HistorySteps ==
  ASSUME [Next]_vars
  PROVE  \/ \E age \in {0, 1} : Count(age)
         \/ Second \/ NoticeSecond \/ HistoryGet
         \/ UNCHANGED historyVars
<1>1. CASE UNCHANGED vars
  BY <1>1 DEF vars, statsVars
<1>2. CASE Accept
  BY <1>2 DEF Accept, MakeConnection, CountNow
<1>3. CASE ReadHeader
  BY <1>3 DEF ReadHeader, NoteReading, StateReading, statsVars
<1>4. CASE HeaderThere
  BY <1>4 DEF HeaderThere, NoteReading, StateReading, statsVars
<1>5. CASE ReadBody
  BY <1>5 DEF ReadBody, statsVars
<1>6. CASE ReadFails
  BY <1>6 DEF ReadFails, statsVars
<1>7. CASE Decode
  BY <1>7 DEF Decode, StateServing, statsVars
<1>8. CASE Serve
  BY <1>8 DEF Serve, StateWriting
<1>9. CASE Answer
  BY <1>9 DEF Answer, StateKeepalive, CountNow
<1>10. CASE Fail
  BY <1>10 DEF Fail, Close, CountError
<1>11. CASE Finish
  BY <1>11 DEF Finish, Close
<1>12. CASE Clock
  BY <1>12 DEF Clock, CloserShows, CloserRemoves
<1>13. CASE StatusPage
  BY <1>13 DEF StatusPage
<1>14. CASE Crash
  BY <1>14 DEF Crash, statsVars
<1> QED
  BY <1>1, <1>2, <1>3, <1>4, <1>5, <1>6, <1>7, <1>8, <1>9, <1>10, <1>11, <1>12,
     <1>13, <1>14 DEF Next, Step, Exited

LEMMA HistoryInit ==
  ASSUME StatsInit
  PROVE  HistoryInv
<1>1. HistoryTypeOK
  <2>1. Old \in Ages /\ 0 \in 0 .. Slots - 1
    BY SlotsTyped DEF Ages, Old
  <2> QED
    BY <2>1 DEF StatsInit, HistoryTypeOK
<1>2. ASSUME NEW a \in 0 .. Slots - 1 PROVE Told(a) = 0 /\ counted[a] = 0
  <2>1. Row(a) \in 0 .. Slots - 1
    BY <1>1, SlotsTyped, RowTyped
  <2>2. history[Row(a)] = [age |-> Old, n |-> 0]
    BY <2>1 DEF StatsInit
  <2> QED
    BY <2>2 DEF Told, StatsInit
<1> QED
  BY <1>1, <1>2 DEF HistoryInv, HistoryTells

LEMMA HistoryKept ==
  ASSUME HistoryInv, [Next]_vars
  PROVE  HistoryInv'
<1>1. CASE \E age \in {0, 1} : Count(age)
  BY <1>1, CountKeeps
<1>2. CASE Second
  BY <1>2, SecondKeeps
<1>3. CASE NoticeSecond
  BY <1>3, HistoryStays DEF NoticeSecond
<1>4. CASE HistoryGet
  BY <1>4, HistoryGetKeeps
<1>5. CASE UNCHANGED historyVars
  BY <1>5, HistoryStays DEF historyVars, HistoryInv, HistoryTypeOK
<1> QED
  BY <1>1, <1>2, <1>3, <1>4, <1>5, HistorySteps

(* Whatever is counted when, and whenever somebody looks: the history      *)
(* tells of every complete second it remembers what was counted in it, of  *)
(* one that was looked at too early not more (stats_history.go:28-101), for*)
(* any number of rows.                                                     *)
THEOREM HistoryTellsWhatWasCounted == Spec => []HistoryExact
<1>1. Init => HistoryInv
  BY HistoryInit DEF Init
<1>2. HistoryInv /\ [Next]_vars => HistoryInv'
  BY HistoryKept
<1>3. HistoryInv => HistoryExact
  <2> SUFFICES ASSUME HistoryInv, NEW a \in 1 .. Slots - 1
               PROVE  Told(a) <= counted[a] /\ (a \notin torn => Told(a) = counted[a])
    BY DEF HistoryExact, Told
  <2> QED
    BY SlotsTyped DEF HistoryInv, HistoryTells
<1> QED
  BY <1>1, <1>2, <1>3, PTL DEF Spec

-----------------------------------------------------------------------------
(* What the steps leave alone                                              *)

OnlyTime == UNCHANGED <<script, pc, streamVars, paramVars, connVars, ghosts, sums>>

LEMMA StepOrTime ==
  ASSUME [Next]_vars
  PROVE  Step \/ OnlyTime
<1>1. CASE Clock
  BY <1>1 DEF Clock, Second, NoticeSecond, CloserShows, CloserRemoves, OnlyTime, entryVars
<1>2. CASE StatusPage
  BY <1>2 DEF StatusPage, HistoryGet, OnlyTime
<1>3. CASE UNCHANGED vars
  BY <1>3 DEF vars, statsVars, OnlyTime
<1> QED
  BY <1>1, <1>2, <1>3 DEF Next, Exited

LEMMA ClientStays ==
  ASSUME [Next]_vars
  PROVE  UNCHANGED <<script, distance, enabled>>
<1>1. CASE OnlyTime
  BY <1>1 DEF OnlyTime, connVars
<1>2. CASE Step
  BY <1>2 DEF Step, Accept, ReadHeader, HeaderThere, ReadBody, ReadFails, Decode, Serve,
              Answer, Crash, Fail, Finish, connVars
<1> QED
  BY <1>1, <1>2, StepOrTime

LEMMA SettingKept ==
  ASSUME Setting, [Next]_vars
  PROVE  Setting' /\ Received' = Received /\ Requests' = Requests
BY ClientStays DEF Setting, Received, Requests

-----------------------------------------------------------------------------
(* The entry                                                               *)

LEMMA EntrySteps ==
  ASSUME EntryTypeOK, [Next]_vars
  PROVE  \/ \E k \in Closers : Close(k) \/ CloserShows(k) \/ CloserRemoves(k)
         \/ Second
         \/ /\ status' \in {"-", "O", "Sr", "Ss1", "W", "K", "X"} /\ listed' \in BOOLEAN
            /\ UNCHANGED <<closers, nilEntry>>
<1> USE DEF EntryTypeOK, entryVars
<1>1. CASE UNCHANGED vars
  BY <1>1 DEF vars, statsVars
<1>2. CASE Accept
  BY <1>2 DEF Accept, MakeConnection
<1>3. CASE ReadHeader
  BY <1>3 DEF ReadHeader, NoteReading, StateReading, State, statsVars
<1>4. CASE HeaderThere
  BY <1>4 DEF HeaderThere, NoteReading, StateReading, State, statsVars
<1>5. CASE ReadBody
  BY <1>5 DEF ReadBody, statsVars
<1>6. CASE ReadFails
  BY <1>6 DEF ReadFails, statsVars
<1>7. CASE Decode
  BY <1>7 DEF Decode, StateServing, State, statsVars
<1>8. CASE Serve
  BY <1>8 DEF Serve, StateWriting, State
<1>9. CASE Answer
  BY <1>9 DEF Answer, StateKeepalive, State
<1>10. CASE Fail
  BY <1>10 DEF Fail, Closers
<1>11. CASE Finish
  BY <1>11 DEF Finish, Closers
<1>12. CASE Clock
  BY <1>12 DEF Clock, NoticeSecond
<1>13. CASE StatusPage
  BY <1>13 DEF StatusPage, HistoryGet
<1>14. CASE Crash
  BY <1>14 DEF Crash, statsVars
<1> QED
  BY <1>1, <1>2, <1>3, <1>4, <1>5, <1>6, <1>7, <1>8, <1>9, <1>10, <1>11, <1>12,
     <1>13, <1>14 DEF Next, Step, Exited

LEMMA EntryKept ==
  ASSUME EntryTypeOK, [Next]_vars
  PROVE  EntryTypeOK'
<1> USE DEF EntryTypeOK
<1> DEFINE Closer == [stage : {"none", "shown", "removed", "done"}, wait : -MaxLate .. Sleep]
<1>1. Sleep \in -MaxLate .. Sleep /\ 0 \in -MaxLate .. Sleep
  BY StatsAssumption
<1>2. CASE \E k \in Closers : Close(k) \/ CloserShows(k) \/ CloserRemoves(k)
  <2>1. PICK k \in Closers : Close(k) \/ CloserShows(k) \/ CloserRemoves(k)
    BY <1>2
  <2>2. CASE Close(k)
    <3>1. closers' \in [Closers -> Closer]
      BY <1>1, <2>2 DEF Close
    <3> QED
      BY <2>2, <3>1 DEF Close
  <2>3. CASE CloserShows(k)
    <3>1. closers' \in [Closers -> Closer]
      BY <1>1, <2>3 DEF CloserShows
    <3>2. status' = "X" /\ listed' = listed /\ nilEntry' \in BOOLEAN
      BY <2>3 DEF CloserShows
    <3> QED
      BY <3>1, <3>2
  <2>4. CASE CloserRemoves(k)
    <3>1. closers' \in [Closers -> Closer]
      BY <1>1, <2>4 DEF CloserRemoves
    <3> QED
      BY <2>4, <3>1 DEF CloserRemoves
  <2> QED
    BY <2>1, <2>2, <2>3, <2>4
<1>3. CASE Second
  <2>1. ASSUME NEW k \in Closers
        PROVE  (IF Sleeping(k) THEN [closers[k] EXCEPT !.wait = @ - 1] ELSE closers[k]) \in Closer
    <3>1. closers[k] \in Closer
      OBVIOUS
    <3>2. CASE Sleeping(k)
      <4>1. closers[k].wait > -MaxLate
        BY <1>3, <3>2 DEF Second
      <4>2. closers[k].wait - 1 \in -MaxLate .. Sleep
        BY <3>1, <4>1, StatsAssumption
      <4> QED
        BY <3>1, <3>2, <4>2
    <3> QED
      BY <3>1, <3>2
  <2>2. closers' \in [Closers -> Closer]
    BY <1>3, <2>1 DEF Second
  <2> QED
    BY <1>3, <2>2 DEF Second
<1>4. CASE /\ status' \in {"-", "O", "Sr", "Ss1", "W", "K", "X"} /\ listed' \in BOOLEAN
           /\ UNCHANGED <<closers, nilEntry>>
  BY <1>4
<1> QED
  BY <1>2, <1>3, <1>4, EntrySteps

-----------------------------------------------------------------------------
(* Requests and their bytes                                                *)

LEMMA SizesTyped ==
  /\ HeadSize \in Nat /\ HeadSize > 0
  /\ ReadSize \in Nat /\ ReadSize > 0
  /\ SharedSize \in Nat /\ SharedSize > 0
  /\ AnswerHead \in Nat /\ Slack \in Nat /\ Threshold \in Nat
<1>1. {HeadSize, ReadSize, SharedSize} \subseteq Nat \ {0}
  BY ConnectionAssumption
<1>2. {AnswerHead, Slack, Threshold, MaxGarbled} \subseteq Nat
  BY ConnectionAssumption
<1> QED
  BY <1>1, <1>2

LEMMA ClientTyped ==
  ASSUME Setting
  PROVE  /\ script \in Seq(ProtocolRequests) /\ Len(script) \in Nat
         /\ distance \in 0 .. 2
         /\ enabled \in SUBSET {"flate", "snappy"}
         /\ \A i \in 1 .. Len(script) :
              /\ script[i] \in ProtocolRequests
              /\ script[i].size \in Nat /\ script[i].size >= HeadSize
<1> DEFINE c == [script |-> script, distance |-> distance, enabled |-> enabled]
<1>1. IsCase(c)
  BY ConnectionAssumption DEF Setting
<1>2. c.script = script /\ c.distance = distance /\ c.enabled = enabled
  OBVIOUS
<1> HIDE DEF c
<1>3. c.script \in Seq(ProtocolRequests) /\ c.distance \in 0 .. 2
      /\ c.enabled \in SUBSET {"flate", "snappy"}
  BY <1>1 DEF IsCase
<1>4. script \in Seq(ProtocolRequests) /\ \A i \in 1 .. Len(script) : script[i].size >= HeadSize
  BY <1>1, <1>2, <1>3 DEF IsCase
<1>5. \A i \in 1 .. Len(script) : script[i] \in ProtocolRequests
  BY <1>4, ElementOfSeq
<1>6. \A r \in ProtocolRequests : r.size \in Nat
  BY DEF ProtocolRequests
<1> QED
  BY <1>2, <1>3, <1>4, <1>5, <1>6, LenProperties

LEMMA RequestsTyped ==
  ASSUME Setting
  PROVE  Requests \subseteq ProtocolRequests
<1>1. ASSUME NEW r \in ProtocolRequests, NEW f \in {"ok", "kind", "params"}
      PROVE  [r EXCEPT !.form = f] \in ProtocolRequests
  BY DEF ProtocolRequests
<1>2. ASSUME NEW r \in Requests PROVE r \in ProtocolRequests
  <2>1. PICK i \in 1 .. Len(script), f \in {"ok", "kind", "params"} :
          r = [script[i] EXCEPT !.form = f]
    BY DEF Requests
  <2>2. script[i] \in ProtocolRequests
    BY ClientTyped
  <2> QED
    BY <1>1, <2>1, <2>2
<1> QED
  BY <1>2

LEMMA ScriptInRequests ==
  ASSUME Setting, NEW i \in 1 .. Len(script)
  PROVE  script[i] \in Requests
<1>1. script[i] \in ProtocolRequests
  BY ClientTyped
<1>2. script[i].form \in {"ok", "kind", "params"} /\ [script[i] EXCEPT !.form = script[i].form] = script[i]
  BY <1>1 DEF ProtocolRequests
<1> QED
  BY <1>2 DEF Requests

LEMMA JunkIsReceived == Junk \in Received /\ Junk[1] = 0
BY DEF Junk, Received

(* What is received is numbered like the client's requests.                *)
LEMMA CellTyped ==
  ASSUME Setting, NEW x \in Received
  PROVE  x[1] \in Nat /\ (x # Junk => x[1] \in 1 .. Len(script))
<1>1. Len(script) \in Nat
  BY ClientTyped
<1> QED
  BY <1>1, JunkIsReceived DEF Received

LEMMA ReceivedAreCells ==
  ASSUME Setting
  PROVE  Received \subseteq Cells
BY ClientTyped DEF Received, Cells

LEMMA BytesTyped ==
  ASSUME Setting, NEW i \in 1 .. Len(script)
  PROVE  /\ Bytes(i) \in Seq(Received)
         /\ Len(Bytes(i)) = script[i].size
         /\ \A k \in 1 .. script[i].size : Bytes(i)[k] = <<i, k>>
         /\ Bytes(i)[1] = <<i, 1>> /\ Bytes(i)[1][1] = i
<1>1. script[i].size \in Nat /\ script[i].size >= 1
  BY ClientTyped, SizesTyped
<1>2. \A k \in 1 .. script[i].size : <<i, k>> \in Received
  BY DEF Received
<1>3. Bytes(i) \in [1 .. script[i].size -> Received]
  BY <1>2 DEF Bytes
<1>4. Bytes(i) \in Seq(Received)
  BY <1>1, <1>3, SeqDef
<1>5. Len(Bytes(i)) = script[i].size
  BY <1>1, <1>3, <1>4
<1>6. \A k \in 1 .. script[i].size : Bytes(i)[k] = <<i, k>>
  BY DEF Bytes
<1>7. Bytes(i)[1] = <<i, 1>>
  BY <1>1, <1>6
<1> QED
  BY <1>4, <1>5, <1>6, <1>7

LEMMA HeaderTyped ==
  ASSUME Setting, NEW s \in Seq(Received), Len(s) >= HeadSize, NEW r \in Headers(s)
  PROVE  r \in Requests
<1> DEFINE i == s[1][1]
<1>1. CASE \A k \in 1 .. HeadSize : s[k] = <<i, k>> /\ s[k] # Junk
  <2>1. 1 \in 1 .. HeadSize /\ 1 \in 1 .. Len(s)
    BY SizesTyped, LenProperties
  <2>2. s[1] # Junk /\ s[1] \in Received
    BY <1>1, <2>1, ElementOfSeq
  <2>3. i \in 1 .. Len(script)
    BY <2>2, CellTyped
  <2>4. r = script[i]
    BY <1>1 DEF Headers
  <2> QED
    BY <2>3, <2>4, ScriptInRequests
<1>2. CASE ~ \A k \in 1 .. HeadSize : s[k] = <<i, k>> /\ s[k] # Junk
  <2> HIDE DEF i
  <2> QED
    BY <1>2 DEF Headers, i
<1> QED
  BY <1>1, <1>2

LEMMA MeaningTyped ==
  ASSUME Setting, NEW m, NEW r \in Meanings(m)
  PROVE  r \in Requests /\ Origin(m) \in Nat
<1>1. CASE \E i \in 1 .. Len(script) : m = Bytes(i)
  <2>1. PICK i \in 1 .. Len(script) : m = Bytes(i)
    BY <1>1
  <2>2. m[1][1] = i
    BY <2>1, BytesTyped
  <2>3. r = script[i] /\ Origin(m) = i
    BY <1>1, <2>2 DEF Meanings, Origin
  <2>4. i \in Nat
    BY ClientTyped
  <2> QED
    BY <2>3, <2>4, ScriptInRequests
<1>2. CASE ~ \E i \in 1 .. Len(script) : m = Bytes(i)
  BY <1>2 DEF Meanings, Origin
<1> QED
  BY <1>1, <1>2

-----------------------------------------------------------------------------
(* Reading, serving and answering, well typed                              *)

ConnInv == Setting /\ StreamOK /\ ParamsOK

(* What is read is a piece of what was sent.                               *)
LEMMA ChunkRead ==
  ASSUME StreamOK, NEW n \in Chunks
  PROVE  /\ n \in 0 .. Len(wire)
         /\ SubSeq(wire, 1, n) \in Seq(Received)
         /\ SubSeq(wire, n + 1, Len(wire)) \in Seq(Received)
         /\ SubSeq(wire, 1, n) \o SubSeq(wire, n + 1, Len(wire)) = wire
<1>1. wire \in Seq(Received) /\ Len(wire) \in Nat
  BY LenProperties DEF StreamOK
<1>2. n \in 0 .. Len(wire)
  BY <1>1, SizesTyped DEF Chunks
<1> QED
  BY <1>1, <1>2, CutInTwo

(* Bytes that are appended lie where there is room for them.               *)
LEMMA Appended ==
  ASSUME NEW s \in Seq(Received), NEW cells \in Seq(Received),
         NEW where, NEW capacity, AppendCells(s, cells, where, capacity)
  PROVE  /\ stream' = s \o cells /\ stream' \in Seq(Received)
         /\ Len(stream') = Len(s) + Len(cells)
         /\ place' \in {"own", where}
         /\ place' # "own" => ~(Len(stream') > capacity)
BY ConcatProperties DEF AppendCells

(* More is read: the place that has no room is left.                       *)
LEMMA RoomKept ==
  ASSUME StreamOK, NEW cells \in Seq(Received), AppendCells(stream, cells, place, Capacity)
  PROVE  /\ stream' \in Seq(Received) /\ place' \in {"shared", "slab", "own"}
         /\ place' = "shared" => base + Len(stream') <= SharedSize
         /\ place' = "slab" => Len(stream') <= size
<1> USE DEF StreamOK
<1>1. /\ stream' \in Seq(Received) /\ place' \in {"own", place}
      /\ place' # "own" => ~(Len(stream') > Capacity)
  BY Appended
<1>2. Len(stream') \in Nat
  BY <1>1, LenProperties
<1>3. CASE place' = "shared"
  <2>1. place = "shared" /\ Capacity = SharedSize - base
    BY <1>1, <1>3 DEF Capacity
  <2> QED
    BY <1>1, <1>2, <1>3, <2>1, SizesTyped
<1>4. CASE place' = "slab"
  <2>1. place = "slab" /\ Capacity = size
    BY <1>1, <1>4 DEF Capacity
  <2> QED
    BY <1>1, <1>2, <1>4, <2>1
<1> QED
  BY <1>1, <1>3, <1>4

LEMMA PlaceKeeps ==
  ASSUME StreamOK, NEW cells \in Seq(Received), NEW r \in ProtocolRequests, Place(cells, r),
         held \in BOOLEAN
  PROVE  /\ stream' = stream \o cells /\ stream' \in Seq(Received)
         /\ place' \in {"shared", "slab", "own"} /\ base' = 0 /\ held' \in BOOLEAN
         /\ place' = "shared" => Len(stream') <= SharedSize
         /\ place' = "slab" => Len(stream') <= r.size
<1>1. stream \in Seq(Received) /\ r.size \in Nat
  BY DEF StreamOK, ProtocolRequests
<1>2. CASE r.size < SharedSize
  <2>1. AppendCells(stream, cells, "shared", SharedSize) /\ base' = 0 /\ held' = held
    BY <1>2 DEF Place
  <2>2. /\ stream' = stream \o cells /\ stream' \in Seq(Received)
        /\ place' \in {"own", "shared"} /\ (place' # "own" => ~(Len(stream') > SharedSize))
    BY <1>1, <2>1, Appended
  <2>3. Len(stream') \in Nat
    BY <2>2, LenProperties
  <2> QED
    BY <2>1, <2>2, <2>3, SizesTyped
<1>3. CASE ~(r.size < SharedSize)
  <2>1. AppendCells(stream, cells, "slab", r.size) /\ base' = 0 /\ held' = TRUE
    BY <1>3 DEF Place
  <2>2. /\ stream' = stream \o cells /\ stream' \in Seq(Received)
        /\ place' \in {"own", "slab"} /\ (place' # "own" => ~(Len(stream') > r.size))
    BY <1>1, <2>1, Appended
  <2>3. Len(stream') \in Nat
    BY <2>2, LenProperties
  <2> QED
    BY <1>1, <2>1, <2>2, <2>3
<1> QED
  BY <1>2, <1>3

StreamPart(s, p, b, n) ==
  /\ s \in Seq(Received) /\ p \in {"shared", "slab", "own"} /\ b \in Nat /\ n \in Nat
  /\ p = "shared" => b + Len(s) <= SharedSize
  /\ p = "slab" => Len(s) <= n

(* The three ways a turn of the loop can go.                               *)
LEMMA FramedWays ==
  ASSUME ConnInv, NEW cells \in Seq(Received), Framed(cells)
  PROVE  \/ /\ Len(stream \o cells) < HeadSize /\ stream' = stream \o cells
            /\ UNCHANGED <<pc, base, size, held, handled>>
            /\ StreamPart(stream', place', base', size')
         \/ /\ Len(stream \o cells) >= HeadSize
            /\ \E r \in Headers(stream \o cells) : r.form = "kind"
            /\ pc' = "failing"
            /\ handled' = Append(handled, [req |-> (stream \o cells)[1][1], served |-> FALSE])
            /\ UNCHANGED <<stream, place, base, size, held>>
         \/ /\ Len(stream \o cells) >= HeadSize /\ stream' = stream \o cells
            /\ \E r \in Headers(stream \o cells) : r.form # "kind" /\ size' = r.size
            /\ pc' = "body" /\ UNCHANGED handled /\ held' \in BOOLEAN
            /\ StreamPart(stream', place', base', size')
<1> DEFINE all == stream \o cells
<1>1. stream \in Seq(Received) /\ all \in Seq(Received) /\ Len(all) \in Nat
  BY ConcatProperties, LenProperties DEF ConnInv, StreamOK
<1>2. CASE Len(all) < HeadSize
  <2>1. AppendCells(stream, cells, place, Capacity) /\ UNCHANGED <<pc, base, size, held, handled>>
    BY <1>2 DEF Framed
  <2>2. stream' = all
    BY <2>1 DEF AppendCells
  <2>3. StreamPart(stream', place', base', size')
    <3>1. /\ stream' \in Seq(Received) /\ place' \in {"shared", "slab", "own"}
          /\ place' = "shared" => base + Len(stream') <= SharedSize
          /\ place' = "slab" => Len(stream') <= size
      BY <2>1, RoomKept DEF ConnInv
    <3> QED
      BY <2>1, <3>1 DEF StreamPart, ConnInv, StreamOK
  <2> HIDE DEF all
  <2> QED
    BY <1>2, <2>1, <2>2, <2>3 DEF all
<1>3. CASE ~(Len(all) < HeadSize)
  <2>1. Len(all) >= HeadSize
    <3> HIDE DEF all
    <3> QED
      BY <1>1, <1>3, SizesTyped
  <2>2. PICK r \in Headers(all) :
            IF r.form = "kind"
            THEN /\ pc' = "failing"
                 /\ handled' = Append(handled, [req |-> all[1][1], served |-> FALSE])
                 /\ UNCHANGED <<stream, place, base, size, held>>
            ELSE /\ pc' = "body"
                 /\ size' = r.size
                 /\ Place(cells, r)
                 /\ UNCHANGED handled
    BY <1>3 DEF Framed
  <2>3. r \in ProtocolRequests
    <3> HIDE DEF all
    <3>1. Setting
      BY DEF ConnInv
    <3> QED
      BY <1>1, <2>1, <2>2, <3>1, HeaderTyped, RequestsTyped
  <2>4. CASE r.form = "kind"
    <3> HIDE DEF all
    <3> QED
      BY <2>1, <2>2, <2>4 DEF all
  <2>5. CASE r.form # "kind"
    <3>1. pc' = "body" /\ size' = r.size /\ Place(cells, r) /\ UNCHANGED handled
      BY <2>2, <2>5
    <3>2. /\ stream' = all /\ stream' \in Seq(Received)
          /\ place' \in {"shared", "slab", "own"} /\ base' = 0 /\ held' \in BOOLEAN
          /\ place' = "shared" => Len(stream') <= SharedSize
          /\ place' = "slab" => Len(stream') <= r.size
      BY <2>3, <3>1, PlaceKeeps DEF ConnInv, ParamsOK
    <3>3. r.size \in Nat /\ Len(stream') \in Nat
      BY <2>3, <3>2, LenProperties DEF ProtocolRequests
    <3>4. StreamPart(stream', place', base', size')
      BY <3>1, <3>2, <3>3 DEF StreamPart
    <3> HIDE DEF all
    <3> QED
      BY <2>1, <2>2, <2>5, <3>1, <3>2, <3>4 DEF all
  <2> QED
    BY <2>4, <2>5
<1> QED
  BY <1>2, <1>3

LEMMA FramedKeeps ==
  ASSUME ConnInv, NEW cells \in Seq(Received), Framed(cells), pc = "read",
         Received' = Received, Requests' = Requests,
         wire' \in Seq(Received), reading' \in BOOLEAN,
         UNCHANGED <<message, fastreturn, overwritten>>
  PROVE  StreamOK' /\ ParamsOK'
<1> DEFINE all == stream \o cells
           Handled == Seq([req : Nat, served : BOOLEAN])
<1>1. /\ handled \in Handled /\ overwritten \in BOOLEAN /\ pc = "read"
      /\ message \in Requests \cup {None} /\ fastreturn = None /\ held \in BOOLEAN
  BY DEF ConnInv, StreamOK, ParamsOK
<1>2. pc' \in {"read", "failing", "body"} /\ handled' \in Handled /\ held' \in BOOLEAN
      /\ StreamPart(stream', place', base', size')
  <2>1. CASE /\ Len(all) < HeadSize /\ stream' = all
             /\ UNCHANGED <<pc, base, size, held, handled>>
             /\ StreamPart(stream', place', base', size')
    BY <1>1, <2>1
  <2>2. CASE /\ Len(all) >= HeadSize
             /\ \E r \in Headers(all) : r.form = "kind"
             /\ pc' = "failing"
             /\ handled' = Append(handled, [req |-> all[1][1], served |-> FALSE])
             /\ UNCHANGED <<stream, place, base, size, held>>
    <3>1. all \in Seq(Received)
      BY ConcatProperties DEF ConnInv, StreamOK
    <3>2. all[1][1] \in Nat
      <4> HIDE DEF all
      <4>1. 1 \in 1 .. Len(all)
        BY <2>2, <3>1, LenProperties, SizesTyped
      <4>2. all[1] \in Received
        BY <3>1, <4>1, ElementOfSeq
      <4> QED
        BY <4>2, CellTyped DEF ConnInv
    <3>3. handled' \in Handled
      <4>1. [req |-> all[1][1], served |-> FALSE] \in [req : Nat, served : BOOLEAN]
        BY <3>2
      <4> HIDE DEF all
      <4> QED
        BY <1>1, <2>2, <4>1, AppendProperties
    <3>4. StreamPart(stream', place', base', size')
      BY <2>2 DEF StreamPart, ConnInv, StreamOK
    <3> QED
      BY <1>1, <2>2, <3>3, <3>4
  <2>3. CASE /\ Len(all) >= HeadSize /\ stream' = all
             /\ \E r \in Headers(all) : r.form # "kind" /\ size' = r.size
             /\ pc' = "body" /\ UNCHANGED handled /\ held' \in BOOLEAN
             /\ StreamPart(stream', place', base', size')
    BY <1>1, <2>3
  <2> QED
    BY <2>1, <2>2, <2>3, FramedWays
<1> HIDE DEF all
<1>3. StreamOK'
  BY <1>1, <1>2 DEF StreamOK, StreamPart
<1>4. ParamsOK'
  BY <1>1, <1>2 DEF ParamsOK
<1> QED
  BY <1>3, <1>4

LEMMA ReadKeeps ==
  ASSUME ConnInv, ReadHeader \/ HeaderThere, Received' = Received, Requests' = Requests
  PROVE  StreamOK' /\ ParamsOK'
<1>1. pc = "read" /\ reading' \in BOOLEAN /\ UNCHANGED <<message, fastreturn, overwritten>>
  BY DEF ReadHeader, HeaderThere, NoteReading
<1>2. CASE ReadHeader
  <2>1. PICK n \in Chunks : Framed(SubSeq(wire, 1, n)) /\ wire' = SubSeq(wire, n + 1, Len(wire))
    BY <1>2 DEF ReadHeader
  <2>2. SubSeq(wire, 1, n) \in Seq(Received) /\ wire' \in Seq(Received)
    BY <2>1, ChunkRead DEF ConnInv
  <2> QED
    BY <1>1, <2>1, <2>2, FramedKeeps
<1>3. CASE HeaderThere
  <2>1. Framed(<<>>) /\ wire' = wire /\ <<>> \in Seq(Received) /\ wire \in Seq(Received)
    BY <1>3, EmptySeq DEF HeaderThere, ConnInv, StreamOK
  <2> QED
    BY <1>1, <2>1, FramedKeeps
<1> QED
  BY <1>2, <1>3

LEMMA ReadBodyKeeps ==
  ASSUME ConnInv, ReadBody, Received' = Received, Requests' = Requests
  PROVE  StreamOK' /\ ParamsOK'
<1>1. PICK n \in Chunks : /\ AppendCells(stream, SubSeq(wire, 1, n), place, Capacity)
                          /\ wire' = SubSeq(wire, n + 1, Len(wire))
  BY DEF ReadBody
<1>2. SubSeq(wire, 1, n) \in Seq(Received) /\ wire' \in Seq(Received)
  BY <1>1, ChunkRead DEF ConnInv
<1>3. /\ stream' \in Seq(Received) /\ place' \in {"shared", "slab", "own"}
      /\ place' = "shared" => base + Len(stream') <= SharedSize
      /\ place' = "slab" => Len(stream') <= size
  BY <1>1, <1>2, RoomKept DEF ConnInv
<1>4. UNCHANGED <<pc, base, size, reading, message, held, fastreturn, handled, overwritten>>
  BY DEF ReadBody, paramVars, ghosts
<1>5. StreamOK'
  BY <1>2, <1>3, <1>4 DEF ConnInv, StreamOK
<1>6. ParamsOK'
  BY <1>4 DEF ConnInv, ParamsOK
<1> QED
  BY <1>5, <1>6

(* The bytes of a request are cut off.                                     *)
LEMMA CutKeeps ==
  ASSUME StreamOK, Len(stream) >= size, NEW m, Cut(m)
  PROVE  /\ StreamPart(stream', place', base', size)
         /\ SubSeq(stream, 1, size) \in Seq(Received)
         /\ Len(SubSeq(stream, 1, size)) = size
         /\ SubSeq(stream, 1, size) \o stream' = stream
<1> USE DEF StreamOK
<1>1. size \in 0 .. Len(stream) /\ Len(stream) \in Nat /\ size \in Nat
  BY LenProperties
<1>2. /\ SubSeq(stream, 1, size) \in Seq(Received)
      /\ Len(SubSeq(stream, 1, size)) = size
      /\ SubSeq(stream, size + 1, Len(stream)) \in Seq(Received)
      /\ Len(SubSeq(stream, size + 1, Len(stream))) = Len(stream) - size
      /\ SubSeq(stream, 1, size) \o SubSeq(stream, size + 1, Len(stream)) = stream
  BY <1>1, CutInTwo
<1>3. /\ stream' = SubSeq(stream, size + 1, Len(stream))
      /\ base' = IF place = "shared" /\ Len(stream) > size THEN base + size ELSE 0
      /\ place' = IF Len(stream) > size THEN place ELSE "own"
  BY DEF Cut
<1>4. stream' \in Seq(Received) /\ Len(stream') = Len(stream) - size
  BY <1>2, <1>3
<1>5. base' \in Nat /\ place' \in {"shared", "slab", "own"}
  BY <1>1, <1>3
<1>6. ASSUME place' = "shared" PROVE base' + Len(stream') <= SharedSize
  <2>1. place = "shared" /\ base' = base + size /\ base + Len(stream) <= SharedSize
    BY <1>3, <1>6
  <2>2. base + size + (Len(stream) - size) = base + Len(stream)
    BY <1>1
  <2> QED
    BY <1>4, <2>1, <2>2
<1>7. ASSUME place' = "slab" PROVE Len(stream') <= size
  <2>1. place = "slab" /\ Len(stream) <= size
    BY <1>3, <1>7
  <2> QED
    BY <1>1, <1>4, <2>1
<1> QED
  BY <1>1, <1>2, <1>3, <1>4, <1>5, <1>6, <1>7 DEF StreamPart

LEMMA DecodeKeeps ==
  ASSUME ConnInv, Decode, Received' = Received, Requests' = Requests
  PROVE  StreamOK' /\ ParamsOK'
<1> DEFINE m == SubSeq(stream, 1, size)
<1>1. /\ pc = "body" /\ Len(stream) >= size /\ Cut(m)
      /\ UNCHANGED <<wire, size, reading, held, fastreturn, overwritten>>
  BY DEF Decode
<1>2. PICK r \in Meanings(m) :
         /\ handled' = Append(handled, [req |-> Origin(m), served |-> r.form = "ok"])
         /\ IF r.form = "ok"
            THEN pc' = "serve" /\ message' = r /\ StateServing
            ELSE pc' = "failing" /\ UNCHANGED <<message, statsVars>>
  BY DEF Decode
<1>3. StreamPart(stream', place', base', size)
  BY <1>1, CutKeeps DEF ConnInv
<1>4. r \in Requests /\ Origin(m) \in Nat
  BY <1>2, MeaningTyped DEF ConnInv
<1> HIDE DEF m
<1>5. handled' \in Seq([req : Nat, served : BOOLEAN])
  <2>1. [req |-> Origin(m), served |-> r.form = "ok"] \in [req : Nat, served : BOOLEAN]
    BY <1>4
  <2>2. handled \in Seq([req : Nat, served : BOOLEAN])
    BY DEF ConnInv, StreamOK
  <2> QED
    BY <1>2, <2>1, <2>2, AppendProperties
<1>6. /\ pc' \in {"serve", "failing"} /\ message' \in Requests \cup {None}
      /\ pc' = "serve" => message' \in Requests
  BY <1>2, <1>4 DEF ConnInv, ParamsOK
<1>7. StreamOK'
  BY <1>1, <1>3, <1>5, <1>6 DEF ConnInv, StreamOK, StreamPart
<1>8. fastreturn' = None /\ held' \in BOOLEAN
  BY <1>1 DEF ConnInv, ParamsOK
<1>9. ParamsOK'
  BY <1>6, <1>8 DEF ParamsOK
<1> QED
  BY <1>7, <1>9

LEMMA ServeKeeps ==
  ASSUME ConnInv, Serve, Received' = Received, Requests' = Requests
  PROVE  StreamOK' /\ ParamsOK'
<1>1. /\ pc = "serve" /\ pc' = "send" /\ message' = message /\ message \in Requests
      /\ fastreturn = None /\ held \in BOOLEAN
      /\ UNCHANGED <<wire, stream, place, base, size, reading, handled, overwritten>>
  BY DEF Serve, ConnInv, ParamsOK, streamVars, ghosts
<1>2. fastreturn' \in {None, Len(handled)} /\ held' \in BOOLEAN
  <2>1. message.conn_ex \in BOOLEAN /\ message.fast \in BOOLEAN
    BY <1>1, RequestsTyped DEF ConnInv, ProtocolRequests
  <2>2. CASE message.conn_ex
    BY <1>1, <2>2 DEF Serve
  <2>3. CASE ~message.conn_ex
    <3> DEFINE copied == ~message.fast /\ fastreturn = None /\ message.resp > ReadSize
    <3>1. /\ fastreturn' = IF message.fast \/ copied THEN Len(handled) ELSE fastreturn
          /\ held' = (held \/ copied)
      BY <2>3 DEF Serve
    <3> HIDE DEF copied
    <3>2. (held \/ copied) \in BOOLEAN
      OBVIOUS
    <3> QED
      BY <1>1, <3>1, <3>2
  <2> QED
    BY <2>1, <2>2, <2>3
<1>3. StreamOK'
  BY <1>1 DEF ConnInv, StreamOK
<1>4. ParamsOK'
  BY <1>1, <1>2 DEF ParamsOK
<1> QED
  BY <1>3, <1>4

(* Only what is put over bytes that wait changes them.                     *)
LEMMA WriteSharedKeeps ==
  ASSUME StreamOK, NEW n, WriteShared(n)
  PROVE  /\ stream' \in Seq(Received) /\ Len(stream') = Len(stream)
         /\ overwritten' \in BOOLEAN
         /\ ~overwritten' => ~overwritten /\ stream' = stream
<1> DEFINE L == Len(stream)
           hit == {k \in 1 .. L : place = "shared" /\ base + k <= n}
<1>1. stream \in Seq(Received) /\ L \in Nat /\ stream = [k \in 1 .. L |-> stream[k]]
      /\ \A k \in 1 .. L : stream[k] \in Received
  BY LenProperties, ElementOfSeq DEF StreamOK
<1>2. /\ stream' = [k \in 1 .. L |-> IF k \in hit THEN Junk ELSE stream[k]]
      /\ overwritten' = (overwritten \/ hit # {})
  BY DEF WriteShared
<1> HIDE DEF hit
<1>3. stream' \in [1 .. L -> Received]
  BY <1>1, <1>2, JunkIsReceived
<1>4. stream' \in Seq(Received)
  BY <1>1, <1>3, SeqDef
<1>5. Len(stream') = L
  BY <1>1, <1>3, <1>4
<1>6. ASSUME hit = {} PROVE stream' = stream
  BY <1>1, <1>2, <1>6
<1> QED
  BY <1>2, <1>4, <1>5, <1>6 DEF StreamOK

LEMMA AnswerWays ==
  ASSUME Answer
  PROVE  \/ /\ message.skip /\ UNCHANGED <<stream, overwritten, answers>>
            /\ LET len == IF message.conn_ex THEN 0 ELSE message.resp
               IN StateKeepalive(len, len, TRUE)
         \/ LET len == IF message.conn_ex THEN 0 ELSE message.resp
                n == Len(handled)
                content == IF fastreturn = None THEN n ELSE fastreturn
            IN \E d \in Deliveries(len) :
                 /\ Compresses(len) => HasCompressor
                 /\ WriteShared(d.written)
                 /\ answers' = Append(answers, [of |-> n, content |-> content,
                                                said |-> d.said])
                 /\ StateKeepalive(len, d.sent, FALSE)
BY DEF Answer, AnswerLength

LEMMA AnswerKeeps ==
  ASSUME ConnInv, Answer, Received' = Received, Requests' = Requests
  PROVE  StreamOK' /\ ParamsOK'
<1>1. /\ pc = "send" /\ pc' = "read" /\ message' = None /\ reading' = FALSE
      /\ held' = FALSE /\ fastreturn' = None
      /\ UNCHANGED <<wire, place, base, size, handled>>
  BY DEF Answer, Cleanup
<1>2. stream' \in Seq(Received) /\ Len(stream') = Len(stream) /\ overwritten' \in BOOLEAN
  <2>1. CASE UNCHANGED <<stream, overwritten>>
    BY <2>1 DEF ConnInv, StreamOK
  <2>2. CASE \E n : WriteShared(n)
    BY <2>2, WriteSharedKeeps DEF ConnInv
  <2> QED
    BY <2>1, <2>2, AnswerWays
<1>3. StreamOK'
  BY <1>1, <1>2 DEF ConnInv, StreamOK
<1>4. ParamsOK'
  BY <1>1 DEF ParamsOK
<1> QED
  BY <1>3, <1>4

LEMMA ConnKept ==
  ASSUME ConnInv, [Next]_vars
  PROVE  ConnInv'
<1>1. Setting' /\ Received' = Received /\ Requests' = Requests
  BY SettingKept DEF ConnInv
<1>2. CASE OnlyTime
  <2>1. StreamOK'
    BY <1>1, <1>2 DEF ConnInv, StreamOK, OnlyTime, streamVars, ghosts
  <2>2. ParamsOK'
    BY <1>1, <1>2 DEF ConnInv, ParamsOK, OnlyTime, paramVars, ghosts
  <2> QED
    BY <1>1, <2>1, <2>2 DEF ConnInv
<1>3. CASE Accept
  <2>1. StreamOK'
    BY <1>1, <1>3 DEF Accept, ConnInv, StreamOK, streamVars, ghosts
  <2>2. ParamsOK'
    BY <1>1, <1>3 DEF Accept, ConnInv, ParamsOK, paramVars, ghosts
  <2> QED
    BY <1>1, <2>1, <2>2 DEF ConnInv
<1>4. CASE ReadHeader \/ HeaderThere
  BY <1>1, <1>4, ReadKeeps DEF ConnInv
<1>5. CASE ReadBody
  BY <1>1, <1>5, ReadBodyKeeps DEF ConnInv
<1>6. CASE ReadFails
  <2>1. StreamOK'
    BY <1>1, <1>6 DEF ReadFails, ConnInv, StreamOK, streamVars, ghosts
  <2>2. ParamsOK'
    BY <1>1, <1>6 DEF ReadFails, ConnInv, ParamsOK, paramVars, ghosts
  <2> QED
    BY <1>1, <2>1, <2>2 DEF ConnInv
<1>7. CASE Decode
  BY <1>1, <1>7, DecodeKeeps DEF ConnInv
<1>8. CASE Serve
  BY <1>1, <1>8, ServeKeeps DEF ConnInv
<1>9. CASE Answer
  BY <1>1, <1>9, AnswerKeeps DEF ConnInv
<1>10. CASE Fail
  <2>1. StreamOK'
    BY <1>1, <1>10 DEF Fail, ConnInv, StreamOK, streamVars, ghosts
  <2>2. ParamsOK'
    BY <1>1, <1>10 DEF Fail, ConnInv, ParamsOK, paramVars, ghosts
  <2> QED
    BY <1>1, <2>1, <2>2 DEF ConnInv
<1>11. CASE Finish
  <2>1. <<>> \in Seq(Received) /\ Len(<<>>) = 0
    BY EmptySeq
  <2>2. StreamOK'
    BY <1>1, <1>11, <2>1 DEF Finish, ConnInv, StreamOK, ghosts
  <2>3. ParamsOK'
    BY <1>1, <1>11 DEF Finish, ConnInv, ParamsOK
  <2> QED
    BY <1>1, <2>2, <2>3 DEF ConnInv
<1>12. CASE Crash
  <2>1. StreamOK'
    BY <1>1, <1>12 DEF Crash, ConnInv, StreamOK, streamVars, ghosts
  <2>2. ParamsOK'
    BY <1>1, <1>12 DEF Crash, ConnInv, ParamsOK, paramVars, ghosts
  <2> QED
    BY <1>1, <2>1, <2>2 DEF ConnInv
<1> QED
  BY <1>2, <1>3, <1>4, <1>5, <1>6, <1>7, <1>8, <1>9, <1>10, <1>11, <1>12, StepOrTime DEF Step

-----------------------------------------------------------------------------
(* What the client sends                                                   *)

LEMMA SentIsFlat ==
  ASSUME Setting, NEW n \in 0 .. Len(script)
  PROVE  /\ [i \in 1 .. n |-> Bytes(i)] \in Seq(Seq(Received))
         /\ Sent(n) = FlattenSeq([i \in 1 .. n |-> Bytes(i)])
<1> DEFINE s == SubSeq(script, 1, n)
           p == [i \in 1 .. n |-> Bytes(i)]
<1>1. script \in Seq(ProtocolRequests) /\ Len(script) \in Nat /\ n \in Nat
  BY ClientTyped
<1>2. s \in Seq(ProtocolRequests) /\ Len(s) = n
  BY <1>1, CutInTwo
<1>3. \A i \in 1 .. n : s[i] = script[i]
  BY <1>1
<1>4. p \in Seq(Seq(Received))
  <2>1. \A i \in 1 .. n : Bytes(i) \in Seq(Received)
    BY <1>1, BytesTyped
  <2>2. p \in [1 .. n -> Seq(Received)]
    BY <2>1
  <2> QED
    BY <1>1, <2>2, SeqDef
<1>5. [i \in 1 .. Len(s) |-> [k \in 1 .. s[i].size |-> <<i, k>>]] = p
  BY <1>2, <1>3 DEF Bytes
<1>6. Wire(s) = FlattenSeq(p)
  <2> HIDE DEF s, p
  <2> QED
    BY <1>5 DEF Wire
<1> QED
  BY <1>4, <1>6 DEF Sent

LEMMA SentTyped ==
  ASSUME Setting, NEW n \in 0 .. Len(script)
  PROVE  Sent(n) \in Seq(Received)
<1> DEFINE p == [i \in 1 .. n |-> Bytes(i)]
<1>1. p \in Seq(Seq(Received)) /\ Sent(n) = FlattenSeq(p)
  BY SentIsFlat
<1> HIDE DEF p
<1> QED
  BY <1>1, FlattenType

LEMMA SentAll ==
  ASSUME Setting
  PROVE  Sent(0) = <<>> /\ Sent(Len(script)) = Wire(script) /\ Wire(script) \in Seq(Received)
<1>1. script \in Seq(ProtocolRequests) /\ Len(script) \in Nat
  BY ClientTyped
<1>2. Sent(Len(script)) = Wire(script)
  BY <1>1, SubSeqFull DEF Sent
<1>3. Sent(0) = <<>>
  <2>1. [i \in 1 .. 0 |-> Bytes(i)] = <<>> /\ 0 \in 0 .. Len(script)
    BY <1>1
  <2> QED
    BY <2>1, SentIsFlat, FlattenOfNone
<1>4. Len(script) \in 0 .. Len(script)
  BY <1>1
<1> QED
  BY <1>2, <1>3, <1>4, SentTyped

LEMMA SentStep ==
  ASSUME Setting, NEW n \in Nat, n < Len(script)
  PROVE  Sent(n + 1) = Sent(n) \o Bytes(n + 1)
<1> DEFINE p == [i \in 1 .. n |-> Bytes(i)]
           q == [i \in 1 .. n + 1 |-> Bytes(i)]
<1>1. n \in 0 .. Len(script) /\ n + 1 \in 0 .. Len(script) /\ n + 1 \in 1 .. Len(script)
  BY ClientTyped
<1>2. p \in Seq(Seq(Received)) /\ Sent(n) = FlattenSeq(p)
  BY <1>1, SentIsFlat
<1>3. q \in Seq(Seq(Received)) /\ Sent(n + 1) = FlattenSeq(q)
  <2>1. PICK k \in 0 .. Len(script) : k = n + 1
    BY <1>1
  <2>2. /\ [i \in 1 .. k |-> Bytes(i)] \in Seq(Seq(Received))
        /\ Sent(k) = FlattenSeq([i \in 1 .. k |-> Bytes(i)])
    BY <2>1, SentIsFlat
  <2> QED
    BY <2>1, <2>2
<1>4. Bytes(n + 1) \in Seq(Received)
  BY <1>1, BytesTyped
<1>5. q = Append(p, Bytes(n + 1))
  <2>1. Len(p) = n /\ Len(q) = n + 1
    OBVIOUS
  <2>2. \A i \in 1 .. n : p[i] = Bytes(i) /\ q[i] = Bytes(i)
    OBVIOUS
  <2>3. q[n + 1] = Bytes(n + 1)
    OBVIOUS
  <2> HIDE DEF p, q
  <2> DEFINE a == Append(p, Bytes(n + 1))
  <2>4. /\ a \in Seq(Seq(Received)) /\ Len(a) = n + 1
        /\ \A i \in 1 .. n : a[i] = p[i]
        /\ a[n + 1] = Bytes(n + 1)
    BY <1>2, <1>4, <2>1, AppendProperties
  <2> HIDE DEF a
  <2>5. \A i \in 1 .. n + 1 : q[i] = a[i]
    BY <2>2, <2>3, <2>4
  <2>6. q = a
    BY <1>3, <2>1, <2>4, <2>5, SeqEqual
  <2> QED
    BY <2>6 DEF a
<1> HIDE DEF p, q
<1> QED
  BY <1>2, <1>3, <1>4, <1>5, FlattenAppend

LEMMA Regrouped ==
  ASSUME NEW a \in Seq(Received), NEW b \in Seq(Received), NEW c \in Seq(Received)
  PROVE  (a \o b) \o c = a \o (b \o c) /\ b \o c \in Seq(Received)
BY ConcatAssociative, ConcatProperties

(* What was sent first is the beginning of all that is sent.               *)
LEMMA SentFirst ==
  ASSUME Setting, NEW n \in 0 .. Len(script)
  PROVE  \E x \in Seq(Received) : Wire(script) = Sent(n) \o x
<1> DEFINE L == Len(script)
           Begins(d) == \E x \in Seq(Received) : Wire(script) = Sent(L - d) \o x
           G == {d \in Nat : d <= L => Begins(d)}
<1>1. L \in Nat
  BY ClientTyped
<1>2. 0 \in G
  <2>1. Wire(script) = Sent(L) \o <<>> /\ <<>> \in Seq(Received) /\ L - 0 = L
    BY <1>1, SentAll, ConcatEmptySeq, EmptySeq
  <2> QED
    BY <2>1
<1>3. ASSUME NEW d \in Nat, d \in G PROVE d + 1 \in G
  <2>1. SUFFICES ASSUME d + 1 <= L
                 PROVE  Begins(d + 1)
    <3> HIDE DEF Begins
    <3> QED
      OBVIOUS
  <2>2. PICK x \in Seq(Received) : Wire(script) = Sent(L - d) \o x
    BY <1>1, <1>3, <2>1
  <2>3. PICK k \in Nat : k = L - (d + 1)
    <3> HIDE DEF G, L
    <3>1. L - (d + 1) \in Nat
      BY <1>1, <2>1
    <3> QED
      BY <3>1
  <2>4. L - d = k + 1 /\ k < L /\ k + 1 \in 1 .. L /\ k \in 0 .. L
    BY <1>1, <2>3
  <2>5. Sent(k + 1) = Sent(k) \o Bytes(k + 1) /\ Bytes(k + 1) \in Seq(Received)
        /\ Sent(k) \in Seq(Received)
    BY <2>4, SentStep, SentTyped, BytesTyped
  <2>6. Wire(script) = (Sent(k) \o Bytes(k + 1)) \o x
    BY <2>2, <2>4, <2>5
  <2>7. /\ Wire(script) = Sent(k) \o (Bytes(k + 1) \o x)
        /\ Bytes(k + 1) \o x \in Seq(Received)
    BY <2>5, <2>6, Regrouped
  <2> QED
    BY <2>3, <2>7
<1>4. L - n \in G
  <2> HIDE DEF G
  <2>1. Nat \subseteq G
    BY <1>2, <1>3, NumberInduction
  <2> QED
    BY <1>1, <2>1
<1>5. L - n <= L /\ L - (L - n) = n
  BY <1>1
<1> QED
  <2>1. Begins(L - n)
    <3> HIDE DEF Begins
    <3> QED
      BY <1>4, <1>5
  <2> QED
    BY <1>5, <2>1

(* Behind what was sent first the next request begins, if there is one.    *)
LEMMA NextBegins ==
  ASSUME Setting, NEW n \in 0 .. Len(script), NEW rest \in Seq(Received),
         Sent(n) \o rest = Wire(script)
  PROVE  /\ n = Len(script) => rest = <<>>
         /\ n < Len(script) => \E x \in Seq(Received) : rest = Bytes(n + 1) \o x
<1>1. Len(script) \in Nat /\ n \in Nat /\ Sent(n) \in Seq(Received)
  BY ClientTyped, SentTyped
<1>2. ASSUME n = Len(script) PROVE rest = <<>>
  <2>1. Sent(n) \o rest = Sent(n)
    BY <1>2, SentAll
  <2> QED
    BY <1>1, <2>1, ConcatEqualIffEmpty
<1>3. ASSUME n < Len(script) PROVE \E x \in Seq(Received) : rest = Bytes(n + 1) \o x
  <2>1. n + 1 \in 0 .. Len(script) /\ n + 1 \in 1 .. Len(script)
    BY <1>1, <1>3
  <2>2. PICK x \in Seq(Received) : Wire(script) = Sent(n + 1) \o x
    BY <2>1, SentFirst
  <2>3. Bytes(n + 1) \in Seq(Received) /\ Sent(n + 1) = Sent(n) \o Bytes(n + 1)
    BY <1>1, <1>3, <2>1, BytesTyped, SentStep
  <2>4. Sent(n) \o rest = (Sent(n) \o Bytes(n + 1)) \o x
    BY <2>2, <2>3
  <2>5. /\ Sent(n) \o rest = Sent(n) \o (Bytes(n + 1) \o x)
        /\ Bytes(n + 1) \o x \in Seq(Received)
    BY <1>1, <2>3, <2>4, Regrouped
  <2>6. rest = Bytes(n + 1) \o x
    BY <1>1, <2>5, Cancelled
  <2> QED
    BY <2>6
<1> QED
  BY <1>2, <1>3

-----------------------------------------------------------------------------
(* Nothing is lost                                                         *)

LEMMA HeaderKnown ==
  ASSUME Setting, NEW s \in Seq(Received), NEW w \in Seq(Received), NEW x \in Seq(Received),
         NEW i \in 1 .. Len(script), s \o w = Bytes(i) \o x, Len(s) >= HeadSize
  PROVE  Headers(s) = {script[i]} /\ s[1][1] = i
<1>1. /\ Len(s) \in Nat /\ Len(w) \in Nat /\ script[i].size \in Nat
      /\ script[i].size >= HeadSize /\ i \in Nat /\ i # 0
  BY LenProperties, ClientTyped
<1>2. ASSUME NEW k \in 1 .. HeadSize PROVE s[k] = <<i, k>>
  <2>1. (s \o w)[k] = s[k]
    BY <1>1, SizesTyped, ConcatProperties
  <2>2. (Bytes(i) \o x)[k] = Bytes(i)[k] /\ Bytes(i)[k] = <<i, k>>
    <3>1. Len(Bytes(i)) = script[i].size /\ Bytes(i) \in Seq(Received)
      BY BytesTyped
    <3>2. k \in 1 .. script[i].size /\ k \in 1 .. Len(Bytes(i)) + Len(x) /\ k <= Len(Bytes(i))
      BY <1>1, <3>1, SizesTyped, LenProperties
    <3>3. (Bytes(i) \o x)[k] = Bytes(i)[k]
      BY <3>1, <3>2, ConcatProperties
    <3> QED
      BY <3>2, <3>3, BytesTyped
  <2> QED
    BY <2>1, <2>2
<1>3. s[1] = <<i, 1>> /\ s[1][1] = i
  BY <1>2, SizesTyped
<1>4. \A k \in 1 .. HeadSize : s[k] # Junk
  BY <1>1, <1>2 DEF Junk
<1>5. \A k \in 1 .. HeadSize : s[k] = <<s[1][1], k>> /\ s[k] # Junk
  BY <1>2, <1>3, <1>4
<1> QED
  BY <1>3, <1>5 DEF Headers

LEMMA MeaningKnown ==
  ASSUME Setting, NEW i \in 1 .. Len(script)
  PROVE  Meanings(Bytes(i)) = {script[i]} /\ Origin(Bytes(i)) = i
<1>1. Bytes(i)[1][1] = i
  BY BytesTyped
<1>2. \E j \in 1 .. Len(script) : Bytes(i) = Bytes(j)
  OBVIOUS
<1> QED
  BY <1>1, <1>2 DEF Meanings, Origin

Over == {"failing", "closing", "closed"}

LEMMA SentStays ==
  ASSUME script' = script
  PROVE  (\A n : Sent(n)' = Sent(n)) /\ Wire(script)' = Wire(script)
BY DEF Sent, Wire

LEMMA StillNothingLost ==
  ASSUME NothingLost, script' = script, handled' = handled,
         pc' \in Over \/ (pc \notin Over /\ stream' \o wire' = stream \o wire),
         pc' = "body" => pc = "body" /\ size' = size
  PROVE  NothingLost'
<1>1. /\ RequestsIntact /\ Len(handled) <= Len(script)
      /\ pc \notin Over => Sent(Len(handled)) \o (stream \o wire) = Wire(script)
  BY DEF NothingLost, Over
<1>2. pc' \notin Over => Sent(Len(handled))' \o (stream \o wire)' = Wire(script)'
  BY <1>1, SentStays
<1>3. RequestsIntact' /\ (Len(handled) <= Len(script))'
  BY <1>1 DEF RequestsIntact
<1> QED
  BY <1>2, <1>3 DEF NothingLost, Over

(* One more request was handled as it must be.                             *)
LEMMA OneMoreHandled ==
  ASSUME ConnInv, NothingLost, script' = script, Len(handled) < Len(script),
         handled' = Append(handled, [req |-> Len(handled) + 1,
                                     served |-> script[Len(handled) + 1].form = "ok"])
  PROVE  RequestsIntact' /\ Len(handled') = Len(handled) + 1
<1> DEFINE n == Len(handled)
           e == [req |-> n + 1, served |-> script[n + 1].form = "ok"]
<1>1. handled \in Seq([req : Nat, served : BOOLEAN]) /\ n \in Nat
  BY LenProperties DEF ConnInv, StreamOK
<1>2. e \in [req : Nat, served : BOOLEAN]
  BY <1>1
<1>3. handled' = Append(handled, e)
  OBVIOUS
<1> HIDE DEF e
<1>4. Len(handled') = n + 1 /\ handled'[n + 1] = e /\ \A i \in 1 .. n : handled'[i] = handled[i]
  BY <1>1, <1>2, <1>3, AppendProperties
<1>5. ASSUME NEW i \in 1 .. Len(handled')
      PROVE  handled'[i] = [req |-> i, served |-> script'[i].form = "ok"]
  <2>1. CASE i = n + 1
    BY <1>4, <2>1 DEF e
  <2>2. CASE i # n + 1
    <3>1. i \in 1 .. n
      BY <1>1, <1>4, <2>2
    <3> QED
      BY <1>4, <3>1 DEF NothingLost, RequestsIntact
  <2> QED
    BY <2>1, <2>2
<1> QED
  BY <1>4, <1>5 DEF RequestsIntact

LEMMA MovedOver ==
  ASSUME NEW s \in Seq(Received), NEW c \in Seq(Received), NEW w \in Seq(Received),
         NEW v, c \o w = v
  PROVE  (s \o c) \o w = s \o v
BY Regrouped

LEMMA FramedLosesNothing ==
  ASSUME ConnInv, NothingLost, pc = "read", NEW cells \in Seq(Received), Framed(cells),
         wire' \in Seq(Received), cells \o wire' = wire, script' = script
  PROVE  NothingLost'
<1> DEFINE all == stream \o cells
           n == Len(handled)
<1>1. /\ Setting /\ stream \in Seq(Received) /\ wire \in Seq(Received)
      /\ handled \in Seq([req : Nat, served : BOOLEAN])
      /\ n \in Nat /\ Len(script) \in Nat /\ n \in 0 .. Len(script)
  BY ClientTyped, LenProperties DEF ConnInv, StreamOK, NothingLost
<1>2. all \in Seq(Received) /\ all \o wire' = stream \o wire /\ stream \o wire \in Seq(Received)
  <2>1. stream \in Seq(Received)
    BY <1>1
  <2>2. (stream \o cells) \o wire' = stream \o wire
    <3>1. cells \in Seq(Received)
      OBVIOUS
    <3>2. wire' \in Seq(Received)
      OBVIOUS
    <3>3. cells \o wire' = wire
      OBVIOUS
    <3>4. (stream \o cells) \o wire' = stream \o (cells \o wire')
      BY <2>1, <3>1, <3>2, Regrouped
    <3> QED
      BY <3>3, <3>4
  <2>3. stream \o cells \in Seq(Received) /\ stream \o wire \in Seq(Received)
    BY <1>1, ConcatProperties
  <2> QED
    BY <2>2, <2>3
<1>3. Sent(n) \o (stream \o wire) = Wire(script)
  BY DEF NothingLost
<1> HIDE DEF all
<1>4. ASSUME Len(all) >= HeadSize
      PROVE  /\ n < Len(script) /\ n + 1 \in 1 .. Len(script)
             /\ Headers(all) = {script[n + 1]} /\ all[1][1] = n + 1
  <2>1. stream \o wire # <<>>
    <3>1. Len(all \o wire') = Len(all) + Len(wire') /\ Len(all) \in Nat /\ Len(wire') \in Nat
      BY <1>2, ConcatProperties, LenProperties
    <3>2. Len(all \o wire') # 0
      BY <1>4, <3>1, SizesTyped
    <3> QED
      BY <1>2, <3>2, EmptySeq
  <2>2. PICK rest \in Seq(Received) : rest = stream \o wire
    BY <1>2
  <2>3. Sent(n) \o rest = Wire(script)
    BY <1>3, <2>2
  <2>4. /\ n = Len(script) => rest = <<>>
        /\ n < Len(script) => \E x \in Seq(Received) : rest = Bytes(n + 1) \o x
    BY <1>1, <2>3, NextBegins
  <2>5. n < Len(script)
    BY <1>1, <2>1, <2>2, <2>4
  <2>6. PICK x \in Seq(Received) : stream \o wire = Bytes(n + 1) \o x
    BY <2>5, <2>2, <2>4
  <2>7. PICK i \in 1 .. Len(script) : i = n + 1
    BY <1>1, <2>5
  <2>8. all \o wire' = Bytes(i) \o x
    BY <1>2, <2>6, <2>7
  <2>9. Headers(all) = {script[i]} /\ all[1][1] = i
    BY <1>1, <1>2, <1>4, <2>8, HeaderKnown
  <2> QED
    BY <2>5, <2>7, <2>9
<1>5. CASE stream' = all /\ UNCHANGED <<pc, size, handled>>
  <2>1. stream' \o wire' = stream \o wire /\ pc \notin Over /\ pc' # "body"
    BY <1>2, <1>5 DEF Over
  <2> QED
    BY <1>5, <2>1, StillNothingLost
<1>6. CASE /\ Len(all) >= HeadSize
           /\ \E r \in Headers(all) : r.form = "kind"
           /\ pc' = "failing"
           /\ handled' = Append(handled, [req |-> all[1][1], served |-> FALSE])
  <2>1. script[n + 1].form = "kind" /\ all[1][1] = n + 1 /\ n < Len(script)
    BY <1>4, <1>6
  <2>2. (script[n + 1].form = "ok") = FALSE
    BY <2>1
  <2>3. handled' = Append(handled, [req |-> n + 1, served |-> script[n + 1].form = "ok"])
    BY <1>6, <2>1, <2>2
  <2>4. RequestsIntact' /\ Len(handled') = n + 1
    BY <2>1, <2>3, OneMoreHandled
  <2>5. Len(handled') <= Len(script')
    BY <1>1, <2>1, <2>4
  <2> QED
    BY <1>6, <2>4, <2>5 DEF NothingLost
<1>7. CASE /\ Len(all) >= HeadSize /\ stream' = all
           /\ \E r \in Headers(all) : r.form # "kind" /\ size' = r.size
           /\ pc' = "body" /\ UNCHANGED handled
  <2>1. /\ n < Len(script) /\ script[n + 1].form # "kind" /\ size' = script[n + 1].size
    BY <1>4, <1>7
  <2>2. Sent(n)' \o (stream' \o wire') = Wire(script)'
    BY <1>2, <1>3, <1>7, SentStays
  <2>3. RequestsIntact' /\ Len(handled)' <= Len(script)'
    BY <1>7 DEF NothingLost, RequestsIntact
  <2>4. Len(handled') = n /\ handled' = handled
    BY <1>7
  <2> QED
    BY <1>7, <2>1, <2>2, <2>3, <2>4 DEF NothingLost
<1> QED
  BY <1>5, <1>6, <1>7, FramedWays DEF all

LEMMA DecodeLosesNothing ==
  ASSUME ConnInv, NothingLost, Decode, script' = script
  PROVE  /\ NothingLost'
         /\ Len(handled') = Len(handled) + 1
         /\ pc' \in {"serve", "failing"}
         /\ pc' = "serve" => message' = script[Len(handled')]
<1> DEFINE m == SubSeq(stream, 1, size)
           n == Len(handled)
<1>1. /\ Setting /\ stream \in Seq(Received) /\ wire \in Seq(Received)
      /\ n \in Nat /\ Len(script) \in Nat /\ n \in 0 .. Len(script)
  BY ClientTyped, LenProperties DEF ConnInv, StreamOK, NothingLost
<1>2. pc = "body" /\ Len(stream) >= size /\ Cut(m) /\ wire' = wire
  BY DEF Decode
<1>3. /\ n < Len(script) /\ size = script[n + 1].size /\ script[n + 1].form # "kind"
      /\ Sent(n) \o (stream \o wire) = Wire(script)
  BY <1>2 DEF NothingLost
<1>4. stream \o wire \in Seq(Received)
  BY <1>1, ConcatProperties
<1>5. PICK x \in Seq(Received) : stream \o wire = Bytes(n + 1) \o x
  BY <1>1, <1>3, <1>4, NextBegins
<1>6. PICK i \in 1 .. Len(script) : i = n + 1
  BY <1>1, <1>3
<1>7. /\ m \in Seq(Received) /\ Len(m) = size /\ m \o stream' = stream
      /\ stream' \in Seq(Received)
  BY <1>2, CutKeeps DEF ConnInv, StreamPart
<1>8. PICK r \in Meanings(m) :
         /\ handled' = Append(handled, [req |-> Origin(m), served |-> r.form = "ok"])
         /\ IF r.form = "ok"
            THEN pc' = "serve" /\ message' = r /\ StateServing
            ELSE pc' = "failing" /\ UNCHANGED <<message, statsVars>>
  BY DEF Decode
<1> HIDE DEF m
<1>9. m = Bytes(i) /\ stream' \o wire = x /\ Meanings(m) = {script[i]} /\ Origin(m) = i
  <2>1. stream \o wire = Bytes(i) \o x /\ Len(m) = script[i].size
    BY <1>3, <1>5, <1>6, <1>7
  <2>2. PICK t \in Seq(Received) : t = stream'
    BY <1>7
  <2>3. stream = m \o t /\ stream \in Seq(Received) /\ wire \in Seq(Received)
    BY <1>1, <1>7, <2>2
  <2>4. Setting /\ m \in Seq(Received)
    BY <1>1, <1>7
  <2>5. m = Bytes(i) /\ t \o wire = x /\ Meanings(m) = {script[i]} /\ Origin(m) = i
    <3>1. t \in Seq(Received) /\ x \in Seq(Received) /\ i \in 1 .. Len(script)
      OBVIOUS
    <3>2. /\ stream \in Seq(Received) /\ wire \in Seq(Received) /\ m \in Seq(Received)
          /\ stream \o wire = Bytes(i) \o x /\ stream = m \o t /\ Len(m) = script[i].size
      BY <2>1, <2>3, <2>4
    <3>3. (m \o t) \o wire = m \o (t \o wire)
      BY <3>1, <3>2, Regrouped, ZenonT(60)
    <3>4. m \o (t \o wire) = Bytes(i) \o x
      BY <3>2, <3>3
    <3>5. PICK u \in Seq(Received), v \in Seq(Received) : u = t \o wire /\ v = Bytes(i)
      BY <2>4, <3>1, <3>2, ConcatProperties, BytesTyped
    <3>6. Len(m) = Len(v)
      BY <2>4, <3>2, <3>5, BytesTyped
    <3>7. m \o u = v \o x
      BY <3>4, <3>5
    <3>8. m = v /\ u = x
      BY <3>1, <3>2, <3>6, <3>7, SameParts
    <3> QED
      BY <2>4, <3>1, <3>5, <3>8, MeaningKnown
  <2> QED
    BY <2>2, <2>5
<1>10. r = script[n + 1] /\ Origin(m) = n + 1
  BY <1>6, <1>8, <1>9
<1>11. handled' = Append(handled, [req |-> n + 1, served |-> script[n + 1].form = "ok"])
  BY <1>8, <1>10
<1>12. RequestsIntact' /\ Len(handled') = n + 1
  BY <1>3, <1>11, OneMoreHandled
<1>13. PICK k \in Nat : k = n + 1
  BY <1>1
<1>14. Sent(k) \o (stream' \o wire') = Wire(script)
  <2>1. PICK a \in Seq(Received), b \in Seq(Received) : a = Sent(n) /\ b = Bytes(n + 1)
    BY <1>1, <1>6, SentTyped, BytesTyped
  <2>2. Sent(k) = a \o b
    BY <1>1, <1>3, <1>13, <2>1, SentStep
  <2>3. (a \o b) \o x = a \o (b \o x)
    BY Regrouped
  <2> QED
    BY <1>2, <1>3, <1>5, <1>9, <2>1, <2>2, <2>3
<1>15. Sent(k)' \o (stream' \o wire') = Wire(script)'
  <2>1. Sent(k)' = Sent(k) /\ Wire(script)' = Wire(script)
    BY SentStays
  <2> QED
    BY <1>14, <2>1
<1>16. Len(handled') <= Len(script') /\ pc' # "body" /\ Len(handled') = k
  BY <1>1, <1>3, <1>8, <1>12, <1>13
<1>17. NothingLost'
  BY <1>12, <1>15, <1>16 DEF NothingLost
<1>18. pc' \in {"serve", "failing"} /\ (pc' = "serve" => message' = script[Len(handled')])
  BY <1>8, <1>10, <1>13, <1>16
<1> QED
  BY <1>12, <1>17, <1>18

LEMMA KeptKept ==
  ASSUME ConnInv, Kept, [Next]_vars
  PROVE  Kept'
<1> SUFFICES ASSUME ~overwritten' PROVE NothingLost'
  BY DEF Kept
<1>1. script' = script
  BY ClientStays
<1>2. CASE OnlyTime
  <2>1. NothingLost /\ UNCHANGED <<pc, wire, stream, size, handled>>
    BY <1>2 DEF OnlyTime, streamVars, ghosts, Kept
  <2>2. pc' \in Over \/ (pc \notin Over /\ stream' \o wire' = stream \o wire)
    BY <2>1
  <2> QED
    BY <1>1, <2>1, <2>2, StillNothingLost
<1>3. CASE Accept
  <2>1. NothingLost /\ UNCHANGED <<wire, stream, handled>> /\ pc = "new" /\ pc' = "read"
    BY <1>3 DEF Accept, streamVars, ghosts, Kept
  <2>2. pc \notin Over /\ stream' \o wire' = stream \o wire /\ pc' # "body"
    BY <2>1 DEF Over
  <2> QED
    BY <1>1, <2>1, <2>2, StillNothingLost
<1>4. CASE ReadHeader
  <2>1. PICK n \in Chunks : Framed(SubSeq(wire, 1, n)) /\ wire' = SubSeq(wire, n + 1, Len(wire))
    BY <1>4 DEF ReadHeader
  <2>2. NothingLost /\ pc = "read"
    BY <1>4 DEF ReadHeader, Kept
  <2>3. /\ SubSeq(wire, 1, n) \in Seq(Received) /\ wire' \in Seq(Received)
        /\ SubSeq(wire, 1, n) \o wire' = wire
    BY <2>1, ChunkRead DEF ConnInv
  <2> QED
    BY <1>1, <2>1, <2>2, <2>3, FramedLosesNothing
<1>5. CASE HeaderThere
  <2>1. NothingLost /\ pc = "read" /\ Framed(<<>>) /\ wire' = wire
    BY <1>5 DEF HeaderThere, Kept
  <2>2. <<>> \in Seq(Received) /\ wire' \in Seq(Received) /\ <<>> \o wire' = wire
    BY <2>1, EmptySeq, ConcatEmptySeq DEF ConnInv, StreamOK
  <2> QED
    BY <1>1, <2>1, <2>2, FramedLosesNothing
<1>6. CASE ReadBody
  <2>1. PICK n \in Chunks : /\ AppendCells(stream, SubSeq(wire, 1, n), place, Capacity)
                            /\ wire' = SubSeq(wire, n + 1, Len(wire))
    BY <1>6 DEF ReadBody
  <2>2. NothingLost /\ UNCHANGED <<pc, size, handled>> /\ pc = "body"
    BY <1>6 DEF ReadBody, ghosts, Kept
  <2>3. /\ SubSeq(wire, 1, n) \in Seq(Received) /\ wire' \in Seq(Received)
        /\ SubSeq(wire, 1, n) \o wire' = wire
    BY <2>1, ChunkRead DEF ConnInv
  <2>4. stream' = stream \o SubSeq(wire, 1, n) /\ stream \in Seq(Received)
    BY <2>1 DEF AppendCells, ConnInv, StreamOK
  <2>5. (stream \o SubSeq(wire, 1, n)) \o wire' = stream \o (SubSeq(wire, 1, n) \o wire')
    BY <2>3, <2>4, Regrouped
  <2>6. pc \notin Over /\ stream' \o wire' = stream \o wire
    BY <2>2, <2>3, <2>4, <2>5 DEF Over
  <2> QED
    BY <1>1, <2>2, <2>6, StillNothingLost
<1>7. CASE ReadFails
  <2>1. NothingLost /\ UNCHANGED handled /\ pc' \in Over /\ pc' # "body"
    BY <1>7 DEF ReadFails, ghosts, Kept, Over
  <2> QED
    BY <1>1, <2>1, StillNothingLost
<1>8. CASE Decode
  <2>1. NothingLost
    BY <1>8 DEF Decode, Kept
  <2> QED
    BY <1>1, <1>8, <2>1, DecodeLosesNothing
<1>9. CASE Serve
  <2>1. NothingLost /\ UNCHANGED <<wire, stream, handled>> /\ pc = "serve" /\ pc' = "send"
    BY <1>9 DEF Serve, streamVars, ghosts, Kept
  <2>2. pc \notin Over /\ stream' \o wire' = stream \o wire /\ pc' # "body"
    BY <2>1 DEF Over
  <2> QED
    BY <1>1, <2>1, <2>2, StillNothingLost
<1>10. CASE Answer
  <2>1. pc = "send" /\ pc' = "read" /\ UNCHANGED <<wire, handled>>
    BY <1>10 DEF Answer
  <2>2. ~overwritten /\ stream' = stream
    <3>1. CASE UNCHANGED <<stream, overwritten>>
      BY <3>1
    <3>2. CASE \E n : WriteShared(n)
      BY <3>2, WriteSharedKeeps DEF ConnInv
    <3> QED
      BY <1>10, <3>1, <3>2, AnswerWays
  <2>3. NothingLost
    BY <2>2 DEF Kept
  <2>4. pc \notin Over /\ stream' \o wire' = stream \o wire /\ pc' # "body"
    BY <2>1, <2>2 DEF Over
  <2> QED
    BY <1>1, <2>1, <2>3, <2>4, StillNothingLost
<1>11. CASE Fail
  <2>1. NothingLost /\ UNCHANGED handled /\ pc' \in Over /\ pc' # "body"
    BY <1>11 DEF Fail, ghosts, Kept, Over
  <2> QED
    BY <1>1, <2>1, StillNothingLost
<1>12. CASE Finish
  <2>1. NothingLost /\ UNCHANGED handled /\ pc' \in Over /\ pc' # "body"
    BY <1>12 DEF Finish, ghosts, Kept, Over
  <2> QED
    BY <1>1, <2>1, StillNothingLost
<1>13. CASE Crash
  <2>1. NothingLost /\ UNCHANGED <<wire, stream, handled>> /\ pc = "send" /\ pc' = "crashed"
    BY <1>13 DEF Crash, streamVars, ghosts, Kept
  <2>2. pc \notin Over /\ stream' \o wire' = stream \o wire /\ pc' # "body"
    BY <2>1 DEF Over
  <2> QED
    BY <1>1, <2>1, <2>2, StillNothingLost
<1> QED
  BY <1>2, <1>3, <1>4, <1>5, <1>6, <1>7, <1>8, <1>9, <1>10, <1>11, <1>12, <1>13, StepOrTime
     DEF Step

-----------------------------------------------------------------------------
(* Negotiation and answers                                                 *)

LEMMA NegotiatedKept ==
  ASSUME ConnInv, Negotiated, [Next]_vars
  PROVE  Negotiated'
<1> USE DEF Negotiated
<1>1. UNCHANGED <<distance, enabled>>
  BY ClientStays
<1>2. distance \in 0 .. 2 /\ enabled \in SUBSET {"flate", "snappy"}
  BY ClientTyped DEF ConnInv
<1>3. CASE UNCHANGED <<comp, threshold>>
  BY <1>1, <1>3
<1>4. CASE Accept
  <2>1. /\ threshold' = IF distance > 0 THEN Threshold ELSE 0
        /\ comp' = IF distance > 0 /\ "flate" \in enabled /\ Threshold # 0
                   THEN "flate" ELSE None
    BY <1>4 DEF Accept, MakeConnEx
  <2> QED
    BY <1>1, <1>2, <2>1, SizesTyped
<1>5. CASE Serve
  <2>1. message \in ProtocolRequests
    BY <1>5, RequestsTyped DEF Serve, ConnInv, ParamsOK
  <2>2. message.threshold \in Nat
    BY <2>1 DEF ProtocolRequests
  <2>3. CASE Negotiate(message)
    <3>1. CASE distance = 0
      BY <1>1, <2>3, <3>1 DEF Negotiate
    <3>2. CASE distance # 0
      <4> DEFINE wanted == IF message.snappy /\ "snappy" \in enabled THEN "snappy" ELSE comp
                 usable == IF (wanted = None \/ distance > 1) /\ "flate" \in enabled
                           THEN "flate" ELSE wanted
      <4>1. threshold' = message.threshold
            /\ comp' = IF message.threshold = 0 THEN None ELSE usable
        BY <2>3, <3>2 DEF Negotiate
      <4>2. wanted \in enabled \cup {None}
        OBVIOUS
      <4>3. usable \in enabled \cup {None}
        BY <4>2
      <4> HIDE DEF usable
      <4> QED
        BY <1>1, <2>2, <3>2, <4>1, <4>3
    <3> QED
      BY <3>1, <3>2
  <2>4. CASE UNCHANGED <<comp, threshold>>
    BY <1>1, <2>4
  <2> QED
    BY <1>5, <2>3, <2>4 DEF Serve
<1>6. CASE Finish
  BY <1>1, <1>6 DEF Finish
<1>7. UNCHANGED <<comp, threshold>> \/ Accept \/ Serve \/ Finish
  <2>1. CASE OnlyTime
    BY <2>1 DEF OnlyTime, connVars
  <2>2. CASE Step
    BY <2>2 DEF Step, ReadHeader, HeaderThere, ReadBody, ReadFails, Decode, Answer, Crash,
                Fail, connVars
  <2> QED
    BY <2>1, <2>2, StepOrTime
<1> QED
  BY <1>3, <1>4, <1>5, <1>6, <1>7

(* A request that is not conn-ex changes nothing of what is agreed.        *)
LEMMA AskedSame ==
  ASSUME NEW n \in Nat, n # 0, ~script[n].conn_ex
  PROVE  /\ AgreedThreshold(n + 1) = AgreedThreshold(n)
         /\ KnowsSnappy(n + 1) <=> KnowsSnappy(n)
         /\ CompBefore(n + 1) = CompBefore(n)
<1>1. Asked(n + 1) = Asked(n)
  BY DEF Asked
<1> QED
  BY <1>1 DEF AgreedThreshold, KnowsSnappy, CompBefore

LEMMA AskedFinite ==
  ASSUME NEW n \in Nat
  PROVE  IsFiniteSet(Asked(n)) /\ Asked(n) \subseteq Int
<1>1. IsFiniteSet(1 .. n - 1)
  BY FS_Interval
<1> QED
  BY <1>1, FS_Subset DEF Asked

(* What conn-ex request n makes of it.                                     *)
LEMMA AskedMore ==
  ASSUME NEW n \in Nat, n # 0, script[n].conn_ex
  PROVE  /\ AgreedThreshold(n + 1) = script[n].threshold
         /\ KnowsSnappy(n + 1) <=> /\ "snappy" \in enabled
                                   /\ script[n].threshold # 0
                                   /\ script[n].snappy \/ KnowsSnappy(n)
<1>1. Asked(n + 1) = Asked(n) \cup {n} /\ \A k \in Asked(n) : k \in Int /\ k < n
  BY DEF Asked
<1>2. AgreedThreshold(n + 1) = script[n].threshold
  <2> DEFINE S == Asked(n + 1)
  <2>1. S # {} /\ n \in S /\ S = Asked(n) \cup {n}
    BY <1>1
  <2>2. IsFiniteSet(S) /\ S \subseteq Int
    BY AskedFinite
  <2> HIDE DEF S
  <2>3. Max(S) \in S /\ Max(S) >= n
    BY <2>1, <2>2, MaxOfSet
  <2>4. \A k \in Asked(n) : ~(k >= n)
    BY <1>1
  <2>5. Max(S) = n
    BY <2>1, <2>3, <2>4
  <2> QED
    BY <2>1, <2>5 DEF AgreedThreshold, S
<1>3. ASSUME KnowsSnappy(n + 1)
      PROVE  script[n].threshold # 0 /\ (script[n].snappy \/ KnowsSnappy(n))
  <2>1. PICK k \in Asked(n + 1) :
          /\ script[k].snappy
          /\ \A j \in Asked(n + 1) : j >= k => script[j].threshold # 0
    BY <1>3 DEF KnowsSnappy
  <2>2. script[n].threshold # 0
    BY <1>1, <2>1
  <2>3. CASE k = n
    BY <2>1, <2>2, <2>3
  <2>4. CASE k # n
    BY <1>1, <1>3, <2>1, <2>2, <2>4 DEF KnowsSnappy
  <2> QED
    BY <2>3, <2>4
<1>4. ASSUME "snappy" \in enabled, script[n].threshold # 0, script[n].snappy \/ KnowsSnappy(n)
      PROVE  KnowsSnappy(n + 1)
  <2>1. CASE script[n].snappy
    <3>1. \A j \in Asked(n + 1) : j >= n => script[j].threshold # 0
      BY <1>1, <1>4
    <3> QED
      BY <1>1, <1>4, <2>1, <3>1 DEF KnowsSnappy
  <2>2. CASE KnowsSnappy(n)
    <3>1. PICK k \in Asked(n) :
            /\ script[k].snappy
            /\ \A j \in Asked(n) : j >= k => script[j].threshold # 0
      BY <2>2 DEF KnowsSnappy
    <3>2. \A j \in Asked(n + 1) : j >= k => script[j].threshold # 0
      BY <1>1, <1>4, <3>1
    <3> QED
      BY <1>1, <1>4, <3>1, <3>2 DEF KnowsSnappy
  <2> QED
    BY <1>4, <2>1, <2>2
<1>5. KnowsSnappy(n + 1) => "snappy" \in enabled
  BY DEF KnowsSnappy
<1> QED
  BY <1>2, <1>3, <1>4, <1>5

(* Who turns compression off is not taken to know snappy any more.         *)
LEMMA OffForgets ==
  ASSUME NEW n \in Nat, KnowsSnappy(n)
  PROVE  AgreedThreshold(n) # 0
<1>1. PICK k \in Asked(n) : \A j \in Asked(n) : j >= k => script[j].threshold # 0
  BY DEF KnowsSnappy
<1>2. Max(Asked(n)) \in Asked(n) /\ Max(Asked(n)) >= k
  <2> DEFINE S == Asked(n)
  <2>1. IsFiniteSet(S) /\ S \subseteq Int /\ k \in S
    BY AskedFinite
  <2> HIDE DEF S
  <2>2. Max(S) \in S /\ Max(S) >= k
    BY <2>1, MaxOfSet
  <2> QED
    BY <2>2 DEF S
<1> QED
  BY <1>1, <1>2 DEF AgreedThreshold

(* handle_conn_ex brings the variables from one agreement to the next.     *)
LEMMA NegotiateSettles ==
  ASSUME Setting, Negotiated, NEW n \in Nat, n # 0, script[n].conn_ex,
         Settled(n), Negotiate(script[n])
  PROVE  distance # 0 =>
           /\ threshold' = AgreedThreshold(n + 1)
           /\ comp' = IF threshold' = 0 THEN None ELSE CompBefore(n + 1)
<1> SUFFICES ASSUME distance # 0
             PROVE  /\ threshold' = AgreedThreshold(n + 1)
                    /\ comp' = IF threshold' = 0 THEN None ELSE CompBefore(n + 1)
  OBVIOUS
<1> DEFINE r == script[n]
           wanted == IF r.snappy /\ "snappy" \in enabled THEN "snappy" ELSE comp
           usable == IF (wanted = None \/ distance > 1) /\ "flate" \in enabled
                     THEN "flate" ELSE wanted
<1>1. distance \in {1, 2} /\ (distance > 1 <=> distance # 1)
  BY ClientTyped
<1>2. /\ threshold' = r.threshold
      /\ comp' = IF r.threshold = 0 THEN None ELSE usable
  BY DEF Negotiate
<1>3. /\ threshold = AgreedThreshold(n)
      /\ comp = IF threshold = 0 THEN None ELSE CompBefore(n)
      /\ threshold = 0 => ~KnowsSnappy(n)
  BY OffForgets DEF Settled
<1>4. /\ AgreedThreshold(n + 1) = r.threshold
      /\ KnowsSnappy(n + 1) <=> /\ "snappy" \in enabled /\ r.threshold # 0
                                /\ r.snappy \/ KnowsSnappy(n)
  BY AskedMore
<1>5. KnowsSnappy(n) => "snappy" \in enabled
  BY DEF KnowsSnappy
<1>6. None \notin {"flate", "snappy"}
  BY ConnectionAssumption
<1> HIDE DEF r
<1>7. ASSUME r.threshold # 0 PROVE usable = CompBefore(n + 1)
  <2>1. CASE r.snappy /\ "snappy" \in enabled
    BY <1>1, <1>4, <1>6, <1>7, <2>1 DEF CompBefore
  <2>2. CASE ~(r.snappy /\ "snappy" \in enabled)
    <3>1. wanted = comp /\ (KnowsSnappy(n + 1) <=> KnowsSnappy(n))
      BY <1>4, <1>5, <1>7, <2>2
    <3>2. CompBefore(n + 1) = CompBefore(n)
      BY <3>1 DEF CompBefore
    <3>3. usable = CompBefore(n)
      BY <1>1, <1>3, <1>6, <3>1 DEF CompBefore
    <3> QED
      BY <3>2, <3>3
  <2> QED
    BY <2>1, <2>2
<1> QED
  BY <1>2, <1>4, <1>7

LEMMA SettledStays ==
  ASSUME UNCHANGED <<script, enabled, distance>>, NEW n
  PROVE  /\ AgreedThreshold(n)' = AgreedThreshold(n)
         /\ KnowsSnappy(n)' <=> KnowsSnappy(n)
         /\ CompBefore(n)' = CompBefore(n)
         /\ Agreed(n)' = Agreed(n)
         /\ UNCHANGED <<comp, threshold>> => (Settled(n)' <=> Settled(n))
<1>1. Asked(n)' = Asked(n)
  BY DEF Asked
<1>2. AgreedThreshold(n)' = AgreedThreshold(n) /\ (KnowsSnappy(n)' <=> KnowsSnappy(n))
  BY <1>1 DEF AgreedThreshold, KnowsSnappy
<1>3. CompBefore(n)' = CompBefore(n) /\ Agreed(n)' = Agreed(n)
  BY <1>2 DEF CompBefore, Agreed
<1> QED
  BY <1>2, <1>3 DEF Settled

(* Only what was negotiated leads to a compressor that was never made.     *)
LEMMA CrashNeedsSnappy ==
  ASSUME ConnInv, Negotiated, Crash,
         NEW n \in Nat, n # 0, message = script[n], Settled(n + 1)
  PROVE  /\ "flate" \notin enabled /\ KnowsSnappy(n)
         /\ AgreedThreshold(n) \in 1 .. script[n].resp - 1
<1>1. /\ pc = "send" /\ "flate" \notin enabled /\ comp # None
      /\ threshold > 0 /\ AnswerLength > threshold
  BY DEF Crash, Compresses, HasCompressor
<1>2. message.conn_ex \in BOOLEAN /\ message.resp \in Nat
  BY <1>1, RequestsTyped DEF ConnInv, ParamsOK, ProtocolRequests
<1>3. threshold \in Nat
  BY DEF Negotiated
<1>4. ~message.conn_ex /\ message.resp > threshold /\ threshold # 0
  BY <1>1, <1>2, <1>3 DEF AnswerLength
<1>5. distance # 0
  BY <1>4 DEF Negotiated
<1>6. threshold = AgreedThreshold(n) /\ comp = CompBefore(n)
  BY <1>4, <1>5, AskedSame DEF Settled
<1>7. KnowsSnappy(n)
  BY <1>1, <1>6 DEF CompBefore
<1> QED
  BY <1>1, <1>2, <1>3, <1>4, <1>6, <1>7

LEMMA FollowingKept ==
  ASSUME ConnInv, Kept, Negotiated, Following, [Next]_vars
  PROVE  Following'
<1>1. UNCHANGED <<script, distance, enabled>>
  BY ClientStays
<1>2. Len(handled) \in Nat /\ (~overwritten => NothingLost)
  BY LenProperties DEF ConnInv, StreamOK, Kept
<1> PICK n \in Nat : n = Len(handled)
  BY <1>2
<1>3. CASE UNCHANGED <<pc, message, handled, comp, threshold, overwritten>>
  <2>1. \A k : Settled(k)' <=> Settled(k)
    BY <1>1, <1>3, SettledStays
  <2>2. CrashExplained' <=> CrashExplained
    BY <1>1, <1>3, SettledStays DEF CrashExplained
  <2> QED
    BY <1>1, <1>3, <2>1, <2>2 DEF Following
<1>4. CASE /\ pc' \in {"read", "body"} /\ pc \in {"read", "body"}
           /\ UNCHANGED <<handled, comp, threshold, overwritten>>
  <2>1. Settled(n + 1)' <=> Settled(n + 1)
    BY <1>1, <1>4, SettledStays
  <2> QED
    BY <1>4, <2>1 DEF Following, CrashExplained
<1>5. CASE pc' \in {"failing", "closing", "closed"}
  BY <1>5 DEF Following, CrashExplained
<1>6. CASE Accept
  <2>1. /\ pc' = "read" /\ handled' = handled /\ handled = <<>>
        /\ threshold' = IF distance > 0 THEN Threshold ELSE 0
        /\ comp' = IF distance > 0 /\ "flate" \in enabled /\ Threshold # 0
                   THEN "flate" ELSE None
    BY <1>6 DEF Accept, MakeConnEx, ghosts, Following
  <2>2. distance # 0 => distance > 0
    BY ClientTyped DEF ConnInv
  <2>3. Len(handled') = 0 /\ Asked(1) = {}
    BY <2>1, EmptySeq DEF Asked
  <2>4. AgreedThreshold(1) = Threshold /\ ~KnowsSnappy(1)
    BY <2>3 DEF AgreedThreshold, KnowsSnappy
  <2>5. AgreedThreshold(1)' = Threshold /\ CompBefore(1)' = CompBefore(1)
    BY <1>1, <2>4, SettledStays
  <2>6. CompBefore(1) = IF "flate" \in enabled THEN "flate" ELSE None
    BY <2>4 DEF CompBefore
  <2>7. Settled(1)'
    BY <1>1, <2>1, <2>2, <2>5, <2>6 DEF Settled
  <2> QED
    BY <2>1, <2>3, <2>7 DEF Following, CrashExplained
<1>7. CASE Decode
  <2> SUFFICES ASSUME ~overwritten'
               PROVE  /\ pc' \in {"serve", "failing"}
                      /\ pc' = "serve" => /\ n + 1 # 0 /\ message' = script[n + 1]
                                          /\ Settled(n + 1)' /\ Len(handled') = n + 1
    <3>1. pc' \in {"serve", "failing"}
      BY <1>7 DEF Decode
    <3> QED
      BY <1>1, <3>1 DEF Following, CrashExplained
  <2>1. pc = "body" /\ ~overwritten /\ UNCHANGED <<comp, threshold>>
    BY <1>7 DEF Decode, connVars
  <2>2. /\ Len(handled') = n + 1 /\ pc' \in {"serve", "failing"}
        /\ pc' = "serve" => message' = script[n + 1]
    BY <1>1, <1>2, <1>7, <2>1, DecodeLosesNothing
  <2>3. Settled(n + 1)'
    BY <1>1, <2>1, SettledStays DEF Following
  <2> QED
    BY <1>2, <2>2, <2>3
<1>8. CASE Serve
  <2>1. pc = "serve" /\ pc' = "send" /\ UNCHANGED <<message, handled, overwritten>>
    BY <1>8 DEF Serve, ghosts
  <2> SUFFICES ASSUME ~overwritten
               PROVE  n # 0 /\ message = script[n] /\ Settled(n + 1)'
    BY <1>1, <2>1 DEF Following, CrashExplained
  <2>2. n # 0 /\ message = script[n] /\ Settled(n)
    BY <2>1 DEF Following
  <2>3. CASE message.conn_ex
    <3>1. Negotiate(script[n])
      BY <1>8, <2>2, <2>3 DEF Serve
    <3>2. distance # 0 => /\ threshold' = AgreedThreshold(n + 1)
                          /\ comp' = IF threshold' = 0 THEN None ELSE CompBefore(n + 1)
      BY <1>2, <2>2, <2>3, <3>1, NegotiateSettles DEF ConnInv
    <3>3. AgreedThreshold(n + 1)' = AgreedThreshold(n + 1) /\ CompBefore(n + 1)' = CompBefore(n + 1)
      BY <1>1, SettledStays
    <3>4. Settled(n + 1)'
      BY <1>1, <3>2, <3>3 DEF Settled
    <3> QED
      BY <2>2, <3>4
  <2>4. CASE ~message.conn_ex
    <3>1. UNCHANGED <<comp, threshold>>
      BY <1>8, <2>4 DEF Serve
    <3>2. Settled(n + 1)
      BY <1>2, <2>2, <2>4, AskedSame DEF Settled
    <3> QED
      BY <1>1, <2>2, <3>1, <3>2, SettledStays
  <2> QED
    BY <2>3, <2>4
<1>9. CASE Answer
  <2>1. pc = "send" /\ pc' = "read" /\ UNCHANGED <<handled, comp, threshold>>
    BY <1>9 DEF Answer, connVars
  <2>2. ~overwritten' => ~overwritten
    <3>1. CASE UNCHANGED <<stream, overwritten>>
      BY <3>1
    <3>2. CASE \E k : WriteShared(k)
      BY <3>2, WriteSharedKeeps DEF ConnInv
    <3> QED
      BY <1>9, <3>1, <3>2, AnswerWays
  <2>3. Settled(n + 1)' <=> Settled(n + 1)
    BY <1>1, <2>1, SettledStays
  <2> QED
    BY <2>1, <2>2, <2>3 DEF Following, CrashExplained
<1>10. CASE OnlyTime
  BY <1>3, <1>10 DEF OnlyTime, paramVars, connVars, ghosts
<1>11. CASE ReadHeader \/ HeaderThere
  <2>1. pc = "read" /\ UNCHANGED <<comp, threshold, overwritten>>
    BY <1>11 DEF ReadHeader, HeaderThere, connVars
  <2>2. pc' = "failing" \/ (pc' \in {"read", "body"} /\ handled' = handled)
    <3>1. CASE ReadHeader
      <4>1. PICK k \in Chunks : Framed(SubSeq(wire, 1, k))
        BY <3>1 DEF ReadHeader
      <4> QED
        BY <2>1, <4>1 DEF Framed
    <3>2. CASE HeaderThere
      BY <2>1, <3>2 DEF HeaderThere, Framed
    <3> QED
      BY <1>11, <3>1, <3>2
  <2> QED
    BY <1>4, <1>5, <2>1, <2>2
<1>12. CASE ReadBody
  BY <1>4, <1>12 DEF ReadBody, connVars, ghosts
<1>13. CASE ReadFails \/ Fail \/ Finish
  BY <1>5, <1>13 DEF ReadFails, Fail, Finish
<1>14. CASE Crash
  <2>1. pc = "send" /\ pc' = "crashed" /\ UNCHANGED <<message, handled, overwritten>>
    BY <1>14 DEF Crash, paramVars, ghosts
  <2>2. ASSUME ~overwritten PROVE CrashExplained'
    <3>1. n # 0 /\ message = script[n] /\ Settled(n + 1)
      BY <2>1, <2>2 DEF Following
    <3>2. /\ "flate" \notin enabled /\ KnowsSnappy(n)
          /\ AgreedThreshold(n) \in 1 .. script[n].resp - 1
      BY <1>2, <1>14, <3>1, CrashNeedsSnappy
    <3> QED
      BY <1>1, <2>1, <3>2, SettledStays DEF CrashExplained
  <2>3. ~overwritten' => CrashExplained'
    BY <2>1, <2>2
  <2> QED
    BY <2>1, <2>3 DEF Following
<1> QED
  BY <1>6, <1>7, <1>8, <1>9, <1>10, <1>11, <1>12, <1>13, <1>14, StepOrTime DEF Step

LEMMA DeliveryTyped ==
  ASSUME Setting, Negotiated, NEW len \in Nat, NEW d \in Deliveries(len)
  PROVE  /\ d.said \in {"plain", "gzip", "flate", "snappy"}
         /\ d.sent \in Nat
         /\ d.said # "plain" =>
              Compresses(len) /\ d.said = IF comp = None THEN "gzip" ELSE comp
<1> DEFINE plain == [said |-> "plain", sent |-> len, written |-> Together(len)]
           Gzip(n) == [said |-> "gzip", sent |-> n, written |-> Together(n)]
           other == [said |-> comp, sent |-> 1, written |-> AnswerHead]
<1>1. \/ d = plain
      \/ Compresses(len) /\ comp = None /\ \E n \in {1, len} : d = Gzip(n)
      \/ Compresses(len) /\ comp # None /\ d = other
  BY Zenon DEF Deliveries
<1>2. CASE d = plain
  BY <1>2
<1>3. CASE Compresses(len) /\ comp = None /\ \E n \in {1, len} : d = Gzip(n)
  BY <1>3
<1>4. CASE Compresses(len) /\ comp # None /\ d = other
  <2>1. comp \in {"flate", "snappy"}
    BY <1>4, ClientTyped DEF Negotiated
  <2> QED
    BY <1>4, <2>1
<1> QED
  BY <1>1, <1>2, <1>3, <1>4

(* An answer names the compressor agreed on before its request.            *)
NamesAgreed(a) ==
  a.said # "plain" =>
    /\ distance # 0
    /\ AgreedThreshold(a.of) \in 1 .. script[a.of].resp - 1
    /\ a.said = Agreed(a.of)

LEMMA AnswerNamesAgreed ==
  ASSUME ConnInv, Negotiated, Following, pc = "send", ~overwritten,
         NEW d \in Deliveries(AnswerLength), d.said # "plain",
         Compresses(AnswerLength) => HasCompressor
  PROVE  LET n == Len(handled)
         IN /\ distance # 0
            /\ AgreedThreshold(n) \in 1 .. script[n].resp - 1
            /\ d.said = Agreed(n)
<1> DEFINE n == Len(handled)
<1>1. n \in Nat /\ n # 0 /\ message = script[n] /\ Settled(n + 1)
  BY LenProperties DEF ConnInv, StreamOK, Following
<1>2. message.conn_ex \in BOOLEAN /\ message.resp \in Nat
  BY RequestsTyped DEF ConnInv, ParamsOK, ProtocolRequests
<1>3. threshold \in Nat /\ comp \in enabled \cup {None} /\ enabled \subseteq {"flate", "snappy"}
  BY ClientTyped DEF ConnInv, Negotiated
<1>4. /\ Compresses(AnswerLength) /\ HasCompressor
      /\ d.said = IF comp = None THEN "gzip" ELSE comp
  <2>1. AnswerLength \in Nat
    BY <1>2 DEF AnswerLength
  <2> QED
    BY <2>1, DeliveryTyped DEF ConnInv
<1>5. ~message.conn_ex /\ threshold > 0 /\ message.resp > threshold
  BY <1>3, <1>4 DEF Compresses, AnswerLength
<1>6. distance # 0 /\ threshold # 0
  BY <1>5 DEF Negotiated
<1>7. threshold = AgreedThreshold(n) /\ comp = CompBefore(n)
  BY <1>1, <1>5, <1>6, AskedSame DEF Settled
<1>8. d.said = Agreed(n)
  <2>1. None \notin {"flate", "snappy"}
    BY ConnectionAssumption
  <2>2. CASE comp = None
    BY <1>4, <1>7, <2>1, <2>2 DEF CompBefore, Agreed
  <2>3. CASE comp # None
    BY <1>4, <1>7, <2>3 DEF HasCompressor, CompBefore, Agreed
  <2> QED
    BY <2>2, <2>3
<1> QED
  BY <1>1, <1>2, <1>3, <1>5, <1>6, <1>7, <1>8

LEMMA AnswersKept ==
  ASSUME ConnInv, Negotiated, Following, AnswersOK, [Next]_vars
  PROVE  AnswersOK'
<1> DEFINE Given == [of : Nat, content : Nat, said : {"plain", "gzip", "flate", "snappy"}]
           Fits(a) == a.content = a.of /\ (~overwritten' => NamesAgreed(a))
<1>1. UNCHANGED <<script, distance, enabled>>
  BY ClientStays
<1>2. \A a : NamesAgreed(a)' <=> NamesAgreed(a)
  <2> TAKE a
  <2>1. AgreedThreshold(a.of)' = AgreedThreshold(a.of) /\ Agreed(a.of)' = Agreed(a.of)
    BY <1>1, SettledStays
  <2> QED
    BY <1>1, <2>1 DEF NamesAgreed
<1>3. /\ answers \in Seq(Given)
      /\ \A i \in 1 .. Len(answers) :
           /\ answers[i].content = answers[i].of
           /\ ~overwritten => NamesAgreed(answers[i])
  BY DEF AnswersOK, AnswersMatch, NegotiationKept, NamesAgreed
<1>4. ASSUME answers' \in Seq(Given), \A i \in 1 .. Len(answers') : Fits(answers'[i])
      PROVE  AnswersOK'
  <2>1. AnswersMatch'
    BY <1>4 DEF AnswersMatch
  <2>2. ASSUME ~overwritten', NEW i \in 1 .. Len(answers'), NEW a, a = answers'[i]
        PROVE  NamesAgreed(a)'
    BY <1>2, <1>4, <2>2
  <2>3. NegotiationKept'
    BY <2>2 DEF NegotiationKept, NamesAgreed
  <2> QED
    BY <1>4, <2>1, <2>3 DEF AnswersOK
<1>5. CASE answers' = answers /\ (~overwritten' => ~overwritten)
  BY <1>3, <1>4, <1>5
<1>6. CASE /\ ~overwritten' => ~overwritten
           /\ \E a \in Given : Fits(a) /\ answers' = Append(answers, a)
  <2>1. PICK a \in Given : Fits(a) /\ answers' = Append(answers, a)
    BY <1>6
  <2>2. \A i \in 1 .. Len(answers) : Fits(answers[i])
    BY <1>3, <1>6
  <2> HIDE DEF Given, Fits
  <2>3. /\ answers' \in Seq(Given) /\ Len(answers') = Len(answers) + 1
        /\ \A i \in 1 .. Len(answers) : answers'[i] = answers[i]
        /\ answers'[Len(answers) + 1] = a /\ Len(answers) \in Nat
    BY <1>3, <2>1, AppendProperties, LenProperties
  <2>4. \A i \in 1 .. Len(answers') : Fits(answers'[i])
    BY <2>1, <2>2, <2>3
  <2> QED
    BY <1>4, <2>3, <2>4
<1>7. CASE Answer
  <2>1. /\ pc = "send" /\ message \in ProtocolRequests /\ fastreturn \in {None, Len(handled)}
        /\ Len(handled) \in Nat
    BY <1>7, RequestsTyped, LenProperties DEF Answer, ConnInv, ParamsOK, StreamOK
  <2> DEFINE n == Len(handled)
             content == IF fastreturn = None THEN n ELSE fastreturn
             Gives(d) == answers' = Append(answers, [of |-> n, content |-> content,
                                                     said |-> d.said])
  <2>2. AnswerLength \in Nat /\ content = n
    BY <2>1 DEF AnswerLength, ProtocolRequests
  <2>3. CASE answers' = answers /\ overwritten' = overwritten
    BY <1>5, <2>3
  <2>4. CASE \E d \in Deliveries(AnswerLength) :
               /\ Compresses(AnswerLength) => HasCompressor
               /\ WriteShared(d.written) /\ Gives(d)
    <3>1. PICK d \in Deliveries(AnswerLength) :
                 /\ Compresses(AnswerLength) => HasCompressor
                 /\ WriteShared(d.written) /\ Gives(d)
      BY <2>4
    <3>2. d.said \in {"plain", "gzip", "flate", "snappy"}
      BY <2>2, DeliveryTyped DEF ConnInv
    <3>3. ~overwritten' => ~overwritten
      BY <3>1, WriteSharedKeeps DEF ConnInv
    <3> DEFINE a == [of |-> n, content |-> content, said |-> d.said]
    <3>4. a \in Given
      BY <2>1, <2>2, <3>2
    <3>5. ~overwritten' => NamesAgreed(a)
      BY <2>1, <3>1, <3>3, AnswerNamesAgreed DEF NamesAgreed
    <3>6. Fits(a) /\ answers' = Append(answers, a)
      BY <2>2, <3>1, <3>5
    <3> HIDE DEF a, Fits, Given
    <3> QED
      BY <1>6, <3>3, <3>4, <3>6
  <2>5. \/ answers' = answers /\ overwritten' = overwritten
        \/ \E d \in Deliveries(AnswerLength) :
             /\ Compresses(AnswerLength) => HasCompressor
             /\ WriteShared(d.written) /\ Gives(d)
    BY <1>7 DEF Answer
  <2> QED
    BY <2>3, <2>4, <2>5
<1>8. UNCHANGED <<answers, overwritten>> \/ Answer
  <2>1. CASE OnlyTime
    BY <2>1 DEF OnlyTime, ghosts
  <2>2. CASE Step
    BY <2>2 DEF Step, Accept, ReadHeader, HeaderThere, ReadBody, ReadFails, Decode, Serve,
                Crash, Fail, Finish, ghosts
  <2> QED
    BY <2>1, <2>2, StepOrTime
<1> QED
  BY <1>5, <1>7, <1>8

-----------------------------------------------------------------------------
(* The sums                                                                *)

LEMMA SumsStay ==
  ASSUME SumsCover, sums' = sums,
         (pc # "send" /\ pc' # "send") \/ UNCHANGED <<pc, message>>
  PROVE  SumsCover'
BY DEF SumsCover, AnswerLen

LEMMA SumsKept ==
  ASSUME ConnInv, SumsCover, Negotiated, [Next]_vars
  PROVE  SumsCover'
<1> USE DEF SumsCover
<1>1. CASE OnlyTime
  BY <1>1, SumsStay DEF OnlyTime, paramVars
<1>2. CASE Accept
  BY <1>2, SumsStay DEF Accept, MakeConnection
<1>3. CASE ReadHeader \/ HeaderThere
  <2>1. sums' = sums /\ pc = "read"
    BY <1>3 DEF ReadHeader, HeaderThere, NoteReading, StateReading, statsVars
  <2>2. pc' \in {"read", "failing", "body"}
    <3>1. CASE ReadHeader
      <4>1. PICK n \in Chunks : Framed(SubSeq(wire, 1, n))
        BY <3>1 DEF ReadHeader
      <4> QED
        BY <2>1, <4>1 DEF Framed
    <3>2. CASE HeaderThere
      BY <2>1, <3>2 DEF HeaderThere, Framed
    <3> QED
      BY <1>3, <3>1, <3>2
  <2> QED
    BY <2>1, <2>2, SumsStay
<1>4. CASE ReadBody
  BY <1>4, SumsStay DEF ReadBody, statsVars, paramVars
<1>5. CASE ReadFails
  BY <1>5, SumsStay DEF ReadFails, statsVars
<1>6. CASE Decode
  BY <1>6, SumsStay DEF Decode, StateServing, statsVars
<1>7. CASE Serve
  <2>1. message \in ProtocolRequests /\ message' = message /\ pc = "serve" /\ pc' = "send"
    BY <1>7, RequestsTyped DEF Serve, ConnInv, ParamsOK
  <2>2. message.resp \in Nat /\ message.conn_ex \in BOOLEAN
    BY <2>1 DEF ProtocolRequests
  <2>3. PICK r \in Nat : /\ sums' = [sums EXCEPT !.resp = @ + r]
                         /\ r = IF message.conn_ex THEN 0 ELSE message.resp
    BY <1>7, <2>2 DEF Serve, StateWriting
  <2>4. AnswerLen' = r /\ AnswerLen = 0
    BY <2>1, <2>3 DEF AnswerLen
  <2>5. /\ sums' \in [resp : Nat, sent : Nat, skipped : Nat]
        /\ sums'.resp = sums.resp + r /\ sums'.sent = sums.sent /\ sums'.skipped = sums.skipped
    BY <2>3
  <2> QED
    BY <2>4, <2>5
<1>8. CASE Answer
  <2>1. message \in ProtocolRequests /\ pc = "send" /\ pc' = "read"
    BY <1>8, RequestsTyped DEF Answer, ConnInv, ParamsOK
  <2>2. message.resp \in Nat /\ message.conn_ex \in BOOLEAN
    BY <2>1 DEF ProtocolRequests
  <2>3. PICK len \in Nat : len = IF message.conn_ex THEN 0 ELSE message.resp
    BY <2>2
  <2>4. AnswerLen = len /\ AnswerLen' = 0
    BY <2>1, <2>3 DEF AnswerLen
  <2>5. CASE StateKeepalive(len, len, TRUE)
    <3>1. /\ sums' \in [resp : Nat, sent : Nat, skipped : Nat]
          /\ sums'.resp = sums.resp /\ sums'.sent = sums.sent + len
          /\ sums'.skipped = sums.skipped + len
      <4>1. sums' = [sums EXCEPT !.sent = @ + len, !.skipped = @ + len]
        BY <2>5, Zenon DEF StateKeepalive
      <4>2. PICK m \in [resp : Nat, sent : Nat, skipped : Nat] : m = sums
        OBVIOUS
      <4>3. sums' = [resp |-> m.resp, sent |-> m.sent + len, skipped |-> m.skipped + len]
        BY <4>1, <4>2
      <4> QED
        BY <2>3, <4>2, <4>3
    <3> QED
      BY <2>4, <3>1
  <2>6. CASE \E k \in Nat : StateKeepalive(len, k, FALSE)
    <3>1. PICK k \in Nat : StateKeepalive(len, k, FALSE)
      BY <2>6
    <3>2. /\ sums' \in [resp : Nat, sent : Nat, skipped : Nat]
          /\ sums'.resp = sums.resp /\ sums'.sent = sums.sent + k
          /\ sums'.skipped = sums.skipped
      <4>1. sums' = [sums EXCEPT !.sent = @ + k, !.skipped = @ + 0]
        BY <3>1, Zenon DEF StateKeepalive
      <4>2. PICK m \in [resp : Nat, sent : Nat, skipped : Nat] : m = sums
        OBVIOUS
      <4>3. sums' = [resp |-> m.resp, sent |-> m.sent + k, skipped |-> m.skipped + 0]
        BY <4>1, <4>2
      <4> QED
        BY <3>1, <4>2, <4>3
    <3> QED
      BY <2>4, <3>2
  <2>7. StateKeepalive(len, len, TRUE) \/ \E d \in Deliveries(len) : StateKeepalive(len, d.sent, FALSE)
    BY <1>8, <2>3, AnswerWays
  <2>8. ASSUME NEW d \in Deliveries(len) PROVE d.sent \in Nat
    BY <2>3, DeliveryTyped DEF ConnInv
  <2> QED
    BY <2>5, <2>6, <2>7, <2>8
<1>9. CASE Fail
  BY <1>9, SumsStay DEF Fail, Close
<1>10. CASE Finish
  BY <1>10, SumsStay DEF Finish, Close
<1>11. CASE Crash
  <2>1. sums' = sums /\ message' = message /\ pc' = "crashed" /\ pc = "send"
    BY <1>11 DEF Crash, statsVars, paramVars
  <2>2. message \in ProtocolRequests
    BY <2>1, RequestsTyped DEF ConnInv, ParamsOK
  <2>3. message.resp \in Nat /\ message.conn_ex \in BOOLEAN
    BY <2>2 DEF ProtocolRequests
  <2>4. AnswerLen \in Nat /\ AnswerLen' = 0
    BY <2>1, <2>3 DEF AnswerLen
  <2> QED
    BY <2>1, <2>4
<1> QED
  BY <1>1, <1>2, <1>3, <1>4, <1>5, <1>6, <1>7, <1>8, <1>9, <1>10, <1>11, StepOrTime DEF Step

-----------------------------------------------------------------------------
(* The invariant holds                                                     *)

LEMMA InitiallyInv ==
  ASSUME Init
  PROVE  IInv
<1>1. Setting /\ StatsInit
  <2>1. PICK c \in Cases : script = c.script /\ distance = c.distance /\ enabled = c.enabled
    BY DEF Init
  <2>2. c \in [script : Seq(ProtocolRequests), distance : 0 .. 2,
               enabled : SUBSET {"flate", "snappy"}]
    BY <2>1, ConnectionAssumption DEF IsCase
  <2>3. c = [script |-> script, distance |-> distance, enabled |-> enabled]
    BY <2>1, <2>2
  <2> QED
    BY <2>1, <2>3 DEF Init, Setting
<1>2. /\ wire = Wire(script) /\ pc = "new" /\ stream = <<>> /\ place = "own" /\ base = 0
      /\ size = 0 /\ reading = FALSE /\ message = None /\ held = FALSE /\ fastreturn = None
      /\ comp = None /\ threshold = 0 /\ handled = <<>> /\ answers = <<>> /\ overwritten = FALSE
  BY DEF Init
<1>3. HistoryInv
  BY <1>1, HistoryInit
<1>4. EntryTypeOK
  <2>1. 0 \in -MaxLate .. Sleep
    BY StatsAssumption
  <2> QED
    BY <1>1, <2>1 DEF StatsInit, EntryTypeOK
<1>5. SumsCover
  BY <1>1, <1>2 DEF StatsInit, SumsCover, AnswerLen
<1>6. StreamOK
  <2>1. Wire(script) \in Seq(Received) /\ <<>> \in Seq(Received)
    BY <1>1, SentAll, EmptySeq
  <2>2. <<>> \in Seq([req : Nat, served : BOOLEAN])
    BY EmptySeq
  <2> QED
    BY <1>2, <2>1, <2>2 DEF StreamOK
<1>7. ParamsOK /\ Negotiated
  BY <1>2 DEF ParamsOK, Negotiated
<1>8. AnswersOK
  <2>1. Len(answers) = 0 /\ answers \in Seq([of : Nat, content : Nat,
                      said : {"plain", "gzip", "flate", "snappy"}])
    BY <1>2, EmptySeq
  <2> QED
    BY <2>1 DEF AnswersOK, AnswersMatch, NegotiationKept
<1>9. Following
  BY <1>2 DEF Following, CrashExplained
<1>10. Kept
  <2>1. Len(handled) = 0 /\ Len(script) \in Nat
    BY <1>1, <1>2, EmptySeq, ClientTyped
  <2>2. RequestsIntact
    BY <2>1 DEF RequestsIntact
  <2>3. Sent(0) \o (stream \o wire) = Wire(script)
    <3>1. Sent(0) = <<>> /\ Wire(script) \in Seq(Received)
      BY <1>1, SentAll
    <3>2. <<>> \o wire = wire
      BY <1>2, <3>1, ConcatEmptySeq
    <3> QED
      BY <1>2, <3>1, <3>2
  <2> QED
    BY <1>2, <2>1, <2>2, <2>3 DEF Kept, NothingLost
<1> QED
  BY <1>1, <1>3, <1>4, <1>5, <1>6, <1>7, <1>8, <1>9, <1>10 DEF IInv

LEMMA Inductive == Spec => []IInv
<1>1. Init => IInv
  BY InitiallyInv
<1>2. IInv /\ [Next]_vars => IInv'
  <2> SUFFICES ASSUME IInv, [Next]_vars PROVE IInv'
    OBVIOUS
  <2>1. ConnInv
    BY DEF IInv, ConnInv
  <2>2. HistoryInv' /\ EntryTypeOK'
    BY HistoryKept, EntryKept DEF IInv
  <2>3. SumsCover' /\ Negotiated' /\ Following' /\ AnswersOK' /\ Kept'
    BY <2>1, SumsKept, NegotiatedKept, FollowingKept, AnswersKept, KeptKept DEF IInv
  <2>4. ConnInv'
    BY <2>1, ConnKept
  <2> QED
    BY <2>2, <2>3, <2>4 DEF IInv, ConnInv
<1> QED
  BY <1>1, <1>2, PTL DEF Spec

-----------------------------------------------------------------------------
(* What holds of every connection                                          *)

(* However the client's bytes are cut into pieces, however many requests   *)
(* come together and wherever they are put, each is served once, in order  *)
(* and from its own bytes (handler_socket.go:77-290), until an answer is   *)
(* written over bytes that wait.                                           *)
THEOREM RequestsServedFromTheirBytes == Spec => []RequestsKept
<1>1. IInv => RequestsKept
  BY DEF IInv, Kept, NothingLost, RequestsKept
<1> QED
  BY <1>1, Inductive, PTL

(* An answer has the content of its own request: fastreturn is never that  *)
(* of the request before (handler_socket.go:351-373).                      *)
THEOREM AnswersAreTheirOwn == Spec => []AnswersMatch
<1>1. IInv => AnswersMatch
  BY DEF IInv, AnswersOK
<1> QED
  BY <1>1, Inductive, PTL

(* However often and whatever a client negotiates, an answer that names a  *)
(* compressor is longer than the threshold asked for last and names the    *)
(* compressor its requests so far have led to (conn_ex.go:14-77,           *)
(* handler_socket.go:405-445): the variables the connection keeps never    *)
(* fall behind or forget.                                                  *)
THEOREM NegotiationFollowsTheRule == Spec => []NegotiationKept
<1>1. IInv => NegotiationKept
  BY DEF IInv, AnswersOK
<1> QED
  BY <1>1, Inductive, PTL

(* Whatever clients negotiate, only one that knows snappy and did not turn *)
(* compression off since, at a server without flate, can end the program,  *)
(* and only with an answer longer than the threshold (conn_ex.go:49-76,    *)
(* handler_socket.go:440).                                                 *)
THEOREM OnlySnappyAloneCrashes == Spec => []CrashExplained
<1>1. IInv => CrashExplained
  BY DEF IInv, Following, CrashExplained
<1> QED
  BY <1>1, Inductive, PTL

(* The stream never outgrows the memory it is taken to lie in, and none of *)
(* the sums is less than what is subtracted from it (handler_socket.go:    *)
(* 77-131, stats.go:103-151).                                              *)
THEOREM StreamFitsItsMemory == Spec => []TypeOK
<1>1. ASSUME IInv PROVE TypeOK
  <2>1. AdjStats \in [resp : Nat, sent : Nat] /\ sums \in [resp : Nat, sent : Nat, skipped : Nat]
    <3>1. /\ sums.resp \in Nat /\ sums.sent \in Nat /\ sums.skipped \in Nat
          /\ sums.skipped <= sums.sent /\ sums.skipped + AnswerLen <= sums.resp
      BY <1>1 DEF IInv, SumsCover
    <3>2. AnswerLen \in Nat
      <4>1. CASE pc # "send"
        BY <4>1 DEF AnswerLen
      <4>2. CASE pc = "send"
        <5>1. message \in ProtocolRequests
          BY <1>1, <4>2, RequestsTyped DEF IInv, ParamsOK
        <5> QED
          BY <5>1 DEF AnswerLen, ProtocolRequests
      <4> QED
        BY <4>1, <4>2
    <3>3. sums.resp - sums.skipped \in Nat /\ sums.sent - sums.skipped \in Nat
      BY <3>1, <3>2
    <3> QED
      BY <1>1, <3>3 DEF AdjStats, IInv, SumsCover
  <2>2. StatsTypeOK
    BY <1>1, <2>1 DEF StatsTypeOK, IInv, HistoryInv, HistoryTypeOK, EntryTypeOK
  <2>3. wire \in Seq(Cells) /\ stream \in Seq(Cells)
    <3>1. Received \subseteq Cells /\ wire \in Seq(Received) /\ stream \in Seq(Received)
      BY <1>1, ReceivedAreCells DEF IInv, StreamOK
    <3> QED
      BY <3>1, SeqMonotonic
  <2>4. fastreturn \in Nat \cup {None}
    <3>1. Len(handled) \in Nat
      BY <1>1, LenProperties DEF IInv, StreamOK
    <3> QED
      BY <1>1, <3>1 DEF IInv, ParamsOK
  <2> QED
    BY <1>1, <2>2, <2>3, <2>4 DEF TypeOK, IInv, Setting, StreamOK, ParamsOK, Negotiated
<1>2. IInv => TypeOK
  BY <1>1
<1> QED
  BY <1>2, Inductive, PTL
=============================================================================
