------------------------- MODULE HealthCheckerProofs -------------------------
(***************************************************************************)
(* A round of the health checker spares the nodes that keep up and pauses  *)
(* those that lag, for any nodes, endpoints, heights and changes of the    *)
(* list; its WaitGroup counts its goroutines; and a node that was replaced *)
(* is missed by nobody.                                                    *)
(***************************************************************************)
EXTENDS HealthChecker, DataProofs, FiniteSetTheorems

-----------------------------------------------------------------------------
(* The inductive invariant                                                 *)

(* What is known of a node is never ahead of its blocks, and lo is least.  *)
HeightInv ==
  /\ \A n \in Nodes : lo[n] <= last[n] /\ last[n] <= Height(n)
  /\ \A n \in Nodes : beat[n] # None => beat[n] <= Height(n)
  /\ \A i \in DOMAIN refresh :
       refresh[i].at = "store" => refresh[i].answer <= Height(refresh[i].node)

Running == {i \in DOMAIN refresh : refresh[i].at # "none"}

(* The goroutines the checker waits for, and whom they ask.                *)
WaitInv ==
  /\ wg = Cardinality(Running)
  /\ \A i \in Running :
       /\ refresh[i].node \in known
       /\ calm => refresh[i].node = clients[i]

(* Where the round is, by what its slices hold.                            *)
ProgressInv ==
  /\ Range(clients) \subseteq known
  /\ pc = "sleep" => infos = <<>>
  /\ pc \in {"sleep", "snapshot"} => num = 1
  /\ pc = "snapshot" => Len(infos) <= Len(clients)
  /\ pc = "refresh" => Len(refresh) = num - 1
  /\ pc # "refresh" => refresh = <<>>

(* Each info is what a node of that endpoint knew in this round.           *)
InfoInv ==
  \A i \in DOMAIN infos :
    /\ infos[i].last <= height[infos[i].endpoint]
    /\ \E m \in known : Endpoint[m] = infos[i].endpoint /\ lo[m] <= infos[i].last

(* While the list stays as it was, places belong to nodes.                 *)
CalmInv ==
  calm =>
    /\ pc \in {"refresh", "judge"} => Len(infos) = Len(clients)
    /\ \A i \in DOMAIN infos :
         /\ i \in DOMAIN clients
         /\ infos[i].endpoint = Endpoint[clients[i]]
         /\ lo[clients[i]] <= infos[i].last

(* The verdicts given so far.                                              *)
Spared(i) ==
  \A n \in Range(clients) :
    /\ infos[i].endpoint = Endpoint[n]
    /\ \A m \in Twins(n) : Near(lo[m])
    => ~ paused[n]

Stopped(i) ==
  \A n, m \in Range(clients) :
    infos[i].endpoint = Endpoint[n] /\ lo[m] - Height(n) > MaxLag => paused[n]

JudgeInv ==
  pc = "judge" =>
    /\ \A i \in DOMAIN infos : infos[i].last <= max_block
    /\ max_block = 0 \/ \E e \in Endpoints : max_block <= height[e]
    /\ \A i \in 1 .. num - 1 : Spared(i) /\ (calm => Stopped(i))

IInv ==
  /\ TypeOK /\ HeightInv /\ WaitInv /\ ProgressInv /\ InfoInv /\ CalmInv
  /\ JudgeInv /\ ReplacedNeverMissing

-----------------------------------------------------------------------------
(* Frames                                                                  *)

(* Heights, blocks and what is known of them are natural numbers.          *)
LEMMA Numbers ==
  ASSUME TypeOK
  PROVE  /\ MaxLag \in Nat
         /\ \A e \in Endpoints : height[e] \in Nat
         /\ \A n \in Nodes : /\ Endpoint[n] \in Endpoints /\ Height(n) \in Nat
                            /\ last[n] \in Nat /\ lo[n] \in Nat
         /\ \A i \in DOMAIN infos :
              infos[i].endpoint \in Endpoints /\ infos[i].last \in Nat
  <1>1. infos \in Seq([endpoint : Endpoints, last : Heights])
    BY DEF TypeOK
  <1>2. \A i \in DOMAIN infos :
          infos[i].endpoint \in Endpoints /\ infos[i].last \in Nat
    <2> TAKE i \in DOMAIN infos
    <2>1. infos[i] \in [endpoint : Endpoints, last : Heights]
      BY <1>1, ElementOfSeq, LenProperties
    <2> QED
      BY <2>1, CheckerAssumption
  <1> QED
    BY <1>2, CheckerAssumption DEF TypeOK, Height

(* Goroutines know their node, and hold a height.                          *)
LEMMA Goroutines ==
  ASSUME TypeOK, WaitInv
  PROVE  /\ Len(refresh) \in Nat /\ DOMAIN refresh = 1 .. Len(refresh)
         /\ \A i \in DOMAIN refresh :
              /\ refresh[i] \in [node : Nodes \cup {None},
                                 at : {"none", "ask", "store", "info"},
                                 answer : Heights]
              /\ refresh[i].answer \in Nat
              /\ refresh[i].at # "none" => refresh[i].node \in Nodes
  <1>1. refresh \in Seq([node : Nodes \cup {None},
                         at : {"none", "ask", "store", "info"},
                         answer : Heights])
    BY DEF TypeOK
  <1>2. Len(refresh) \in Nat /\ DOMAIN refresh = 1 .. Len(refresh)
    BY <1>1, LenProperties
  <1>3. \A i \in DOMAIN refresh :
          refresh[i] \in [node : Nodes \cup {None},
                          at : {"none", "ask", "store", "info"},
                          answer : Heights]
    BY <1>1, <1>2, ElementOfSeq
  <1>4. \A i \in DOMAIN refresh :
          refresh[i].at # "none" => refresh[i].node \in Nodes
    BY DEF WaitInv, Running, TypeOK, NodeListTypeOK
  <1> QED
    BY <1>2, <1>3, <1>4, CheckerAssumption

(* Blocks are made and stored answers make lo smaller: what the round has  *)
(* found out stays as it was.                                              *)
LEMMA RoundFrame ==
  ASSUME IInv, TypeOK',
         UNCHANGED <<clients, known, pc, infos, num, max_block, paused, calm>>,
         \A e \in Endpoints : height[e] <= height'[e],
         pc # "sleep" => \A n \in Nodes : lo'[n] <= lo[n]
  PROVE  InfoInv' /\ CalmInv' /\ JudgeInv'
  <1> USE DEF IInv
  <1>1. /\ known \subseteq Nodes /\ Range(clients) \subseteq known
        /\ infos # <<>> => pc # "sleep"
    BY DEF TypeOK, NodeListTypeOK, ProgressInv
  <1>2. /\ \A e \in Endpoints : height'[e] \in Nat /\ height[e] \in Nat
        /\ \A n \in Nodes : /\ Endpoint[n] \in Endpoints
                           /\ lo'[n] \in Nat /\ lo[n] \in Nat
        /\ \A i \in DOMAIN infos :
             infos[i].endpoint \in Endpoints /\ infos[i].last \in Nat
        /\ MaxLag \in Nat
    BY Numbers, CheckerAssumption DEF TypeOK
  <1>3. \A n \in Range(clients) : n \in known /\ n \in Nodes
    BY <1>1
  <1>4. InfoInv'
    BY <1>1, <1>2 DEF InfoInv
  <1>5. CalmInv'
    <2>1. \A i \in DOMAIN clients : clients[i] \in Nodes
      BY <1>1 DEF Range
    <2> QED
      BY <1>1, <1>2, <2>1 DEF CalmInv
  <1>6. ASSUME pc = "judge", NEW i \in 1 .. num - 1, Spared(i) PROVE Spared(i)'
    <2> SUFFICES ASSUME NEW n \in Range(clients),
                        infos[i].endpoint = Endpoint[n],
                        \A m \in Twins(n) : Near(lo[m])'
                 PROVE  ~ paused[n]
      BY DEF Spared, Twins
    <2>1. ASSUME NEW m \in Twins(n) PROVE Near(lo[m])
      BY <1>1, <1>2, <1>6, <2>1 DEF Near, Twins
    <2> QED
      BY <1>6, <2>1 DEF Spared
  <1>7. ASSUME pc = "judge", NEW i \in 1 .. num - 1, Stopped(i) PROVE Stopped(i)'
    BY <1>2, <1>3, <1>7 DEF Stopped, Height
  <1>8. JudgeInv'
    <2> SUFFICES ASSUME pc = "judge" PROVE JudgeInv'
      BY DEF JudgeInv
    <2>1. /\ \A i \in DOMAIN infos : infos[i].last <= max_block
          /\ max_block = 0 \/ \E e \in Endpoints : max_block <= height[e]
          /\ \A i \in 1 .. num - 1 : Spared(i) /\ (calm => Stopped(i))
      BY DEF JudgeInv
    <2>2. max_block \in Nat
      BY CheckerAssumption DEF TypeOK
    <2>3. max_block = 0 \/ \E e \in Endpoints : max_block <= height'[e]
      BY <1>2, <2>1, <2>2
    <2>4. \A i \in 1 .. num - 1 : Spared(i)' /\ (calm => Stopped(i)')
      BY <1>6, <1>7, <2>1
    <2> QED
      BY <2>1, <2>3, <2>4 DEF JudgeInv
  <1> QED
    BY <1>4, <1>5, <1>8

(* What the WaitGroup counts does not change with the nodes.               *)
LEMMA WaitFrame ==
  ASSUME WaitInv, UNCHANGED <<wg, refresh, clients>>,
         known \subseteq known', calm' => calm
  PROVE  WaitInv'
  BY Zenon DEF WaitInv, Running

-----------------------------------------------------------------------------
(* Steps of nodes                                                          *)

(* Blocks are made.                                                        *)
LEMMA BlocksMadeInv ==
  ASSUME IInv, NEW e \in Endpoints, NEW h \in Heights, BlocksMade(e, h)
  PROVE  IInv'
  <1> USE DEF IInv
  <1>1. /\ h > height[e] /\ height' = [height EXCEPT ![e] = h]
        /\ UNCHANGED <<clients, known, last, paused, beat, lo, pc, infos, num,
                       wg, refresh, max_block, replacing, replaced, gone, calm>>
    BY DEF BlocksMade, listVars, checkerVars, adminVars
  <1>2. \A d \in Endpoints : height[d] \in Nat /\ height[d] <= height'[d]
                             /\ height'[d] \in Nat
    BY <1>1, Numbers, CheckerAssumption DEF TypeOK
  <1>3. TypeOK'
    BY <1>1 DEF TypeOK, NodeListTypeOK
  <1>4. HeightInv'
    <2>1. \A n \in Nodes : Height(n) \in Nat /\ Height(n)' \in Nat
                           /\ Height(n) <= Height(n)'
      BY <1>2, CheckerAssumption DEF Height
    <2>2. \A n \in Nodes : lo[n]' <= last[n]' /\ last[n]' <= Height(n)'
      BY <1>1, <2>1, Numbers DEF HeightInv
    <2>3. \A n \in Nodes : beat[n]' # None => beat[n]' <= Height(n)'
      <3>1. \A n \in Nodes : beat[n] # None => beat[n] \in Nat
        BY CheckerAssumption DEF TypeOK
      <3> QED
        BY <1>1, <2>1, <3>1 DEF HeightInv
    <2>4. \A i \in DOMAIN refresh :
            refresh[i].at = "store" => refresh[i].answer <= Height(refresh[i].node)'
      BY <1>1, <2>1, Goroutines DEF HeightInv
    <2> QED
      BY <1>1, <2>2, <2>3, <2>4 DEF HeightInv
  <1>5. InfoInv' /\ CalmInv' /\ JudgeInv'
    <2>1. \A n \in Nodes : lo'[n] <= lo[n]
      BY <1>1, Numbers
    <2> QED
      BY <1>1, <1>2, <1>3, <2>1, RoundFrame
  <1>6. WaitInv' /\ ProgressInv' /\ ReplacedNeverMissing'
    BY <1>1, WaitFrame DEF ProgressInv, ReplacedNeverMissing
  <1> QED
    BY <1>3, <1>4, <1>5, <1>6

(* A stored answer is not ahead of the node, and lo stays least.           *)
LEMMA StoreFacts ==
  ASSUME IInv, NEW n \in Nodes, NEW h \in Heights, h <= Height(n), Store(n, h)
  PROVE  /\ last' \in [Nodes -> Heights] /\ lo' \in [Nodes -> Heights]
         /\ \A m \in Nodes : lo'[m] <= last'[m] /\ last'[m] <= Height(m)
         /\ pc # "sleep" => \A m \in Nodes : lo'[m] <= lo[m]
  <1>1. /\ last \in [Nodes -> Heights] /\ lo \in [Nodes -> Heights]
        /\ h \in Nat
        /\ \A m \in Nodes : /\ lo[m] \in Nat /\ last[m] \in Nat
                           /\ lo[m] <= last[m] /\ last[m] <= Height(m)
    BY Numbers, CheckerAssumption DEF IInv, TypeOK, HeightInv
  <1>2. /\ last' = [last EXCEPT ![n] = h]
        /\ lo' = [lo EXCEPT ![n] = IF pc # "sleep" /\ @ < h THEN @ ELSE h]
    BY DEF Store
  <1>3. \A m \in Nodes :
          /\ last'[m] = IF m = n THEN h ELSE last[m]
          /\ lo'[m] = IF m # n THEN lo[m]
                      ELSE IF pc # "sleep" /\ lo[n] < h THEN lo[n] ELSE h
    BY <1>1, <1>2
  <1> QED
    BY <1>1, <1>2, <1>3

(* A heartbeat is told a height.                                           *)
LEMMA BeatAnsweredInv ==
  ASSUME IInv, NEW n \in Nodes, BeatAnswered(n)
  PROVE  IInv'
  <1> USE DEF IInv
  <1>1. /\ beat' = [beat EXCEPT ![n] = Height(n)]
        /\ UNCHANGED <<clients, known, height, last, paused, lo, pc, infos, num,
                       wg, refresh, max_block, replacing, replaced, gone, calm>>
    BY DEF BeatAnswered, listVars, checkerVars, adminVars
  <1>2. Height(n) \in Heights
    BY CheckerAssumption DEF TypeOK, Height
  <1>3. TypeOK'
    BY <1>1, <1>2 DEF TypeOK, NodeListTypeOK
  <1>4. HeightInv'
    <2>1. Height(n) <= Height(n)
      BY Numbers
    <2> QED
      BY <1>1, <2>1 DEF HeightInv, TypeOK, Height
  <1>5. InfoInv' /\ CalmInv' /\ JudgeInv'
    <2>1. /\ \A m \in Nodes : lo'[m] <= lo[m]
          /\ \A e \in Endpoints : height[e] <= height'[e]
      BY <1>1, Numbers
    <2> QED
      BY <1>1, <1>3, <2>1, RoundFrame
  <1>6. WaitInv' /\ ProgressInv' /\ ReplacedNeverMissing'
    BY <1>1, WaitFrame DEF ProgressInv, ReplacedNeverMissing
  <1> QED
    BY <1>3, <1>4, <1>5, <1>6

(* A heartbeat stores it.                                                  *)
LEMMA BeatStoredInv ==
  ASSUME IInv, NEW n \in Nodes, BeatStored(n)
  PROVE  IInv'
  <1> USE DEF IInv
  <1>1. /\ Store(n, beat[n]) /\ beat[n] # None
        /\ beat' = [beat EXCEPT ![n] = None]
        /\ UNCHANGED <<clients, known, height, paused, pc, infos, num,
                       wg, refresh, max_block, replacing, replaced, gone, calm>>
    BY DEF BeatStored, listVars, checkerVars, adminVars
  <1>2. beat[n] \in Heights /\ beat[n] <= Height(n)
    BY <1>1 DEF TypeOK, HeightInv
  <1>3. /\ last' \in [Nodes -> Heights] /\ lo' \in [Nodes -> Heights]
        /\ \A m \in Nodes : lo'[m] <= last'[m] /\ last'[m] <= Height(m)
        /\ pc # "sleep" => \A m \in Nodes : lo'[m] <= lo[m]
    BY <1>1, <1>2, StoreFacts
  <1>4. TypeOK'
    BY <1>1, <1>3 DEF TypeOK, NodeListTypeOK
  <1>5. HeightInv'
    BY <1>1, <1>3 DEF HeightInv, TypeOK, Height
  <1>6. InfoInv' /\ CalmInv' /\ JudgeInv'
    <2>1. \A e \in Endpoints : height[e] <= height'[e]
      BY <1>1, Numbers
    <2> QED
      BY <1>1, <1>3, <1>4, <2>1, RoundFrame
  <1>7. WaitInv' /\ ProgressInv' /\ ReplacedNeverMissing'
    BY <1>1, WaitFrame DEF ProgressInv, ReplacedNeverMissing
  <1> QED
    BY <1>4, <1>5, <1>6, <1>7

-----------------------------------------------------------------------------
(* Steps of the administrator                                              *)

(* The list changes only when no round depends on its places: infos and    *)
(* goroutines name nodes made before.                                      *)
LEMMA AdminFrame ==
  ASSUME IInv, Unlocked, calm' = FALSE, known \subseteq known',
         UNCHANGED <<height, pc, infos, num, wg, refresh, max_block>>,
         \A m \in known : lo'[m] = lo[m],
         Range(clients') \subseteq known'
  PROVE  WaitInv' /\ ProgressInv' /\ InfoInv' /\ CalmInv' /\ JudgeInv'
  <1> USE DEF IInv
  <1>1. WaitInv'
    BY Zenon DEF WaitInv, Running
  <1>2. ProgressInv'
    BY DEF ProgressInv, Unlocked
  <1>3. InfoInv'
    BY DEF InfoInv
  <1>4. CalmInv' /\ JudgeInv'
    BY DEF CalmInv, JudgeInv, Unlocked
  <1> QED
    BY <1>1, <1>2, <1>3, <1>4

(* A node is added, perhaps to replace another one.                        *)
LEMMA AdminAddInv ==
  ASSUME IInv, NEW new \in Nodes, NEW old \in Range(clients) \cup {None},
         AdminAdd(new, old)
  PROVE  IInv'
  <1> USE DEF IInv
  <1>1. /\ Unlocked /\ new \notin known /\ known' = known \cup {new}
        /\ clients' = Append(clients, new)
        /\ replacing' = replacing \cup {<<new, n>> : n \in {old} \ {None}}
        /\ replaced' = replaced \cup replacing'
        /\ calm' = FALSE
        /\ UNCHANGED <<height, paused, beat, pc, infos, num, wg, refresh,
                       max_block, gone>>
    BY DEF AdminAdd, ClientRegister, checkerVars
  <1>2. PICK h \in {g \in Heights : g <= Height(new)} :
          /\ last' = [last EXCEPT ![new] = h]
          /\ lo' = [lo EXCEPT ![new] = h]
    BY DEF AdminAdd
  <1>3. /\ clients' \in Seq(Nodes) /\ known' \subseteq Nodes
        /\ Range(clients') = Range(clients) \cup {new}
    BY <1>1, AppendRange DEF TypeOK, NodeListTypeOK
  <1>4. Range(clients) \subseteq known /\ known \subseteq Nodes
    BY DEF ProgressInv, TypeOK, NodeListTypeOK
  <1>5. {<<new, n>> : n \in {old} \ {None}} \subseteq Nodes \X Nodes
    BY <1>4
  <1>6. TypeOK'
    BY <1>1, <1>2, <1>3, <1>5 DEF TypeOK, NodeListTypeOK
  <1>7. HeightInv'
    <2>1. \A m \in Nodes : lo'[m] <= last'[m] /\ last'[m] <= Height(m)
      BY <1>2, Numbers, CheckerAssumption DEF HeightInv, TypeOK
    <2> QED
      BY <1>1, <2>1 DEF HeightInv, Height
  <1>8. WaitInv' /\ ProgressInv' /\ InfoInv' /\ CalmInv' /\ JudgeInv'
    <2>1. \A m \in known : lo'[m] = lo[m]
      BY <1>1, <1>2, <1>4 DEF TypeOK
    <2> QED
      BY <1>1, <1>3, <1>4, <2>1, AdminFrame
  <1>9. ReplacedNeverMissing'
    <2> SUFFICES ASSUME NEW r \in replaced'
                 PROVE  \/ r[1] \in gone \/ \E t \in replaced : t[2] = r[1]
                        \/ r[1] \in Range(clients) \cup {new}
      BY <1>1, <1>3 DEF ReplacedNeverMissing
    <2>1. CASE r \in replaced
      BY <2>1 DEF ReplacedNeverMissing
    <2>2. CASE r \notin replaced
      <3>1. r \in {<<new, n>> : n \in {old} \ {None}}
        BY <1>1, <2>2 DEF TypeOK
      <3> QED
        BY <3>1
    <2> QED
      BY <2>1, <2>2
  <1> QED
    BY <1>6, <1>7, <1>8, <1>9

(* What a removal leaves of the list.                                      *)
LEMMA RemoveFacts ==
  ASSUME IInv, NEW i \in DOMAIN clients, ClientRemove(i)
  PROVE  /\ clients' \in Seq(Nodes) /\ known' = known
         /\ Range(clients') \subseteq known
         /\ Range(clients) \subseteq Range(clients') \cup {clients[i]}
         /\ clients[i] \in known
  <1>1. clients \in Seq(Nodes) /\ Range(clients) \subseteq known
    BY DEF IInv, TypeOK, NodeListTypeOK, ProgressInv
  <1>2. DOMAIN clients = 1 .. Len(clients)
    BY <1>1, LenProperties
  <1>3. clients' = RemoveAt(clients, i) /\ known' = known
    BY DEF ClientRemove
  <1>4. /\ clients' \in Seq(Nodes)
        /\ Range(clients') \subseteq Range(clients)
        /\ Range(clients) \subseteq Range(clients') \cup {clients[i]}
    BY <1>1, <1>2, <1>3, RemoveAtRange
  <1>5. clients[i] \in Range(clients)
    BY DEF Range
  <1> QED
    BY <1>1, <1>3, <1>4, <1>5

(* The old node is removed, if it is still there.                          *)
LEMMA AdminReplaceInv ==
  ASSUME IInv, NEW r \in replacing, AdminReplace(r[1], r[2])
  PROVE  IInv'
  <1> USE DEF IInv
  <1>1. r \in replaced /\ r \in Nodes \X Nodes /\ r = <<r[1], r[2]>>
    BY DEF TypeOK
  <1>2. /\ Unlocked /\ replacing' = replacing \ {r}
        /\ calm' = FALSE
        /\ UNCHANGED <<height, last, paused, beat, lo, pc, infos, num, wg,
                       refresh, max_block, replaced, gone>>
    BY <1>1 DEF AdminReplace, nodeVars, checkerVars
  <1>3. /\ clients' \in Seq(Nodes) /\ known' = known
        /\ Range(clients') \subseteq known
        /\ Range(clients) \subseteq Range(clients') \cup {r[2]}
    <2>1. ASSUME NEW i \in DOMAIN clients, clients[i] = r[2], ClientRemove(i)
          PROVE  /\ clients' \in Seq(Nodes) /\ known' = known
                 /\ Range(clients') \subseteq known
                 /\ Range(clients) \subseteq Range(clients') \cup {r[2]}
      BY <2>1, RemoveFacts
    <2>2. CASE UNCHANGED listVars
      BY <2>2 DEF listVars, TypeOK, NodeListTypeOK, ProgressInv
    <2> QED
      BY <2>1, <2>2 DEF AdminReplace
  <1>4. TypeOK'
    BY <1>2, <1>3 DEF TypeOK, NodeListTypeOK
  <1>5. HeightInv'
    BY <1>2 DEF HeightInv, Height
  <1>6. WaitInv' /\ ProgressInv' /\ InfoInv' /\ CalmInv' /\ JudgeInv'
    <2>1. \A m \in known : lo'[m] = lo[m]
      BY <1>2
    <2> QED
      BY <1>2, <1>3, <2>1, AdminFrame
  <1>7. ReplacedNeverMissing'
    BY <1>1, <1>2, <1>3 DEF ReplacedNeverMissing
  <1> QED
    BY <1>4, <1>5, <1>6, <1>7

(* A node is removed on request.                                           *)
LEMMA AdminRemoveInv ==
  ASSUME IInv, NEW i \in DOMAIN clients, AdminRemove(i)
  PROVE  IInv'
  <1> USE DEF IInv
  <1>1. /\ Unlocked /\ ClientRemove(i) /\ gone' = gone \cup {clients[i]}
        /\ calm' = FALSE
        /\ UNCHANGED <<height, last, paused, beat, lo, pc, infos, num, wg,
                       refresh, max_block, replacing, replaced>>
    BY DEF AdminRemove, nodeVars, checkerVars
  <1>2. /\ clients' \in Seq(Nodes) /\ known' = known
        /\ Range(clients') \subseteq known
        /\ Range(clients) \subseteq Range(clients') \cup {clients[i]}
        /\ clients[i] \in known
    BY <1>1, RemoveFacts
  <1>3. TypeOK'
    BY <1>1, <1>2 DEF TypeOK, NodeListTypeOK
  <1>4. HeightInv'
    BY <1>1 DEF HeightInv, Height
  <1>5. WaitInv' /\ ProgressInv' /\ InfoInv' /\ CalmInv' /\ JudgeInv'
    <2>1. \A m \in known : lo'[m] = lo[m]
      BY <1>1
    <2> QED
      BY <1>1, <1>2, <2>1, AdminFrame
  <1>6. ReplacedNeverMissing'
    BY <1>1, <1>2 DEF ReplacedNeverMissing
  <1> QED
    BY <1>3, <1>4, <1>5, <1>6

-----------------------------------------------------------------------------
(* Steps of a round                                                        *)

(* A round begins: the list is as it is, and nothing is known yet.         *)
LEMMA BeginRoundInv ==
  ASSUME IInv, BeginRound
  PROVE  IInv'
  <1> USE DEF IInv
  <1>1. /\ pc = "sleep" /\ pc' = "snapshot" /\ calm' = TRUE
        /\ UNCHANGED <<clients, known, height, last, paused, beat, lo, infos,
                       num, wg, refresh, max_block, replacing, replaced, gone>>
    BY DEF BeginRound, listVars, nodeVars
  <1>2. infos = <<>> /\ refresh = <<>>
    BY <1>1 DEF ProgressInv
  <1>3. TypeOK'
    BY <1>1 DEF TypeOK, NodeListTypeOK
  <1>4. HeightInv' /\ ReplacedNeverMissing'
    BY <1>1 DEF HeightInv, Height, ReplacedNeverMissing
  <1>5. Running = {} /\ Running' = {}
    BY <1>1, <1>2 DEF Running
  <1>6. WaitInv'
    BY <1>1, <1>5 DEF WaitInv
  <1>7. ProgressInv'
    <2>1. Len(clients) \in Nat /\ Len(infos) = 0
      BY <1>2 DEF TypeOK, NodeListTypeOK
    <2> QED
      BY <1>1, <1>2, <2>1 DEF ProgressInv
  <1>8. InfoInv' /\ CalmInv' /\ JudgeInv'
    BY <1>1, <1>2, <1>5 DEF InfoInv, CalmInv, JudgeInv
  <1> QED
    BY <1>3, <1>4, <1>6, <1>7, <1>8

(* One more node is asked what it knows.                                   *)
LEMMA SnapshotInv ==
  ASSUME IInv, Snapshot
  PROVE  IInv'
  <1> USE DEF IInv
  <1>1. /\ pc = "snapshot"
        /\ UNCHANGED <<clients, known, height, last, paused, beat, lo, num, wg,
                       refresh, max_block, replacing, replaced, gone, calm>>
    BY DEF Snapshot, listVars, nodeVars, adminVars
  <1>2. /\ refresh = <<>> /\ num = 1 /\ Len(infos) <= Len(clients)
        /\ Range(clients) \subseteq known /\ known \subseteq Nodes
        /\ infos \in Seq([endpoint : Endpoints, last : Heights])
        /\ Len(infos) \in Nat /\ Len(clients) \in Nat
        /\ DOMAIN infos = 1 .. Len(infos) /\ DOMAIN clients = 1 .. Len(clients)
    BY <1>1 DEF ProgressInv, TypeOK, NodeListTypeOK
  <1>3. HeightInv' /\ ReplacedNeverMissing'
    BY <1>1 DEF HeightInv, Height, ReplacedNeverMissing
  <1>4. WaitInv'
    BY <1>1, WaitFrame
  <1>5. CASE Len(infos) < Len(clients)
    <2> DEFINE n == clients[Len(infos) + 1]
    <2>1. infos' = Append(infos, Info(n)) /\ pc' = pc
      BY <1>5 DEF Snapshot
    <2>2. n \in Range(clients) /\ n \in known /\ n \in Nodes
      BY <1>2, <1>5 DEF Range
    <2>3. Info(n) \in [endpoint : Endpoints, last : Heights]
      BY <2>2, CheckerAssumption DEF Info, TypeOK
    <2> HIDE DEF n
    <2>4. /\ infos' \in Seq([endpoint : Endpoints, last : Heights])
          /\ Len(infos') = Len(infos) + 1
          /\ DOMAIN infos' = 1 .. Len(infos) + 1
          /\ \A i \in DOMAIN infos : infos'[i] = infos[i]
          /\ infos'[Len(infos) + 1] = Info(n)
      BY <1>2, <2>1, <2>3, AppendProperties
    <2>5. TypeOK'
      BY <1>1, <1>2, <2>1, <2>4 DEF TypeOK, NodeListTypeOK
    <2>6. ProgressInv'
      BY <1>1, <1>2, <1>5, <2>1, <2>4 DEF ProgressInv
    <2>7. /\ Info(n).endpoint = Endpoint[n] /\ Info(n).last = last[n]
          /\ lo[n] <= last[n] /\ last[n] <= height[Endpoint[n]]
      BY <2>2 DEF Info, HeightInv, Height
    <2>8. InfoInv'
      <3> SUFFICES ASSUME NEW i \in DOMAIN infos'
                   PROVE  /\ infos'[i].last <= height[infos'[i].endpoint]
                          /\ \E m \in known : /\ Endpoint[m] = infos'[i].endpoint
                                             /\ lo[m] <= infos'[i].last
        BY <1>1 DEF InfoInv
      <3>1. CASE i \in DOMAIN infos
        BY <2>4, <3>1 DEF InfoInv
      <3>2. CASE i = Len(infos) + 1
        BY <2>2, <2>4, <2>7, <3>2
      <3> QED
        BY <1>2, <2>4, <3>1, <3>2
    <2>9. CalmInv'
      <3> SUFFICES ASSUME calm, NEW i \in DOMAIN infos'
                   PROVE  /\ i \in DOMAIN clients
                          /\ infos'[i].endpoint = Endpoint[clients[i]]
                          /\ lo[clients[i]] <= infos'[i].last
        BY <1>1, <2>1 DEF CalmInv
      <3>1. CASE i \in DOMAIN infos
        BY <2>4, <3>1 DEF CalmInv
      <3>2. CASE i = Len(infos) + 1
        BY <1>2, <1>5, <2>4, <2>7, <3>2 DEF n
      <3> QED
        BY <1>2, <2>4, <3>1, <3>2
    <2> QED
      BY <1>1, <1>3, <1>4, <2>1, <2>5, <2>6, <2>8, <2>9 DEF JudgeInv
  <1>6. CASE ~ (Len(infos) < Len(clients))
    <2>1. infos' = infos /\ pc' = "refresh"
      BY <1>6 DEF Snapshot
    <2>2. TypeOK' /\ ProgressInv'
      BY <1>1, <1>2, <2>1 DEF TypeOK, NodeListTypeOK, ProgressInv
    <2>3. InfoInv' /\ JudgeInv'
      BY <1>1, <2>1 DEF InfoInv, JudgeInv
    <2>4. CalmInv'
      <3> DEFINE done == Len(infos)
                 all == Len(clients)
      <3>1. done = all
        <4>1. done \in Nat /\ all \in Nat /\ done <= all /\ ~ (done < all)
          BY <1>2, <1>6
        <4> HIDE DEF done, all
        <4> QED
          BY <4>1
      <3> SUFFICES ASSUME calm', NEW i \in DOMAIN infos'
                   PROVE  (/\ i \in DOMAIN clients
                           /\ infos[i].endpoint = Endpoint[clients[i]]
                           /\ lo[clients[i]] <= infos[i].last)'
        BY <1>1, <2>1, <3>1 DEF CalmInv
      <3> QED
        BY <1>1, <2>1 DEF CalmInv
    <2> QED
      BY <1>3, <1>4, <2>2, <2>3, <2>4
  <1> QED
    BY <1>5, <1>6

(* One turn of the loop: a goroutine is started and counted, or neither.   *)
LEMMA RefreshNextInv ==
  ASSUME IInv, RefreshNext
  PROVE  IInv'
  <1> USE DEF IInv
  <1>1. /\ pc = "refresh" /\ num <= Len(infos) /\ num' = num + 1
        /\ UNCHANGED <<clients, known, height, last, paused, beat, lo, pc, infos,
                       max_block, replacing, replaced, gone, calm>>
    BY DEF RefreshNext, listVars, nodeVars, adminVars
  <1>2. PICK old \in BOOLEAN :
          LET again == old /\ num <= Len(clients)
          IN  /\ refresh' = Append(refresh,
                   IF again
                   THEN [node |-> clients[num], at |-> "ask", answer |-> 0]
                   ELSE Idle)
              /\ wg' = IF again THEN wg + 1 ELSE wg
    BY DEF RefreshNext
  <1> DEFINE again == old /\ num <= Len(clients)
             g == IF again
                  THEN [node |-> clients[num], at |-> "ask", answer |-> 0]
                  ELSE Idle
             Goroutine == [node : Nodes \cup {None},
                           at : {"none", "ask", "store", "info"},
                           answer : Heights]
  <1>3. /\ Len(refresh) = num - 1 /\ num \in Nat \ {0}
        /\ Len(infos) \in Nat /\ Len(clients) \in Nat
        /\ DOMAIN clients = 1 .. Len(clients)
        /\ DOMAIN refresh = 1 .. num - 1
        /\ refresh \in Seq(Goroutine)
        /\ Range(clients) \subseteq known /\ known \subseteq Nodes
    BY <1>1, Goroutines DEF ProgressInv, TypeOK, NodeListTypeOK
  <1>4. again => clients[num] \in known
    BY <1>3 DEF Range
  <1>5. g \in Goroutine
    BY <1>3, <1>4, CheckerAssumption DEF Idle
  <1>6. /\ g.at # "none" <=> again
        /\ g.at # "store"
        /\ again => g.node = clients[num]
    BY DEF Idle
  <1>7. refresh' = Append(refresh, g) /\ wg' = IF again THEN wg + 1 ELSE wg
    BY <1>2
  <1> HIDE DEF g, again, Goroutine
  <1>8. /\ refresh' \in Seq(Goroutine) /\ Len(refresh') = num
        /\ DOMAIN refresh' = 1 .. num
        /\ \A i \in 1 .. num - 1 : refresh'[i] = refresh[i]
        /\ refresh'[num] = g
    BY <1>3, <1>5, <1>7, AppendProperties
  <1>9. wg \in Nat /\ wg' \in Nat
    BY <1>7 DEF TypeOK
  <1>10. TypeOK'
    BY <1>1, <1>3, <1>8, <1>9 DEF TypeOK, NodeListTypeOK, Goroutine
  <1>11. HeightInv'
    <2>1. ASSUME NEW i \in DOMAIN refresh', refresh'[i].at = "store"
          PROVE  i \in DOMAIN refresh /\ refresh'[i] = refresh[i]
      BY <1>3, <1>6, <1>8, <2>1
    <2>2. \A i \in DOMAIN refresh' : refresh'[i].at = "store" =>
            refresh'[i].answer <= Height(refresh'[i].node)
      BY <2>1 DEF HeightInv
    <2> QED
      BY <1>1, <2>2 DEF HeightInv, Height
  <1>12. Running' = IF again THEN Running \cup {num} ELSE Running
    BY <1>3, <1>6, <1>8 DEF Running
  <1>13. num \notin Running /\ IsFiniteSet(Running)
    <2>1. Running \subseteq 1 .. num - 1
      BY <1>3 DEF Running
    <2>2. num \notin 1 .. num - 1
      BY <1>3
    <2>3. IsFiniteSet(1 .. num - 1)
      BY <1>3, FS_Interval
    <2> QED
      BY <2>1, <2>2, <2>3, FS_Subset
  <1>14. WaitInv'
    <2>1. wg' = Cardinality(Running')
      <3>1. wg = Cardinality(Running)
        BY DEF WaitInv
      <3>2. CASE again
        BY <1>7, <1>12, <1>13, <3>1, <3>2, FS_AddElement
      <3>3. CASE ~ again
        BY <1>7, <1>12, <3>1, <3>3
      <3> QED
        BY <3>2, <3>3
    <2>2. ASSUME NEW i \in Running'
          PROVE  refresh'[i].node \in known /\ (calm => refresh'[i].node = clients[i])
      <3>1. CASE i \in Running
        BY <1>3, <1>8, <3>1 DEF WaitInv, Running
      <3>2. CASE again /\ i = num
        BY <1>4, <1>6, <1>8, <3>2
      <3> QED
        BY <1>12, <3>1, <3>2
    <2> QED
      BY <1>1, <2>1, <2>2 DEF WaitInv
  <1>15. ProgressInv'
    BY <1>1, <1>3, <1>8 DEF ProgressInv
  <1>16. InfoInv' /\ CalmInv' /\ JudgeInv' /\ ReplacedNeverMissing'
    BY <1>1 DEF InfoInv, CalmInv, JudgeInv, ReplacedNeverMissing
  <1> QED
    BY <1>10, <1>11, <1>14, <1>15, <1>16

(* What goes on in goroutine i while it still runs, and nothing else.      *)
LEMMA GoroutineFrame ==
  ASSUME IInv, NEW i \in DOMAIN refresh, refresh[i].at # "none",
         NEW g \in [node : Nodes \cup {None}, at : {"store", "info"},
                    answer : Heights],
         g.node = refresh[i].node,
         refresh' = [refresh EXCEPT ![i] = g],
         UNCHANGED <<clients, known, pc, infos, num, wg, calm>>
  PROVE  /\ refresh' \in Seq([node : Nodes \cup {None},
                              at : {"none", "ask", "store", "info"},
                              answer : Heights])
         /\ Len(refresh') = Len(refresh) /\ DOMAIN refresh' = DOMAIN refresh
         /\ \A j \in DOMAIN refresh :
              refresh'[j] = IF j = i THEN g ELSE refresh[j]
         /\ WaitInv' /\ ProgressInv'
  <1> USE DEF IInv
  <1> DEFINE Goroutine == [node : Nodes \cup {None},
                           at : {"none", "ask", "store", "info"},
                           answer : Heights]
  <1>1. /\ refresh \in Seq(Goroutine) /\ g \in Goroutine
        /\ Len(refresh) \in Nat /\ DOMAIN refresh = 1 .. Len(refresh)
    BY Goroutines DEF TypeOK
  <1> HIDE DEF Goroutine
  <1>2. /\ refresh' \in Seq(Goroutine) /\ Len(refresh') = Len(refresh)
        /\ \A j \in 1 .. Len(refresh) :
             refresh'[j] = IF j = i THEN g ELSE refresh[j]
    BY <1>1, ExceptSeq
  <1>3. DOMAIN refresh' = DOMAIN refresh
    BY <1>1, <1>2
  <1>4. Running' = Running
    BY <1>1, <1>2, <1>3 DEF Running
  <1>5. \A j \in Running : refresh'[j].node = refresh[j].node
    BY <1>1, <1>2 DEF Running
  <1>6. WaitInv'
    BY <1>4, <1>5 DEF WaitInv
  <1>7. ProgressInv'
    BY <1>1, <1>2 DEF ProgressInv
  <1> QED
    BY <1>1, <1>2, <1>3, <1>6, <1>7 DEF Goroutine

(* A goroutine is told a height, or fails.                                 *)
LEMMA RefreshAnsweredInv ==
  ASSUME IInv, NEW i \in DOMAIN refresh, RefreshAnswered(i)
  PROVE  IInv'
  <1> USE DEF IInv
  <1>1. /\ refresh[i].at = "ask"
        /\ UNCHANGED <<clients, known, height, last, paused, beat, lo, pc, infos,
                       num, wg, max_block, replacing, replaced, gone, calm>>
    BY DEF RefreshAnswered, listVars, nodeVars, adminVars
  <1> DEFINE asked == refresh[i].node
             told == [node |-> asked, at |-> "store", answer |-> Height(asked)]
             failed == [refresh[i] EXCEPT !.at = "info"]
  <1>2. /\ asked \in Nodes /\ Height(asked) \in Heights
        /\ refresh[i] \in [node : Nodes \cup {None},
                            at : {"none", "ask", "store", "info"},
                            answer : Heights]
    BY <1>1, Goroutines, CheckerAssumption DEF TypeOK, Height
  <1>3. PICK g \in {told, failed} : refresh' = [refresh EXCEPT ![i] = g]
    BY DEF RefreshAnswered
  <1>4. /\ g \in [node : Nodes \cup {None}, at : {"store", "info"},
                   answer : Heights]
        /\ g.node = asked
        /\ g.at = "store" => g.answer = Height(asked)
    BY <1>2
  <1> HIDE DEF told, failed
  <1>5. /\ refresh' \in Seq([node : Nodes \cup {None},
                              at : {"none", "ask", "store", "info"},
                              answer : Heights])
        /\ Len(refresh') = Len(refresh) /\ DOMAIN refresh' = DOMAIN refresh
        /\ \A j \in DOMAIN refresh :
             refresh'[j] = IF j = i THEN g ELSE refresh[j]
        /\ WaitInv' /\ ProgressInv'
    BY <1>1, <1>3, <1>4, GoroutineFrame
  <1>6. TypeOK'
    BY <1>1, <1>5 DEF TypeOK, NodeListTypeOK
  <1>7. HeightInv'
    <2>1. ASSUME NEW j \in DOMAIN refresh, refresh'[j].at = "store"
          PROVE  refresh'[j].answer <= Height(refresh'[j].node)
      <3>1. CASE j = i
        <4>1. Height(asked) <= Height(asked)
          BY <1>2, Numbers
        <4> QED
          BY <1>4, <1>5, <2>1, <3>1, <4>1
      <3>2. CASE j # i
        BY <1>5, <2>1, <3>2 DEF HeightInv
      <3> QED
        BY <3>1, <3>2
    <2> QED
      BY <1>1, <1>5, <2>1 DEF HeightInv, Height
  <1>8. InfoInv' /\ CalmInv' /\ JudgeInv'
    <2>1. /\ \A n \in Nodes : lo'[n] <= lo[n]
          /\ \A e \in Endpoints : height[e] <= height'[e]
      BY <1>1, Numbers
    <2> QED
      BY <1>1, <1>6, <2>1, RoundFrame
  <1>9. ReplacedNeverMissing'
    BY <1>1 DEF ReplacedNeverMissing
  <1> QED
    BY <1>5, <1>6, <1>7, <1>8, <1>9

(* A goroutine stores what it was told.                                    *)
LEMMA RefreshStoredInv ==
  ASSUME IInv, NEW i \in DOMAIN refresh, RefreshStored(i)
  PROVE  IInv'
  <1> USE DEF IInv
  <1> DEFINE asked == refresh[i].node
             g == [node |-> asked, at |-> "info", answer |-> 0]
  <1>1. /\ refresh[i].at = "store" /\ Store(asked, refresh[i].answer)
        /\ refresh' = [refresh EXCEPT ![i] = g]
        /\ UNCHANGED <<clients, known, height, paused, beat, pc, infos,
                       num, wg, max_block, replacing, replaced, gone, calm>>
    BY DEF RefreshStored, listVars, adminVars
  <1>2. /\ asked \in Nodes /\ refresh[i].answer \in Heights
        /\ refresh[i].answer <= Height(asked)
    BY <1>1, Goroutines DEF HeightInv
  <1>3. /\ g \in [node : Nodes \cup {None}, at : {"store", "info"},
                   answer : Heights]
        /\ g.node = asked /\ g.at = "info"
    BY <1>2, CheckerAssumption
  <1> HIDE DEF g
  <1>4. /\ last' \in [Nodes -> Heights] /\ lo' \in [Nodes -> Heights]
        /\ \A m \in Nodes : lo'[m] <= last'[m] /\ last'[m] <= Height(m)
        /\ pc # "sleep" => \A m \in Nodes : lo'[m] <= lo[m]
    BY <1>1, <1>2, StoreFacts
  <1>5. /\ refresh' \in Seq([node : Nodes \cup {None},
                              at : {"none", "ask", "store", "info"},
                              answer : Heights])
        /\ Len(refresh') = Len(refresh) /\ DOMAIN refresh' = DOMAIN refresh
        /\ \A j \in DOMAIN refresh :
             refresh'[j] = IF j = i THEN g ELSE refresh[j]
        /\ WaitInv' /\ ProgressInv'
    BY <1>1, <1>3, GoroutineFrame
  <1>6. TypeOK'
    BY <1>1, <1>4, <1>5 DEF TypeOK, NodeListTypeOK
  <1>7. HeightInv'
    <2>1. \A j \in DOMAIN refresh : refresh'[j].at = "store" =>
            refresh'[j].answer <= Height(refresh'[j].node)
      BY <1>3, <1>5 DEF HeightInv
    <2> QED
      BY <1>1, <1>4, <1>5, <2>1 DEF HeightInv, Height
  <1>8. InfoInv' /\ CalmInv' /\ JudgeInv'
    <2>1. \A e \in Endpoints : height[e] <= height'[e]
      BY <1>1, Numbers
    <2> QED
      BY <1>1, <1>4, <1>6, <2>1, RoundFrame
  <1>9. ReplacedNeverMissing'
    BY <1>1 DEF ReplacedNeverMissing
  <1> QED
    BY <1>5, <1>6, <1>7, <1>8, <1>9

(* A goroutine hands over what its node knows, and is done: what a node    *)
(* knows was known to it in this round.                                    *)
LEMMA RefreshDoneInv ==
  ASSUME IInv, NEW i \in DOMAIN refresh, RefreshDone(i)
  PROVE  IInv'
  <1> USE DEF IInv
  <1> DEFINE asked == refresh[i].node
             Infos == [endpoint : Endpoints, last : Heights]
             Goroutine == [node : Nodes \cup {None},
                           at : {"none", "ask", "store", "info"},
                           answer : Heights]
  <1>1. /\ refresh[i].at = "info"
        /\ infos' = [infos EXCEPT ![i] = Info(asked)]
        /\ refresh' = [refresh EXCEPT ![i] = Idle]
        /\ wg' = wg - 1
        /\ UNCHANGED <<clients, known, height, last, paused, beat, lo, pc, num,
                       max_block, replacing, replaced, gone, calm>>
    BY DEF RefreshDone, listVars, nodeVars, adminVars
  <1>2. /\ asked \in Nodes /\ asked \in known
        /\ calm => asked = clients[i]
        /\ i \in Running
    BY <1>1, Goroutines DEF WaitInv, Running
  <1>3. /\ infos \in Seq(Infos) /\ refresh \in Seq(Goroutine)
        /\ Len(infos) \in Nat /\ DOMAIN infos = 1 .. Len(infos)
        /\ Len(refresh) \in Nat /\ DOMAIN refresh = 1 .. Len(refresh)
        /\ Len(refresh) <= Len(infos)
    BY Goroutines DEF TypeOK
  <1>4. pc = "refresh"
    BY <1>3 DEF ProgressInv
  <1>5. /\ Info(asked) \in Infos /\ Info(asked).endpoint = Endpoint[asked]
        /\ Info(asked).last = last[asked]
        /\ lo[asked] <= last[asked] /\ last[asked] <= height[Endpoint[asked]]
    BY <1>2, CheckerAssumption DEF Info, TypeOK, HeightInv, Height
  <1>6. Idle \in Goroutine /\ Idle.at = "none"
    BY CheckerAssumption DEF Idle
  <1>7. i \in 1 .. Len(infos) /\ i \in 1 .. Len(refresh)
    BY <1>3
  <1> HIDE DEF Infos, Goroutine, asked
  <1>8. /\ infos' \in Seq(Infos) /\ Len(infos') = Len(infos)
        /\ DOMAIN infos' = DOMAIN infos
        /\ \A j \in DOMAIN infos :
             infos'[j] = IF j = i THEN Info(asked) ELSE infos[j]
    BY <1>1, <1>3, <1>5, <1>7, ExceptSeq
  <1>9. /\ refresh' \in Seq(Goroutine) /\ Len(refresh') = Len(refresh)
        /\ DOMAIN refresh' = DOMAIN refresh
        /\ \A j \in DOMAIN refresh :
             refresh'[j] = IF j = i THEN Idle ELSE refresh[j]
    BY <1>1, <1>3, <1>6, <1>7, ExceptSeq
  <1>10. Running' = Running \ {i}
    BY <1>6, <1>9 DEF Running
  <1>11. wg' = Cardinality(Running') /\ wg' \in Nat
    <2>1. Running \subseteq 1 .. Len(refresh)
      BY <1>3 DEF Running
    <2>2. IsFiniteSet(Running)
      <3>1. 0 \in Int /\ 1 \in Int /\ Len(refresh) \in Int
        BY <1>3
      <3>2. IsFiniteSet(1 .. Len(refresh))
        BY <3>1, FS_Interval
      <3> QED
        BY <2>1, <3>2, FS_Subset
    <2>3. IsFiniteSet(Running') /\ Cardinality(Running') = Cardinality(Running) - 1
      BY <1>2, <1>10, <2>2, FS_RemoveElement
    <2>4. Cardinality(Running') \in Nat
      BY <2>3, FS_CardinalityType
    <2> QED
      BY <1>1, <2>3, <2>4 DEF WaitInv
  <1>12. WaitInv'
    <2>1. \A j \in Running' : /\ refresh'[j].node \in known
                              /\ calm => refresh'[j].node = clients[j]
      BY <1>9, <1>10 DEF WaitInv, Running
    <2> QED
      BY <1>1, <1>11, <2>1 DEF WaitInv
  <1>13. TypeOK'
    BY <1>1, <1>3, <1>8, <1>9, <1>11
       DEF TypeOK, NodeListTypeOK, Infos, Goroutine
  <1>14. HeightInv'
    <2>1. \A j \in DOMAIN refresh : refresh'[j].at = "store" =>
            refresh'[j].answer <= Height(refresh'[j].node)
      BY <1>6, <1>9 DEF HeightInv
    <2> QED
      BY <1>1, <1>9, <2>1 DEF HeightInv, Height
  <1>15. ProgressInv'
    BY <1>1, <1>4, <1>9 DEF ProgressInv
  <1>16. InfoInv'
    <2>1. ASSUME NEW j \in DOMAIN infos
          PROVE  /\ infos'[j].last <= height[infos'[j].endpoint]
                 /\ \E m \in known : /\ Endpoint[m] = infos'[j].endpoint
                                    /\ lo[m] <= infos'[j].last
      <3>1. CASE j = i
        BY <1>2, <1>5, <1>8, <3>1
      <3>2. CASE j # i
        BY <1>8, <3>2 DEF InfoInv
      <3> QED
        BY <3>1, <3>2
    <2> QED
      BY <1>1, <1>8, <2>1 DEF InfoInv
  <1>17. CalmInv'
    <2> SUFFICES ASSUME calm
                 PROVE  /\ Len(infos) = Len(clients)
                        /\ \A j \in DOMAIN infos :
                             /\ j \in DOMAIN clients
                             /\ infos'[j].endpoint = Endpoint[clients[j]]
                             /\ lo[clients[j]] <= infos'[j].last
      BY <1>1, <1>8 DEF CalmInv
    <2>1. Len(infos) = Len(clients)
      BY <1>4 DEF CalmInv
    <2>2. ASSUME NEW j \in DOMAIN infos
          PROVE  /\ j \in DOMAIN clients
                 /\ infos'[j].endpoint = Endpoint[clients[j]]
                 /\ lo[clients[j]] <= infos'[j].last
      <3>1. CASE j = i
        BY <1>2, <1>5, <1>8, <3>1 DEF CalmInv
      <3>2. CASE j # i
        BY <1>8, <3>2 DEF CalmInv
      <3> QED
        BY <3>1, <3>2
    <2> QED
      BY <2>1, <2>2
  <1>18. JudgeInv' /\ ReplacedNeverMissing'
    BY <1>1, <1>4 DEF JudgeInv, ReplacedNeverMissing
  <1> QED
    BY <1>12, <1>13, <1>14, <1>15, <1>16, <1>17, <1>18

(* All goroutines are done. The highest block is one some node has.        *)
LEMMA WaitStepInv ==
  ASSUME IInv, Wait
  PROVE  IInv'
  <1> USE DEF IInv
  <1>1. /\ wg = 0 /\ pc' = "judge" /\ pc = "refresh" /\ num' = 1
        /\ refresh' = <<>>
        /\ UNCHANGED <<clients, known, height, last, paused, beat, lo, infos,
                       wg, replacing, replaced, gone, calm>>
    BY DEF Wait, listVars, nodeVars, adminVars
  <1>2. PICK h \in {0} \cup {infos[i].last : i \in DOMAIN infos} :
          /\ \A i \in DOMAIN infos : infos[i].last <= h
          /\ max_block' = h
    BY DEF Wait
  <1>3. \A i \in DOMAIN infos :
          infos[i].endpoint \in Endpoints /\ infos[i].last \in Heights
    <2>1. infos \in Seq([endpoint : Endpoints, last : Heights])
      BY DEF TypeOK
    <2>2. \A i \in DOMAIN infos : infos[i] \in [endpoint : Endpoints, last : Heights]
      BY <2>1, ElementOfSeq, LenProperties
    <2> QED
      BY <2>2
  <1>4. h \in Heights
    BY <1>3, CheckerAssumption
  <1>5. h = 0 \/ \E e \in Endpoints : h <= height[e]
    BY <1>3 DEF InfoInv
  <1>6. Len(infos) \in Nat
    BY DEF TypeOK
  <1>7. TypeOK'
    BY <1>1, <1>2, <1>4, <1>6 DEF TypeOK, NodeListTypeOK
  <1>8. HeightInv' /\ ReplacedNeverMissing'
    BY <1>1 DEF HeightInv, Height, ReplacedNeverMissing
  <1>9. WaitInv'
    <2>1. Running' = {} /\ Cardinality({}) = 0
      BY <1>1, FS_EmptySet DEF Running
    <2> QED
      BY <1>1, <2>1 DEF WaitInv
  <1>10. ProgressInv' /\ InfoInv'
    BY <1>1 DEF ProgressInv, InfoInv
  <1>11. CalmInv'
    BY <1>1 DEF CalmInv
  <1>12. JudgeInv'
    <2>1. 1 .. num' - 1 = {}
      BY <1>1
    <2> QED
      BY <1>1, <1>2, <1>5, <2>1 DEF JudgeInv
  <1> QED
    BY <1>7, <1>8, <1>9, <1>10, <1>11, <1>12

(* A verdict spares who keeps up and pauses who lags.                      *)
LEMMA VerdictFacts ==
  ASSUME IInv, pc = "judge", num \in DOMAIN infos, NEW n \in Range(clients),
         infos[num].endpoint = Endpoint[n]
  PROVE  /\ (\A m \in Twins(n) : Near(lo[m]))
              => ~ (max_block - infos[num].last > MaxLag)
         /\ calm => \A m \in Range(clients) :
              lo[m] - Height(n) > MaxLag => max_block - infos[num].last > MaxLag
  <1> USE DEF IInv
  <1>1. /\ n \in Nodes /\ n \in known /\ MaxLag \in Nat /\ max_block \in Nat
        /\ infos[num].last \in Nat
        /\ \A m \in known : m \in Nodes /\ lo[m] \in Nat /\ Height(m) \in Nat
        /\ \A e \in Endpoints : height[e] \in Nat
        /\ Range(clients) \subseteq known
    BY Numbers, CheckerAssumption DEF ProgressInv, TypeOK, NodeListTypeOK
  <1>2. /\ infos[num].last <= max_block
        /\ max_block = 0 \/ \E e \in Endpoints : max_block <= height[e]
        /\ \A i \in DOMAIN infos : infos[i].last <= max_block
    BY DEF JudgeInv
  <1>3. ASSUME \A m \in Twins(n) : Near(lo[m])
        PROVE  ~ (max_block - infos[num].last > MaxLag)
    <2>1. PICK m \in known : /\ Endpoint[m] = infos[num].endpoint
                             /\ lo[m] <= infos[num].last
      BY DEF InfoInv
    <2>2. m \in Twins(n)
      BY <2>1 DEF Twins
    <2>3. \A e \in Endpoints : height[e] - lo[m] <= MaxLag
      BY <1>3, <2>2 DEF Near
    <2> QED
      BY <1>1, <1>2, <2>1, <2>3
  <1>4. ASSUME calm, NEW m \in Range(clients), lo[m] - Height(n) > MaxLag
        PROVE  max_block - infos[num].last > MaxLag
    <2>1. PICK k \in DOMAIN clients : m = clients[k]
      BY DEF Range
    <2>2. k \in DOMAIN infos /\ lo[m] <= infos[k].last
      <3>1. Len(infos) = Len(clients)
        BY <1>4 DEF CalmInv
      <3>2. DOMAIN infos = 1 .. Len(infos) /\ DOMAIN clients = 1 .. Len(clients)
        BY DEF TypeOK, NodeListTypeOK
      <3> QED
        BY <1>4, <2>1, <3>1, <3>2 DEF CalmInv
    <2>3. infos[num].last <= Height(n)
      BY DEF InfoInv, Height
    <2>4. infos[k].last <= max_block /\ infos[k].last \in Nat
      BY <1>2, <2>2, Numbers
    <2> QED
      BY <1>1, <1>4, <2>2, <2>3, <2>4
  <1> QED
    BY <1>3, <1>4

(* One more info is judged.                                                *)
LEMMA JudgeStepInv ==
  ASSUME IInv, Judge
  PROVE  IInv'
  <1> USE DEF IInv
  <1> DEFINE lagging == max_block - infos[num].last > MaxLag
  <1>1. /\ pc = "judge" /\ num <= Len(infos) /\ num' = num + 1
        /\ paused' = [n \in Nodes |->
              IF n \in Range(clients) /\ Endpoint[n] = infos[num].endpoint
              THEN lagging ELSE paused[n]]
        /\ UNCHANGED <<clients, known, height, last, beat, lo, pc, infos, wg,
                       refresh, max_block, replacing, replaced, gone, calm>>
    BY DEF Judge, listVars, adminVars
  <1>2. /\ Len(infos) \in Nat /\ num \in 1 .. Len(infos) + 1
        /\ DOMAIN infos = 1 .. Len(infos)
    BY DEF TypeOK
  <1>3. num \in DOMAIN infos
    BY <1>1, <1>2
  <1>4. lagging \in BOOLEAN
    OBVIOUS
  <1> HIDE DEF lagging
  <1>5. TypeOK'
    <2>1. paused' \in [Nodes -> BOOLEAN]
      BY <1>1, <1>4 DEF TypeOK
    <2> QED
      BY <1>1, <1>2, <2>1 DEF TypeOK, NodeListTypeOK
  <1>6. HeightInv' /\ InfoInv' /\ CalmInv' /\ ProgressInv' /\ ReplacedNeverMissing'
    BY <1>1 DEF HeightInv, Height, InfoInv, CalmInv, ProgressInv,
                ReplacedNeverMissing
  <1>7. WaitInv'
    BY <1>1, WaitFrame
  <1>8. \A n \in Range(clients) :
          /\ n \in Nodes
          /\ paused'[n] = IF Endpoint[n] = infos[num].endpoint
                          THEN lagging ELSE paused[n]
    BY <1>1 DEF ProgressInv, TypeOK, NodeListTypeOK
  <1>9. ASSUME NEW i \in 1 .. num PROVE Spared(i)'
    <2> SUFFICES ASSUME NEW n \in Range(clients),
                        infos[i].endpoint = Endpoint[n],
                        \A m \in Twins(n) : Near(lo[m])
                 PROVE  ~ paused'[n]
      BY <1>1 DEF Spared, Twins, Near
    <2>1. CASE Endpoint[n] = infos[num].endpoint
      BY <1>1, <1>3, <1>8, <2>1, VerdictFacts DEF lagging
    <2>2. CASE Endpoint[n] # infos[num].endpoint
      <3>1. i \in 1 .. num - 1
        BY <1>2, <2>2
      <3> QED
        BY <1>1, <1>8, <2>2, <3>1 DEF JudgeInv, Spared
    <2> QED
      BY <2>1, <2>2
  <1>10. ASSUME calm, NEW i \in 1 .. num PROVE Stopped(i)'
    <2> SUFFICES ASSUME NEW n \in Range(clients), NEW m \in Range(clients),
                        infos[i].endpoint = Endpoint[n],
                        lo[m] - Height(n) > MaxLag
                 PROVE  paused'[n]
      BY <1>1 DEF Stopped, Height
    <2>1. CASE Endpoint[n] = infos[num].endpoint
      BY <1>1, <1>3, <1>8, <1>10, <2>1, VerdictFacts DEF lagging
    <2>2. CASE Endpoint[n] # infos[num].endpoint
      <3>1. i \in 1 .. num - 1
        BY <1>2, <2>2
      <3> QED
        BY <1>1, <1>8, <1>10, <2>2, <3>1 DEF JudgeInv, Stopped
    <2> QED
      BY <2>1, <2>2
  <1>11. JudgeInv'
    <2>1. 1 .. num' - 1 = 1 .. num
      BY <1>1, <1>2
    <2>2. \A i \in 1 .. num' - 1 : Spared(i)' /\ (calm' => Stopped(i)')
      BY <1>1, <1>9, <1>10, <2>1
    <2> QED
      BY <1>1, <2>2 DEF JudgeInv
  <1> QED
    BY <1>5, <1>6, <1>7, <1>11

(* The checker goes to sleep.                                              *)
LEMMA EndRoundInv ==
  ASSUME IInv, EndRound
  PROVE  IInv'
  <1> USE DEF IInv
  <1>1. /\ pc = "judge" /\ pc' = "sleep" /\ infos' = <<>> /\ num' = 1
        /\ max_block' = 0 /\ lo' = last
        /\ UNCHANGED <<clients, known, height, last, paused, beat, wg, refresh,
                       replacing, replaced, gone, calm>>
    BY DEF EndRound, listVars, adminVars
  <1>2. refresh = <<>>
    BY <1>1 DEF ProgressInv
  <1>3. TypeOK'
    BY <1>1, <1>2, CheckerAssumption DEF TypeOK, NodeListTypeOK
  <1>4. HeightInv'
    <2>1. \A n \in Nodes : last[n] <= last[n]
      BY Numbers
    <2> QED
      BY <1>1, <2>1 DEF HeightInv, Height
  <1>5. WaitInv'
    BY <1>1, WaitFrame
  <1>6. /\ ProgressInv' /\ InfoInv' /\ CalmInv' /\ JudgeInv'
        /\ ReplacedNeverMissing'
    BY <1>1, <1>2
       DEF ProgressInv, InfoInv, CalmInv, JudgeInv, ReplacedNeverMissing
  <1> QED
    BY <1>3, <1>4, <1>5, <1>6

-----------------------------------------------------------------------------
(* The invariant holds                                                     *)

LEMMA InitInv == Init => IInv
  <1> SUFFICES ASSUME Init PROVE IInv
    OBVIOUS
  <1>1. /\ clients \in Configured /\ known = Range(clients)
        /\ pc = "sleep" /\ infos = <<>> /\ refresh = <<>> /\ num = 1 /\ wg = 0
        /\ max_block = 0 /\ replacing = {} /\ replaced = {} /\ gone = {}
        /\ calm = TRUE /\ lo = last
        /\ paused = [n \in Nodes |-> FALSE] /\ beat = [n \in Nodes |-> None]
        /\ height \in [Endpoints -> Heights] /\ last \in [Nodes -> Heights]
        /\ \A n \in Nodes : last[n] \in {0, Height(n)}
    BY DEF Init, NodeListInit, Height
  <1>2. clients \in Seq(Nodes) /\ IsInjective(clients) /\ known \subseteq Nodes
    BY <1>1, ConfiguredAssumption DEF Range
  <1>3. TypeOK
    BY <1>1, <1>2, CheckerAssumption DEF TypeOK, NodeListTypeOK
  <1>4. HeightInv
    <2>1. \A n \in Nodes : Height(n) \in Nat
      BY <1>3, Numbers
    <2> QED
      BY <1>1, <2>1 DEF HeightInv
  <1>5. WaitInv
    <2>1. Running = {} /\ Cardinality({}) = 0
      BY <1>1, FS_EmptySet DEF Running
    <2> QED
      BY <1>1, <2>1 DEF WaitInv
  <1>6. ProgressInv /\ InfoInv /\ CalmInv /\ JudgeInv /\ ReplacedNeverMissing
    BY <1>1 DEF ProgressInv, InfoInv, CalmInv, JudgeInv, ReplacedNeverMissing
  <1> QED
    BY <1>3, <1>4, <1>5, <1>6 DEF IInv

LEMMA NextInv == IInv /\ [Next]_vars => IInv'
  <1> SUFFICES ASSUME IInv, [Next]_vars PROVE IInv'
    OBVIOUS
  <1>1. CASE CheckerStep
    BY <1>1, BeginRoundInv, SnapshotInv, RefreshNextInv, RefreshAnsweredInv,
       RefreshStoredInv, RefreshDoneInv, WaitStepInv, JudgeStepInv, EndRoundInv
       DEF CheckerStep
  <1>2. CASE NodeStep
    BY <1>2, BlocksMadeInv, BeatAnsweredInv, BeatStoredInv DEF NodeStep
  <1>3. CASE AdminStep
    BY <1>3, AdminAddInv, AdminReplaceInv, AdminRemoveInv DEF AdminStep
  <1>4. CASE UNCHANGED vars
    <2>1. UNCHANGED <<clients, known, height, last, paused, beat, lo, pc, infos,
                      num, wg, refresh, max_block, replacing, replaced, gone,
                      calm>>
      BY <1>4 DEF vars, listVars, nodeVars, checkerVars, adminVars
    <2>2. TypeOK'
      BY <2>1 DEF IInv, TypeOK, NodeListTypeOK
    <2>3. HeightInv' /\ ProgressInv' /\ ReplacedNeverMissing'
      BY <2>1 DEF IInv, HeightInv, Height, ProgressInv, ReplacedNeverMissing
    <2>4. WaitInv'
      BY <2>1, WaitFrame DEF IInv
    <2>5. InfoInv' /\ CalmInv' /\ JudgeInv'
      <3>1. /\ \A n \in Nodes : lo'[n] <= lo[n]
            /\ \A e \in Endpoints : height[e] <= height'[e]
        BY <2>1, Numbers DEF IInv
      <3> QED
        BY <2>1, <2>2, <3>1, RoundFrame
    <2> QED
      BY <2>2, <2>3, <2>4, <2>5 DEF IInv
  <1> QED
    BY <1>1, <1>2, <1>3, <1>4 DEF Next

(* The invariant holds in every state the program reaches.                 *)
THEOREM Invariant == Spec => []IInv
  BY InitInv, NextInv, PTL DEF Spec

(* The checker keeps to its slices and its WaitGroup is never negative     *)
(* (custom_health_checker.go:110, 129, 131).                               *)
THEOREM TypeCorrect == Spec => []TypeOK
  <1>1. IInv => TypeOK
    BY DEF IInv
  <1> QED
    BY <1>1, Invariant, PTL

(* A node that was replaced is missed by nobody (handle_solana_admin.go:   *)
(* 92-96): the new one is in the list before the old one is out.           *)
THEOREM NeverMissing == Spec => []ReplacedNeverMissing
  <1>1. IInv => ReplacedNeverMissing
    BY DEF IInv
  <1> QED
    BY <1>1, Invariant, PTL

(* A node that keeps up is not paused when a round ends, whatever was      *)
(* removed, added or asked again meanwhile (custom_health_checker.go:      *)
(* 147-166).                                                               *)
THEOREM KeepersSpared == Spec => CaughtUpSpared
  <1> DEFINE Step == EndRound =>
               \A i \in DOMAIN infos, n \in Range(clients) :
                 /\ infos[i].endpoint = Endpoint[n]
                 /\ \A m \in Twins(n) : Near(lo[m])
                 => ~ paused'[n]
  <1>1. IInv /\ [Next]_vars => [Step]_vars
    <2> SUFFICES ASSUME IInv, EndRound, NEW i \in DOMAIN infos,
                        NEW n \in Range(clients),
                        infos[i].endpoint = Endpoint[n],
                        \A m \in Twins(n) : Near(lo[m])
                 PROVE  ~ paused'[n]
      OBVIOUS
    <2>1. /\ pc = "judge" /\ num > Len(infos) /\ num \in Nat
          /\ Len(infos) \in Nat /\ DOMAIN infos = 1 .. Len(infos)
          /\ paused' = paused
      BY DEF EndRound, IInv, TypeOK
    <2>2. i \in 1 .. num - 1
      BY <2>1
    <2> QED
      BY <2>1, <2>2 DEF IInv, JudgeInv, Spared
  <1> QED
    BY <1>1, Invariant, PTL DEF Spec, CaughtUpSpared

(* A node that lags all round is paused when it ends, if the list has not  *)
(* changed (custom_health_checker.go:137-166).                             *)
THEOREM LaggardsPaused == Spec => LaggardPaused
  <1> DEFINE Step == EndRound /\ calm =>
               \A n, m \in Range(clients) :
                 lo[m] - Height(n) > MaxLag => paused'[n]
  <1>1. IInv /\ [Next]_vars => [Step]_vars
    <2> SUFFICES ASSUME IInv, EndRound, calm, NEW n \in Range(clients),
                        NEW m \in Range(clients), lo[m] - Height(n) > MaxLag
                 PROVE  paused'[n]
      OBVIOUS
    <2>1. /\ pc = "judge" /\ num > Len(infos) /\ num \in Nat
          /\ Len(infos) \in Nat /\ DOMAIN infos = 1 .. Len(infos)
          /\ DOMAIN clients = 1 .. Len(clients)
          /\ paused' = paused
      BY DEF EndRound, IInv, TypeOK, NodeListTypeOK
    <2>2. PICK k \in DOMAIN clients : n = clients[k]
      BY DEF Range
    <2>3. k \in DOMAIN infos /\ infos[k].endpoint = Endpoint[n]
      BY <2>1, <2>2 DEF IInv, CalmInv
    <2>4. k \in 1 .. num - 1
      BY <2>1, <2>3
    <2> QED
      BY <2>1, <2>3, <2>4 DEF IInv, JudgeInv, Stopped
  <1> QED
    BY <1>1, Invariant, PTL DEF Spec, LaggardPaused
=============================================================================
