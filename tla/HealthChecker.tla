---------------------------- MODULE HealthChecker ----------------------------
(***************************************************************************)
(* The custom health checker (custom_health_checker.go) pauses nodes that  *)
(* lag behind and lets them go on when they have caught up. A round asks   *)
(* every node of the list what its last block is, has those whose answer   *)
(* is old ask again, each in a goroutine of its own, compares, and pauses. *)
(* Meanwhile blocks are made, heartbeats store what they learn, and the    *)
(* administrator adds, removes and replaces nodes.                         *)
(*                                                                         *)
(* One action is one critical section: of the list's lock, or of a node's. *)
(* How old an answer is depends on nothing but time, which may pass        *)
(* anywhere: whether a node is asked again is left open.                   *)
(***************************************************************************)
EXTENDS NodeList, FiniteSets, Functions

CONSTANTS
  Endpoints,
  Endpoint,    \* [Nodes -> Endpoints]: two nodes may have the same URL
  Heights,     \* block heights
  MaxLag,      \* max_block_lag
  Probed,      \* nodes with heartbeats (probe_time > 0)
  MaxRemoved,  \* bound: nodes removed on request
  None         \* no node, no answer

ASSUME CheckerAssumption ==
  /\ Endpoint \in [Nodes -> Endpoints]
  /\ Heights \subseteq Nat /\ 0 \in Heights
  /\ MaxLag \in Nat
  /\ Probed \subseteq Nodes
  /\ MaxRemoved \in Nat
  /\ None \notin Nodes /\ None \notin Heights

VARIABLES
  height,     \* [Endpoints -> the last block there]
  last,       \* available_block_last of each node; 0: never learnt
  paused,     \* is_paused of each node
  beat,       \* what the heartbeat of a node is about to store, or None
  pc,         \* the checker: "sleep", "snapshot", "refresh", "judge"
  infos,      \* its infos: [endpoint, last]
  num,        \* its loop variable
  wg,         \* its WaitGroup
  refresh,    \* goroutines, by num: [node, at, answer]
  max_block,
  replacing,  \* <<new, old>>: new is registered, old still to be removed
  calm,       \* ghost: the list has not changed in this round
  lo,         \* ghost: the least last of each node in this round
  replaced,   \* ghost: all <<new, old>> so far
  gone        \* ghost: nodes removed on request

nodeVars == <<height, last, paused, beat, lo>>
checkerVars == <<pc, infos, num, wg, refresh, max_block>>
adminVars == <<replacing, replaced, gone, calm>>
vars == <<listVars, nodeVars, checkerVars, adminVars>>

Idle == [node |-> None, at |-> "none", answer |-> 0]

(* The checker keeps to its slices and its WaitGroup is never negative     *)
(* (custom_health_checker.go:110, 129, 131: Go panics at either).          *)
TypeOK ==
  /\ NodeListTypeOK
  /\ height \in [Endpoints -> Heights]
  /\ last \in [Nodes -> Heights]
  /\ paused \in [Nodes -> BOOLEAN]
  /\ beat \in [Nodes -> Heights \cup {None}]
  /\ pc \in {"sleep", "snapshot", "refresh", "judge"}
  /\ infos \in Seq([endpoint : Endpoints, last : Heights])
  /\ num \in 1 .. Len(infos) + 1
  /\ wg \in Nat
  /\ refresh \in Seq([node : Nodes \cup {None},
                      at : {"none", "ask", "store", "info"},
                      answer : Heights])
  /\ Len(refresh) <= Len(infos)
  /\ max_block \in Heights
  /\ replacing \subseteq replaced
  /\ replaced \subseteq Nodes \X Nodes
  /\ gone \subseteq known
  /\ calm \in BOOLEAN
  /\ lo \in [Nodes -> Heights]

Init ==
  /\ NodeListInit
  /\ height \in [Endpoints -> Heights]
  /\ last \in {l \in [Nodes -> Heights] :
                \A n \in Nodes : l[n] \in {0, height[Endpoint[n]]}}
  /\ paused = [n \in Nodes |-> FALSE]
  /\ beat = [n \in Nodes |-> None]
  /\ pc = "sleep"
  /\ infos = <<>> /\ refresh = <<>> /\ num = 1 /\ wg = 0 /\ max_block = 0
  /\ replacing = {} /\ replaced = {} /\ gone = {} /\ calm = TRUE
  /\ lo = last

Height(n) == height[Endpoint[n]]
Info(n) == [endpoint |-> Endpoint[n], last |-> last[n]]

(* GetLastAvailableBlock stores an answer, however late it is.             *)
Store(n, h) ==
  /\ last' = [last EXCEPT ![n] = h]
  /\ lo' = [lo EXCEPT ![n] = IF pc # "sleep" /\ @ < h THEN @ ELSE h]

-----------------------------------------------------------------------------
(* Nodes                                                                   *)

BlocksMade(e, h) ==
  /\ h > height[e]
  /\ height' = [height EXCEPT ![e] = h]
  /\ UNCHANGED <<listVars, last, paused, beat, lo, checkerVars, adminVars>>

(* A heartbeat asks, and stores what it was told.                          *)
BeatAnswered(n) ==
  /\ n \in Probed \cap known
  /\ beat[n] = None
  /\ beat' = [beat EXCEPT ![n] = Height(n)]
  /\ UNCHANGED <<listVars, height, last, paused, lo, checkerVars, adminVars>>

BeatStored(n) ==
  /\ beat[n] # None
  /\ Store(n, beat[n])
  /\ beat' = [beat EXCEPT ![n] = None]
  /\ UNCHANGED <<listVars, height, paused, checkerVars, adminVars>>

-----------------------------------------------------------------------------
(* The administrator                                                       *)

(* The checker holds the list's lock for reading.                          *)
Unlocked == pc \notin {"snapshot", "judge"}

(* A bug the properties must notice: what could not be made into a node is *)
(* not noticed, and the old one is removed all the same.                   *)
AdminAddUnchecked(new, old) ==
  /\ Unlocked
  /\ new \notin known
  /\ known' = known \cup {new}
  /\ clients' = clients
  /\ replacing' = replacing \cup {<<new, n>> : n \in {old} \ {None}}
  /\ replaced' = replaced \cup replacing'
  /\ calm' = FALSE
  /\ UNCHANGED <<height, paused, beat, last, lo, checkerVars, gone>>

(* solana_admin_add: the node is made, which asks it for its last block    *)
(* (0: it failed), and appended. The old one, if any, is removed later.    *)
AdminAdd(new, old) ==
  /\ Unlocked
  /\ ClientRegister(new)
  /\ \E h \in {g \in Heights : g <= Height(new)} :
       /\ last' = [last EXCEPT ![new] = h]
       /\ lo' = [lo EXCEPT ![new] = h]
  /\ replacing' = replacing \cup {<<new, n>> : n \in {old} \ {None}}
  /\ replaced' = replaced \cup replacing'
  /\ calm' = FALSE
  /\ UNCHANGED <<height, paused, beat, checkerVars, gone>>

(* Its second half. Another administrator may have removed it before.      *)
AdminReplace(new, old) ==
  /\ Unlocked
  /\ <<new, old>> \in replacing
  /\ replacing' = replacing \ {<<new, old>>}
  /\ \/ \E i \in DOMAIN clients : clients[i] = old /\ ClientRemove(i)
     \/ old \notin Range(clients) /\ UNCHANGED listVars
  /\ calm' = FALSE
  /\ UNCHANGED <<nodeVars, checkerVars, replaced, gone>>

(* solana_admin_remove                                                     *)
AdminRemove(i) ==
  /\ Unlocked
  /\ Cardinality(gone) < MaxRemoved
  /\ ClientRemove(i)
  /\ gone' = gone \cup {clients[i]}
  /\ calm' = FALSE
  /\ UNCHANGED <<nodeVars, checkerVars, replacing, replaced>>

-----------------------------------------------------------------------------
(* A round of the checker                                                  *)

BeginRound ==
  /\ pc = "sleep"
  /\ pc' = "snapshot"
  /\ calm' = TRUE
  /\ UNCHANGED <<listVars, nodeVars, infos, num, wg, refresh, max_block,
                 replacing, replaced, gone>>

(* client.GetInfo of one node of the list.                                 *)
Snapshot ==
  /\ pc = "snapshot"
  /\ IF Len(infos) < Len(clients)
     THEN infos' = Append(infos, Info(clients[Len(infos) + 1])) /\ pc' = pc
     ELSE pc' = "refresh" /\ UNCHANGED infos
  /\ UNCHANGED <<listVars, nodeVars, num, wg, refresh, max_block, adminVars>>

(* A bug the properties must notice: wg.Add(1) before the index is checked.*)
RefreshNextAddsFirst ==
  /\ pc = "refresh"
  /\ num <= Len(infos)
  /\ num' = num + 1
  /\ \/ refresh' = Append(refresh, Idle) /\ UNCHANGED wg
     \/ /\ wg' = wg + 1
        /\ refresh' = Append(refresh, IF num > Len(clients) THEN Idle
             ELSE [node |-> clients[num], at |-> "ask", answer |-> 0])
  /\ UNCHANGED <<listVars, nodeVars, pc, infos, max_block, adminVars>>

(* One turn of the loop: what is recent enough is kept; otherwise the node *)
(* that is now at this place of the list, if there is one, is asked again. *)
RefreshNext ==
  /\ pc = "refresh"
  /\ num <= Len(infos)
  /\ num' = num + 1
  /\ \E old \in BOOLEAN :
       LET again == old /\ num <= Len(clients)
       IN  /\ refresh' = Append(refresh,
                IF again
                THEN [node |-> clients[num], at |-> "ask", answer |-> 0]
                ELSE Idle)
           /\ wg' = IF again THEN wg + 1 ELSE wg
  /\ UNCHANGED <<listVars, nodeVars, pc, infos, max_block, adminVars>>

(* GetLastAvailableBlock of a goroutine: the node answers, or fails.       *)
RefreshAnswered(i) ==
  /\ refresh[i].at = "ask"
  /\ \/ refresh' = [refresh EXCEPT ![i] = [node |-> @.node, at |-> "store",
                                           answer |-> Height(@.node)]]
     \/ refresh' = [refresh EXCEPT ![i] = [@ EXCEPT !.at = "info"]]
  /\ UNCHANGED <<listVars, nodeVars, pc, infos, num, wg, max_block, adminVars>>

RefreshStored(i) ==
  /\ refresh[i].at = "store"
  /\ Store(refresh[i].node, refresh[i].answer)
  /\ refresh' = [refresh EXCEPT ![i] = [node |-> @.node, at |-> "info",
                                        answer |-> 0]]
  /\ UNCHANGED <<listVars, height, paused, beat, pc, infos, num, wg, max_block,
                 adminVars>>

(* A bug the properties must notice: num is not copied (num := num), and   *)
(* all goroutines write where the loop is.                                 *)
RefreshDoneSharesNum(i) ==
  /\ refresh[i].at = "info"
  /\ infos' = [infos EXCEPT ![num - 1] = Info(refresh[i].node)]
  /\ refresh' = [refresh EXCEPT ![i] = Idle]
  /\ wg' = wg - 1
  /\ UNCHANGED <<listVars, nodeVars, pc, num, max_block, adminVars>>

RefreshDone(i) ==
  /\ refresh[i].at = "info"
  /\ infos' = [infos EXCEPT ![i] = Info(refresh[i].node)]
  /\ refresh' = [refresh EXCEPT ![i] = Idle]
  /\ wg' = wg - 1
  /\ UNCHANGED <<listVars, nodeVars, pc, num, max_block, adminVars>>

(* wg.Wait, the highest block, and the list's lock.                        *)
Wait ==
  /\ pc = "refresh"
  /\ num > Len(infos)
  /\ wg = 0
  /\ pc' = "judge"
  /\ num' = 1
  /\ \E h \in {0} \cup {infos[i].last : i \in DOMAIN infos} :
       /\ \A i \in DOMAIN infos : infos[i].last <= h
       /\ max_block' = h
  /\ refresh' = <<>>
  /\ UNCHANGED <<listVars, nodeVars, infos, wg, adminVars>>

(* A bug the properties must notice: the node at the same place is paused, *)
(* not the one of the same endpoint.                                       *)
JudgeByPlace ==
  /\ pc = "judge"
  /\ num <= Len(infos)
  /\ num' = num + 1
  /\ LET lagging == max_block - infos[num].last > MaxLag
     IN  paused' = [n \in Nodes |->
           IF num <= Len(clients) /\ n = clients[num] THEN lagging
           ELSE paused[n]]
  /\ UNCHANGED <<listVars, height, last, beat, lo, pc, infos, wg, refresh,
                 max_block, adminVars>>

(* A bug the properties must notice: who has caught up is not let go.      *)
JudgeOnlyPauses ==
  /\ pc = "judge"
  /\ num <= Len(infos)
  /\ num' = num + 1
  /\ LET lagging == max_block - infos[num].last > MaxLag
     IN  paused' = [n \in Nodes |->
           \/ paused[n]
           \/ /\ n \in Range(clients) /\ Endpoint[n] = infos[num].endpoint
              /\ lagging]
  /\ UNCHANGED <<listVars, height, last, beat, lo, pc, infos, wg, refresh,
                 max_block, adminVars>>

(* SetPaused of every node of the endpoint. They are told one after the    *)
(* other, but nobody compares what two of them were told.                  *)
Judge ==
  /\ pc = "judge"
  /\ num <= Len(infos)
  /\ num' = num + 1
  /\ LET lagging == max_block - infos[num].last > MaxLag
     IN  paused' = [n \in Nodes |->
           IF n \in Range(clients) /\ Endpoint[n] = infos[num].endpoint
           THEN lagging ELSE paused[n]]
  /\ UNCHANGED <<listVars, height, last, beat, lo, pc, infos, wg, refresh,
                 max_block, adminVars>>

EndRound ==
  /\ pc = "judge"
  /\ num > Len(infos)
  /\ pc' = "sleep"
  /\ infos' = <<>> /\ num' = 1 /\ max_block' = 0
  /\ lo' = last
  /\ UNCHANGED <<listVars, height, last, paused, beat, wg, refresh, adminVars>>

-----------------------------------------------------------------------------
CheckerStep ==
  \/ BeginRound \/ Snapshot \/ RefreshNext \/ Wait \/ Judge \/ EndRound
  \/ \E i \in DOMAIN refresh :
       RefreshAnswered(i) \/ RefreshStored(i) \/ RefreshDone(i)

NodeStep ==
  \/ \E e \in Endpoints, h \in Heights : BlocksMade(e, h)
  \/ \E n \in Nodes : BeatAnswered(n) \/ BeatStored(n)

AdminStep ==
  \/ \E new \in Nodes, old \in Range(clients) \cup {None} : AdminAdd(new, old)
  \/ \E r \in replacing : AdminReplace(r[1], r[2])
  \/ \E i \in DOMAIN clients : AdminRemove(i)

Next == CheckerStep \/ NodeStep \/ AdminStep

Spec == Init /\ [][Next]_vars

(* The checker runs for ever, and its requests end because the HTTP client *)
(* has a timeout (client.go).                                              *)
FairSpec == Spec /\ WF_vars(CheckerStep)

-----------------------------------------------------------------------------
(* Properties                                                              *)

(* No node is more than MaxLag ahead of block h.                           *)
Near(h) == \A e \in Endpoints : height[e] - h <= MaxLag

Twins(n) == {m \in known : Endpoint[m] = Endpoint[n]}

(* A node whose block was never far behind in the whole round, nor was that*)
(* of another node at its endpoint, is not paused when the round ends      *)
(* (custom_health_checker.go:147-166), whatever was removed, added or      *)
(* asked again meanwhile.                                                  *)
CaughtUpSpared ==
  [][ EndRound =>
        \A i \in DOMAIN infos, n \in Range(clients) :
          /\ infos[i].endpoint = Endpoint[n]
          /\ \A m \in Twins(n) : Near(lo[m])
          => ~ paused'[n] ]_vars

(* A node that is far behind what another one knew in the whole round is   *)
(* paused when the round ends (custom_health_checker.go:137-166), if the   *)
(* list has not changed.                                                   *)
LaggardPaused ==
  [][ EndRound /\ calm =>
        \A n, m \in Range(clients) :
          lo[m] - Height(n) > MaxLag => paused'[n] ]_vars

(* A node that was replaced is missed by nobody: as long as nobody removes *)
(* the new one, it is in the list, whether or not the old one is already   *)
(* out of it (handle_solana_admin.go:92-96).                               *)
ReplacedNeverMissing ==
  \A r \in replaced :
    r[1] \in gone \/ \E s \in replaced : s[2] = r[1]
    \/ r[1] \in Range(clients)

(* A node that has caught up and stays in the list goes on, whatever the   *)
(* list and the checks were before (doc/HEALTH_CHECK.md:10).               *)
Resumes ==
  \A n \in Nodes :
    <>[](/\ n \in Range(clients)
         /\ \A m \in Twins(n) : Near(last[m]))
    => <>[](~ paused[n])

(* Every round ends: all goroutines are waited for and no others           *)
(* (custom_health_checker.go:108-134).                                     *)
RoundEnds == pc = "refresh" ~> pc = "sleep"
=============================================================================
