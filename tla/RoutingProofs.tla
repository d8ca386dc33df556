---------------------------- MODULE RoutingProofs ----------------------------
(***************************************************************************)
(* A request never reaches a node twice, nor a node of the side it did not *)
(* ask for, for any number of nodes, any list and any changes of them. A   *)
(* request that is given up has been through every node it could have used *)
(* or that was unfit at some time, and no retry reaches a node that was    *)
(* unfit ever since the last answer.                                       *)
(***************************************************************************)
EXTENDS Routing, DataProofs

-----------------------------------------------------------------------------
(* Sequences                                                               *)

(* What taking the head off such a sequence leaves.                        *)
LEMMA TailRange ==
  ASSUME NEW S, NEW s \in Seq(S), s # <<>>, IsInjective(s)
  PROVE  /\ Head(s) \in S /\ Head(s) \in Range(s)
         /\ Tail(s) \in Seq(S) /\ IsInjective(Tail(s))
         /\ Range(Tail(s)) \subseteq Range(s)
         /\ Head(s) \notin Range(Tail(s))
  <1>1. /\ Head(s) \in S /\ Head(s) = s[1]
        /\ Tail(s) \in Seq(S) /\ Len(Tail(s)) = Len(s) - 1
        /\ \A i \in 1 .. Len(Tail(s)) : Tail(s)[i] = s[i + 1]
    BY HeadTailProperties
  <1>2. /\ DOMAIN Tail(s) = 1 .. Len(s) - 1 /\ DOMAIN s = 1 .. Len(s)
        /\ Len(s) \in Nat \ {0}
    BY <1>1
  <1> QED
    BY <1>1, <1>2 DEF Range, IsInjective

(* Sorting keeps the elements of a sequence without duplicates.            *)
LEMMA SortedRange ==
  ASSUME order \in Seq(Nodes), IsInjective(order), NEW s \in SortedOrders
  PROVE  /\ s \in Seq(Nodes)
         /\ IsInjective(s)
         /\ Range(s) \subseteq Range(order)
  <1>1. PICK p \in Injection(DOMAIN order, DOMAIN order) :
          s = [i \in DOMAIN order |-> order[p[i]]]
    BY DEF SortedOrders
  <1>2. /\ p \in [DOMAIN order -> DOMAIN order] /\ IsInjective(p)
        /\ DOMAIN order = 1 .. Len(order) /\ Len(order) \in Nat
    BY <1>1 DEF Injection
  <1>3. s \in [1 .. Len(order) -> Nodes]
    BY <1>1, <1>2
  <1>4. s \in Seq(Nodes)
    BY <1>2, <1>3
  <1>5. IsInjective(s)
    BY <1>1, <1>2 DEF IsInjective
  <1>6. Range(s) \subseteq Range(order)
    BY <1>1, <1>2 DEF Range
  <1> QED
    BY <1>4, <1>5, <1>6
-----------------------------------------------------------------------------
(* The inductive invariant                                                 *)

OnSide(n) ==
  /\ request.forced = {"public"} => n \in PublicNodes
  /\ request.forced = {"private"} => n \notin PublicNodes

(* The manager never lists a node twice.                                   *)
ManagerInv == IsInjective(clients) /\ Range(clients) \subseteq known

ControlInv ==
  /\ request.handler = "passthrough" =>
       pc \notin {"pick", "picked", "accept"} /\ request.forced = {}
  /\ request.handler # "passthrough" => pc \notin {"list", "forward"}
  /\ pc \in {"accept", "call"} => cl # Nil
  /\ pc # "failed" => errors <= 1
  /\ pc = "idle" => /\ pick = NoPick /\ order = <<>> /\ scores = <<>>
                    /\ tried = <<>>

(* A node stands at most once in the scheduler's list, and the best node   *)
(* of a pick is still there.                                               *)
ListInv ==
  \A i, j \in DOMAIN sch.clients :
    sch.clients[i] = sch.clients[j] /\ sch.clients[i] # Nil => i = j

PickInv ==
  pc = "pick" =>
    /\ pick.min_pos < pick.num /\ pick.num <= Len(sch.clients) + 1
    /\ pick.min_pos # 0 => /\ sch.clients[pick.min_pos] # Nil
                           /\ OnSide(sch.clients[pick.min_pos])

(* GetPublicClient never lifts a side the request asked for.               *)
ForceInv ==
  pc # "idle" /\ request.handler # "passthrough" =>
    /\ request.forced = {"public"} =>
         sch.force_public /\ ~ sch.force_private /\ (pc = "pick" => ~ pick.lift)
    /\ request.forced = {"private"} =>
         sch.force_private /\ ~ sch.force_public

(* Nodes that were tried are crossed out, and so is the node found.        *)
Found == pc \in {"picked", "accept", "call"} /\ cl # Nil

TriedInv ==
  /\ IsInjective(tried)
  /\ \A n \in Range(tried) : OnSide(n)
  /\ Found => cl \notin Range(tried) /\ OnSide(cl)
  /\ request.handler # "passthrough" =>
       \A i \in DOMAIN sch.clients :
         sch.clients[i] \notin Range(tried) /\ (Found => sch.clients[i] # cl)

(* GetAll lists a node once, and nodes tried have left the list.           *)
OrderInv ==
  request.handler = "passthrough" =>
    /\ IsInjective(order) /\ Range(order) \cap Range(tried) = {}
    /\ pc = "call" => cl \notin Range(order)
    /\ pc = "list" =>
         /\ tried = <<>> /\ sch.clients \in Seq(Nodes)
         /\ \A j \in DOMAIN sch.clients :
              j >= pick.num => sch.clients[j] \notin Range(order)

IInv ==
  /\ TypeOK /\ ManagerInv /\ ControlInv
  /\ ListInv /\ PickInv /\ ForceInv /\ TriedInv /\ OrderInv
(* The state before any request satisfies the invariant.                   *)
LEMMA InitInv == Init => IInv
  <1> SUFFICES ASSUME Init PROVE IInv
    OBVIOUS
  <1> USE DEF Init, ManagerInit, NodeListInit, RequestInit, SchedulerInit
  <1>1. /\ clients \in Seq(Nodes) /\ IsInjective(clients)
        /\ known \subseteq Nodes /\ Range(clients) \subseteq known
    <2>1. clients \in Seq(Nodes) /\ IsInjective(clients)
      BY ConfiguredAssumption
    <2> QED
      BY <2>1, RangeOfSeq
  <1>2. TypeOK
    BY <1>1, NodesAssumption, NilAssumption
    DEF TypeOK, ManagerTypeOK, NodeListTypeOK, SchedulerTypeOK, SchedulerRecord, PickRecord, NoScheduler, NoPick, NoRequest
  <1>3. ManagerInv /\ ControlInv /\ PickInv /\ ForceInv
    BY <1>1 DEF ManagerInv, ControlInv, PickInv, ForceInv, NoRequest
  <1>4. ListInv
    BY DEF ListInv, NoScheduler
  <1>5. IsInjective(tried) /\ Range(tried) = {}
    BY DEF IsInjective, Range
  <1>6. TriedInv /\ OrderInv
    BY <1>5 DEF TriedInv, OrderInv, Found, NoScheduler, NoRequest
  <1> QED
    BY <1>2, <1>3, <1>4, <1>6 DEF IInv

-----------------------------------------------------------------------------
(* Picking                                                                 *)

(* Crossing out a node keeps the rest of the scheduler's list.             *)
LEMMA CrossOut ==
  ASSUME sch.clients \in Seq(Nodes \cup {Nil}), ListInv,
         NEW k \in 1 .. Len(sch.clients),
         sch'.clients = [sch.clients EXCEPT ![k] = Nil]
  PROVE  /\ sch'.clients \in Seq(Nodes \cup {Nil})
         /\ Len(sch'.clients) = Len(sch.clients)
         /\ DOMAIN sch'.clients = DOMAIN sch.clients
         /\ sch'.clients[k] = Nil
         /\ \A i \in DOMAIN sch.clients : i # k => sch'.clients[i] = sch.clients[i]
         /\ ListInv'
  <1>1. /\ sch'.clients \in Seq(Nodes \cup {Nil})
        /\ Len(sch'.clients) = Len(sch.clients)
        /\ \A i \in 1 .. Len(sch.clients) :
             sch'.clients[i] = IF i = k THEN Nil ELSE sch.clients[i]
    BY ExceptSeq
  <1>2. DOMAIN sch'.clients = DOMAIN sch.clients
        /\ DOMAIN sch.clients = 1 .. Len(sch.clients)
    BY <1>1
  <1>3. ListInv'
    BY <1>1, <1>2 DEF ListInv
  <1> QED
    BY <1>1, <1>2, <1>3

(* What the steps of a pick change keeps its type.                         *)
LEMMA PickTyped ==
  ASSUME TypeOK, UNCHANGED <<managerVars, handlerVars, ghostVars>>,
         UNCHANGED <<order, scores>>, pc' \in {"pick", "picked"},
         sch' \in SchedulerRecord, pick' \in PickRecord,
         cl' \in Nodes \cup {Nil}
  PROVE  TypeOK'
  <1>1. UNCHANGED <<clients, known, info, changes, request, phase, result,
                    errors, tried>>
    BY DEF managerVars, listVars, handlerVars, ghostVars
  <1>2. ManagerTypeOK' /\ SchedulerTypeOK'
    BY <1>1 DEF TypeOK, ManagerTypeOK, NodeListTypeOK, SchedulerTypeOK
  <1> QED
    BY <1>1, <1>2 DEF TypeOK

(* Going on to the next node keeps the type of a pick.                     *)
LEMMA PickNext ==
  ASSUME NEW p \in PickRecord
  PROVE  [p EXCEPT !.num = @ + 1] \in PickRecord
  BY DEF PickRecord

(* Remembering the current node too.                                       *)
LEMMA PickBetter ==
  ASSUME NEW p \in PickRecord, NEW m \in Int
  PROVE  [p EXCEPT !.num = @ + 1, !.min = m, !.min_pos = p.num] \in PickRecord
  <1> DEFINE next == p.num + 1
             this == p.num
  <1>1. next \in Nat \ {0} /\ this \in Nat
    BY DEF PickRecord
  <1>2. ASSUME NEW a \in Nat \ {0}, NEW b \in Nat
        PROVE  [p EXCEPT !.num = a, !.min = m, !.min_pos = b] \in PickRecord
    BY Zenon DEF PickRecord
  <1> QED
    BY <1>1, <1>2

LEMMA DropNodeInv ==
  ASSUME IInv, DropNode, UNCHANGED <<managerVars, handlerVars, ghostVars>>
  PROVE  IInv'
  <1> USE DEF IInv
  <1>0. /\ sch.clients \in Seq(Nodes \cup {Nil})
        /\ pc = "pick" /\ pc' = "pick"
        /\ pick.num \in 1 .. Len(sch.clients)
        /\ sch' = [sch EXCEPT !.clients = [sch.clients EXCEPT ![pick.num] = Nil]]
        /\ pick' = [pick EXCEPT !.num = @ + 1]
        /\ UNCHANGED <<cl, order, scores>>
    BY DEF DropNode, Looking, TypeOK, SchedulerTypeOK, SchedulerRecord, PickRecord
  <1>1. sch'.clients = [sch.clients EXCEPT ![pick.num] = Nil]
    BY <1>0 DEF TypeOK, SchedulerTypeOK, SchedulerRecord, PickRecord
  <1>2. /\ sch'.clients \in Seq(Nodes \cup {Nil})
        /\ Len(sch'.clients) = Len(sch.clients)
        /\ DOMAIN sch'.clients = DOMAIN sch.clients
        /\ sch'.clients[pick.num] = Nil
        /\ \A i \in DOMAIN sch.clients :
             i # pick.num => sch'.clients[i] = sch.clients[i]
        /\ ListInv'
    BY <1>0, <1>1, CrossOut
  <1>3. UNCHANGED <<clients, known, info, changes, request, phase, result,
                    errors, tried, snapshot, unfit, away>>
    BY DEF managerVars, listVars, handlerVars, ghostVars
  <1>4. TypeOK'
    <2>1. sch' \in SchedulerRecord
      BY <1>0, <1>1, <1>2
      DEF TypeOK, SchedulerTypeOK, SchedulerRecord
    <2>2. pick' \in PickRecord
      BY <1>0, PickNext DEF TypeOK, SchedulerTypeOK
    <2>3. cl' \in Nodes \cup {Nil}
      BY <1>0 DEF TypeOK, SchedulerTypeOK
    <2> QED
      BY <1>0, <2>1, <2>2, <2>3, PickTyped
  <1>5. ManagerInv' /\ ControlInv' /\ ForceInv'
    BY <1>0, <1>3
    DEF ManagerInv, ControlInv, ForceInv, TypeOK, SchedulerTypeOK, SchedulerRecord, PickRecord
  <1>6. PickInv'
    BY <1>0, <1>2, <1>3 DEF PickInv, OnSide, TypeOK, SchedulerTypeOK, SchedulerRecord, PickRecord
  <1>7. Range(tried) \subseteq Nodes
    BY RangeOfSeq DEF TypeOK
  <1>8. TriedInv' /\ OrderInv'
    BY <1>0, <1>2, <1>3, <1>7, NilAssumption
    DEF TriedInv, OrderInv, ControlInv, Found, OnSide
  <1> QED
    BY <1>2, <1>4, <1>5, <1>6, <1>8

LEMMA KeepNodeInv ==
  ASSUME IInv, KeepNode, UNCHANGED <<managerVars, handlerVars, ghostVars>>
  PROVE  IInv'
  <1> USE DEF IInv
  <1>0. /\ sch.clients \in Seq(Nodes \cup {Nil})
        /\ pc = "pick" /\ UNCHANGED <<pc, sch, cl, order, scores>>
        /\ pick.num \in 1 .. Len(sch.clients)
        /\ sch.clients[pick.num] # Nil
        /\ ~ WrongSide(sch.clients[pick.num])
        /\ pick' = [pick EXCEPT !.num = @ + 1,
                                !.min = info[sch.clients[pick.num]].score,
                                !.min_pos = pick.num]
    BY DEF KeepNode, Looking, Candidate, Suitable, TypeOK, SchedulerTypeOK, SchedulerRecord, PickRecord
  <1>1. sch.clients[pick.num] \in Nodes
    BY <1>0
  <1>2. info[sch.clients[pick.num]].score \in Int
    BY <1>1, NodesAssumption DEF TypeOK, ManagerTypeOK, NodeListTypeOK
  <1>3. UNCHANGED <<clients, known, info, changes, request, phase, result,
                    errors, tried, snapshot, unfit, away>>
    BY DEF managerVars, listVars, handlerVars, ghostVars
  <1>4. TypeOK'
    <2>1. pick' \in PickRecord
      BY <1>0, <1>2, PickBetter DEF TypeOK, SchedulerTypeOK
    <2>2. cl' \in Nodes \cup {Nil} /\ sch' \in SchedulerRecord
      BY <1>0 DEF TypeOK, SchedulerTypeOK
    <2> QED
      BY <1>0, <2>1, <2>2, PickTyped
  <1>5. ManagerInv' /\ ControlInv' /\ ListInv' /\ ForceInv'
    BY <1>0, <1>3
    DEF ManagerInv, ControlInv, ListInv, ForceInv, TypeOK, SchedulerTypeOK, SchedulerRecord, PickRecord
  <1>6. OnSide(sch.clients[pick.num])
    BY <1>0 DEF OnSide, WrongSide, ForceInv, ControlInv
  <1>7. PickInv'
    BY <1>0, <1>3, <1>6 DEF PickInv, OnSide, TypeOK, SchedulerTypeOK, SchedulerRecord, PickRecord
  <1>8. TriedInv' /\ OrderInv'
    BY <1>0, <1>3 DEF TriedInv, OrderInv, ControlInv, Found, OnSide
  <1> QED
    BY <1>4, <1>5, <1>7, <1>8

LEMMA SkipNodeInv ==
  ASSUME IInv, SkipNode, UNCHANGED <<managerVars, handlerVars, ghostVars>>
  PROVE  IInv'
  <1> USE DEF IInv
  <1>0. /\ pc = "pick" /\ UNCHANGED <<pc, sch, cl, order, scores>>
        /\ pick.num \in 1 .. Len(sch.clients)
        /\ pick' = [pick EXCEPT !.num = @ + 1]
    BY DEF SkipNode, Looking, TypeOK, SchedulerTypeOK, SchedulerRecord, PickRecord
  <1>3. UNCHANGED <<clients, known, info, changes, request, phase, result,
                    errors, tried, snapshot, unfit, away>>
    BY DEF managerVars, listVars, handlerVars, ghostVars
  <1>4. TypeOK'
    <2>1. pick' \in PickRecord
      BY <1>0, PickNext DEF TypeOK, SchedulerTypeOK
    <2>2. cl' \in Nodes \cup {Nil} /\ sch' \in SchedulerRecord
      BY <1>0 DEF TypeOK, SchedulerTypeOK
    <2> QED
      BY <1>0, <2>1, <2>2, PickTyped
  <1>5. ManagerInv' /\ ControlInv' /\ ListInv' /\ ForceInv'
    BY <1>0, <1>3
    DEF ManagerInv, ControlInv, ListInv, ForceInv, TypeOK, SchedulerTypeOK, SchedulerRecord, PickRecord
  <1>7. PickInv'
    BY <1>0, <1>3 DEF PickInv, OnSide, TypeOK, SchedulerTypeOK, SchedulerRecord, PickRecord
  <1>8. TriedInv' /\ OrderInv'
    BY <1>0, <1>3 DEF TriedInv, OrderInv, ControlInv, Found, OnSide
  <1> QED
    BY <1>4, <1>5, <1>7, <1>8

LEMMA PickDoneInv ==
  ASSUME IInv, PickDone, UNCHANGED <<managerVars, handlerVars, ghostVars>>
  PROVE  IInv'
  <1> USE DEF IInv
  <1>0. /\ sch.clients \in Seq(Nodes \cup {Nil})
        /\ pc = "pick" /\ pc' = "picked"
        /\ pick' = NoPick /\ UNCHANGED <<order, scores>>
        /\ request.handler # "passthrough"
        /\ pick.min_pos \in 0 .. Len(sch.clients)
    BY DEF PickDone, PickInv, ControlInv, TypeOK, SchedulerTypeOK, SchedulerRecord, PickRecord
  <1>1. UNCHANGED <<clients, known, info, changes, request, phase, result,
                    errors, tried, snapshot, unfit, away>>
    BY DEF managerVars, listVars, handlerVars, ghostVars
  <1>2. Range(tried) \subseteq Nodes
    BY RangeOfSeq DEF TypeOK
  <1>5. pick' \in PickRecord
    BY <1>0 DEF NoPick, PickRecord
  <1>3. CASE pick.min_pos = 0
    <2>1. cl' = Nil /\ sch' = [sch EXCEPT !.force_public = @ /\ ~ pick.lift]
      BY <1>3 DEF PickDone
    <2>2. TypeOK'
      <3>1. sch' \in SchedulerRecord
        BY <2>1 DEF TypeOK, SchedulerTypeOK, SchedulerRecord, PickRecord
      <3> QED
        BY <1>0, <1>5, <2>1, <3>1, PickTyped
    <2>3. ManagerInv' /\ ControlInv' /\ ListInv' /\ ForceInv' /\ PickInv'
      BY <1>0, <1>1, <2>1
      DEF ManagerInv, ControlInv, ListInv, ForceInv, PickInv, TypeOK,
          SchedulerTypeOK, SchedulerRecord, PickRecord
    <2>4. TriedInv' /\ OrderInv'
      BY <1>0, <1>1, <2>1
      DEF TriedInv, OrderInv, Found, OnSide, TypeOK, SchedulerTypeOK, SchedulerRecord, PickRecord
    <2> QED
      BY <2>2, <2>3, <2>4
  <1>4. CASE pick.min_pos # 0
    <2> DEFINE k == pick.min_pos
    <2>0. k \in 1 .. Len(sch.clients) /\ k \in DOMAIN sch.clients
          /\ sch.clients[k] \in Nodes /\ OnSide(sch.clients[k])
      BY <1>0, <1>4 DEF PickInv
    <2>1. /\ cl' = sch.clients[k]
          /\ sch' = [sch EXCEPT !.force_public = @ /\ ~ pick.lift,
                                !.clients = [sch.clients EXCEPT ![k] = Nil]]
      BY <1>4 DEF PickDone
    <2>2. sch'.clients = [sch.clients EXCEPT ![k] = Nil]
      BY <2>1 DEF TypeOK, SchedulerTypeOK, SchedulerRecord, PickRecord
    <2>3. /\ sch'.clients \in Seq(Nodes \cup {Nil})
          /\ DOMAIN sch'.clients = DOMAIN sch.clients
          /\ sch'.clients[k] = Nil
          /\ \A i \in DOMAIN sch.clients :
               i # k => sch'.clients[i] = sch.clients[i]
          /\ ListInv'
      BY <1>0, <2>0, <2>2, CrossOut
    <2>4. TypeOK'
      <3>1. sch' \in SchedulerRecord
        BY <2>1, <2>2, <2>3
        DEF TypeOK, SchedulerTypeOK, SchedulerRecord, PickRecord
      <3> QED
        BY <1>0, <1>5, <2>0, <2>1, <3>1, PickTyped
    <2>5. ManagerInv' /\ ControlInv' /\ ForceInv' /\ PickInv'
      BY <1>0, <1>1, <2>1
      DEF ManagerInv, ControlInv, ForceInv, PickInv, TypeOK, SchedulerTypeOK, SchedulerRecord, PickRecord
    <2>6. cl' \notin Range(tried) /\ OnSide(cl')
      BY <1>0, <2>0, <2>1 DEF TriedInv
    <2>7. \A i \in DOMAIN sch'.clients :
            sch'.clients[i] \notin Range(tried) /\ sch'.clients[i] # cl'
      BY <1>0, <1>2, <2>0, <2>1, <2>3, NilAssumption DEF TriedInv, ListInv
    <2>8. TriedInv' /\ OrderInv'
      BY <1>0, <1>1, <2>6, <2>7 DEF TriedInv, OrderInv, Found, OnSide
    <2> QED
      BY <2>3, <2>4, <2>5, <2>8
  <1> QED
    BY <1>3, <1>4
-----------------------------------------------------------------------------
(* Handlers                                                                *)

(* What the handlers do between a pick and a call, or between a call and   *)
(* the next search, preserves the invariant: no list changes, and only a   *)
(* node that was found is called.                                          *)
LEMMA HandlerStepInv ==
  ASSUME IInv, UNCHANGED <<managerVars, request, tried, cl, order, scores>>,
         sch' \in SchedulerRecord, sch'.clients = sch.clients,
         pick' \in PickRecord,
         phase' \in {"first", "public", "any"},
         result' \in {"R_OK", "R_ERROR", "R_THROTTLED"}, errors' \in 0 .. 2,
         pc # "idle",
         pc' \in {"pick", "accept", "call", "answered", "forward", "done",
                 "failed", "refused"},
         pc' \in {"accept", "call"} => pc \in {"picked", "accept"} /\ cl # Nil,
         pc' = "pick" => /\ request.handler # "passthrough"
                         /\ pick'.num = 1 /\ pick'.min_pos = 0,
         pc' = "forward" => request.handler = "passthrough",
         pc' # "failed" => errors' <= 1,
         ForceInv'
  PROVE  IInv'
  <1> USE DEF IInv
  <1>1. UNCHANGED <<clients, known, info, changes>>
    BY DEF managerVars, listVars
  <1>2. ManagerTypeOK' /\ SchedulerTypeOK'
    BY <1>1 DEF TypeOK, ManagerTypeOK, NodeListTypeOK, SchedulerTypeOK
  <1>3. TypeOK'
    BY <1>2 DEF TypeOK
  <1>4. ManagerInv' /\ ControlInv' /\ ListInv'
    BY <1>1 DEF ManagerInv, ControlInv, ListInv
  <1>5. PickInv'
    BY <1>3 DEF PickInv, TypeOK, SchedulerTypeOK, SchedulerRecord
  <1>6. TriedInv' /\ OrderInv'
    BY DEF TriedInv, OrderInv, ControlInv, Found, OnSide
  <1> QED
    BY <1>3, <1>4, <1>5, <1>6

(* A search begins: GetAnyClient and GetPublicClient.                      *)
LEMMA SearchBegins ==
  ASSUME IInv, pc # "idle", request.handler # "passthrough",
         GetAnyClient \/ GetPublicClient, UNCHANGED request
  PROVE  /\ UNCHANGED <<cl, order, scores>> /\ pc' = "pick"
         /\ sch' \in SchedulerRecord /\ sch'.clients = sch.clients
         /\ pick' \in PickRecord /\ pick'.num = 1 /\ pick'.min_pos = 0
         /\ ForceInv'
  <1> USE DEF IInv
  <1>1. CASE GetAnyClient
    BY <1>1
    DEF GetAnyClient, NoPick, PickRecord, ForceInv, TypeOK, SchedulerTypeOK
  <1>2. CASE GetPublicClient
    <2> DEFINE lift == ~ sch.force_public /\ ~ sch.force_private
    <2>1. /\ sch' = [sch EXCEPT !.force_public = @ \/ lift]
          /\ pick' = [NoPick EXCEPT !.lift = lift]
          /\ pc' = "pick" /\ UNCHANGED <<cl, order, scores>>
      BY <1>2 DEF GetPublicClient
    <2>2. sch \in SchedulerRecord
      BY DEF TypeOK, SchedulerTypeOK
    <2>3. sch' \in SchedulerRecord /\ sch'.clients = sch.clients
      BY <2>1, <2>2 DEF SchedulerRecord
    <2>4. pick' \in PickRecord /\ pick'.num = 1 /\ pick'.min_pos = 0
      <3>1. lift \in BOOLEAN
        BY Zenon
      <3> HIDE DEF lift
      <3>2. pick' = [num |-> 1, min |-> -1, min_pos |-> 0, lift |-> lift]
        BY <2>1 DEF NoPick
      <3>3. 1 \in Nat \ {0} /\ -1 \in Int /\ 0 \in Nat
        OBVIOUS
      <3>4. pick' \in PickRecord
        BY <3>1, <3>2, <3>3, Zenon DEF PickRecord
      <3> QED
        BY <3>2, <3>4
    <2>5. ForceInv'
      BY <2>1, <2>2 DEF ForceInv, SchedulerRecord, NoPick
    <2> QED
      BY <2>1, <2>3, <2>4, <2>5
  <1> QED
    BY <1>1, <1>2
(* Each step of a handler is such a step.                                  *)
LEMMA FirstPickedInv == IInv /\ (FirstPicked \/ Refuse) => IInv'
  <1> SUFFICES ASSUME IInv, FirstPicked \/ Refuse PROVE IInv'
    OBVIOUS
  <1>1. /\ UNCHANGED <<managerVars, request, phase, result, errors, tried,
                       sch, pick, cl, order, scores>>
        /\ pc' \in {"accept", "failed", "refused"}
        /\ pc \in {"picked", "accept"}
        /\ pc' = "accept" => pc = "picked" /\ cl # Nil
    BY DEF FirstPicked, Refuse, End, schedulerVars, handlerVars, ghostVars
  <1>2. ForceInv'
    BY <1>1 DEF IInv, ForceInv
  <1>3. /\ sch \in SchedulerRecord /\ pick \in PickRecord
        /\ phase \in {"first", "public", "any"}
        /\ result \in {"R_OK", "R_ERROR", "R_THROTTLED"} /\ errors \in 0 .. 2
        /\ errors <= 1
    BY <1>1 DEF IInv, TypeOK, SchedulerTypeOK, ControlInv
  <1> QED
    BY <1>1, <1>2, <1>3, HandlerStepInv

LEMMA AcceptInv == IInv /\ Accept => IInv'
  <1> SUFFICES ASSUME IInv, Accept PROVE IInv'
    OBVIOUS
  <1>1. /\ UNCHANGED <<managerVars, request, phase, result, errors, tried,
                       pick, cl, order, scores>>
        /\ pc = "accept" /\ pc' = "call"
        /\ \/ sch' = [sch EXCEPT !.min_block_no = request.block]
           \/ sch' = sch
    BY DEF Accept, handlerVars, ghostVars
  <1>2. /\ sch \in SchedulerRecord /\ pick \in PickRecord
        /\ phase \in {"first", "public", "any"}
        /\ result \in {"R_OK", "R_ERROR", "R_THROTTLED"} /\ errors \in 0 .. 2
        /\ errors <= 1 /\ cl # Nil /\ request.block \in Int
    BY <1>1, RequestsAssumption
    DEF IInv, TypeOK, SchedulerTypeOK, ControlInv, NoRequest
  <1>3. sch' \in SchedulerRecord /\ sch'.clients = sch.clients
        /\ sch'.force_public = sch.force_public
        /\ sch'.force_private = sch.force_private
    BY <1>1, <1>2 DEF SchedulerRecord
  <1>4. ForceInv'
    BY <1>1, <1>3 DEF IInv, ForceInv
  <1> QED
    BY <1>1, <1>2, <1>3, <1>4, HandlerStepInv

(* What solana_01 and raw do with an answer, or with the end of a search.  *)
LEMMA SearchStepInv ==
  ASSUME IInv, UNCHANGED <<managerVars, request, result, errors, ghostVars>>,
         request.handler # "passthrough", pc \in {"answered", "picked"},
         \/ \E outcome \in {"done", "failed"} : End(outcome) /\ UNCHANGED phase
         \/ cl # Nil /\ pc = "picked" /\ End("call") /\ UNCHANGED phase
         \/ FindNext(GetPublicClient, "public")
         \/ FindNext(GetAnyClient, "any")
  PROVE  IInv'
  <1>1. /\ sch \in SchedulerRecord /\ pick \in PickRecord
        /\ phase \in {"first", "public", "any"}
        /\ result' \in {"R_OK", "R_ERROR", "R_THROTTLED"}
        /\ errors' \in 0 .. 2 /\ errors' <= 1
    BY DEF IInv, TypeOK, SchedulerTypeOK, ControlInv
  <1>2. UNCHANGED tried
    BY DEF ghostVars
  <1>3. ASSUME NEW outcome \in {"done", "failed", "call"}, End(outcome),
               UNCHANGED phase, outcome = "call" => cl # Nil /\ pc = "picked"
        PROVE  IInv'
    <2>1. /\ UNCHANGED <<sch, pick, cl, order, scores>> /\ pc' = outcome
      BY <1>3 DEF End, schedulerVars
    <2>2. ForceInv'
      BY <2>1 DEF IInv, ForceInv
    <2> QED
      BY <1>1, <1>2, <1>3, <2>1, <2>2, HandlerStepInv
  <1>4. CASE FindNext(GetPublicClient, "public") \/ FindNext(GetAnyClient, "any")
    <2>1. /\ GetAnyClient \/ GetPublicClient
          /\ phase' \in {"first", "public", "any"}
      BY <1>4 DEF FindNext
    <2>2. /\ UNCHANGED <<cl, order, scores>> /\ pc' = "pick"
          /\ sch' \in SchedulerRecord /\ sch'.clients = sch.clients
          /\ pick' \in PickRecord /\ pick'.num = 1 /\ pick'.min_pos = 0
          /\ ForceInv'
      BY <2>1, SearchBegins
    <2> QED
      BY <1>1, <1>2, <2>1, <2>2, HandlerStepInv
  <1> QED
    BY <1>3, <1>4

LEMMA Solana01Inv == IInv /\ (Solana01Answered \/ Solana01Picked) => IInv'
  BY SearchStepInv DEF Solana01Answered, Solana01Picked, NothingLeft

LEMMA RawInv == IInv /\ (RawAnswered \/ RawPicked) => IInv'
  BY SearchStepInv DEF RawAnswered, RawPicked, NothingLeft, AnyWhileThrottled

LEMMA PassthroughAnsweredInv == IInv /\ PassthroughAnswered => IInv'
  <1> SUFFICES ASSUME IInv, PassthroughAnswered PROVE IInv'
    OBVIOUS
  <1>1. /\ UNCHANGED <<managerVars, request, phase, result, tried, sch, pick,
                       cl, order, scores>>
        /\ pc = "answered" /\ request.handler = "passthrough"
        /\ pc' \in {"done", "failed", "forward"}
        /\ errors' = IF result = "R_ERROR" THEN errors + 1 ELSE errors
        /\ result = "R_ERROR" /\ errors + 1 >= 2 => pc' = "failed"
    BY DEF PassthroughAnswered, End, schedulerVars, ghostVars
  <1>2. /\ sch \in SchedulerRecord /\ pick \in PickRecord
        /\ phase \in {"first", "public", "any"}
        /\ result \in {"R_OK", "R_ERROR", "R_THROTTLED"}
        /\ errors \in 0 .. 2 /\ errors <= 1
    BY <1>1 DEF IInv, TypeOK, SchedulerTypeOK, ControlInv
  <1>3. errors' \in 0 .. 2 /\ (pc' # "failed" => errors' <= 1)
    BY <1>1, <1>2
  <1>4. ForceInv'
    BY <1>1 DEF ForceInv
  <1> QED
    BY <1>1, <1>2, <1>3, <1>4, HandlerStepInv

LEMMA AnsweredInv ==
  ASSUME IInv, NEW r \in {"R_OK", "R_ERROR", "R_THROTTLED"}, Answered(r)
  PROVE  IInv'
  <1>1. /\ UNCHANGED <<managerVars, request, phase, errors, tried, sch, pick,
                       cl, order, scores>>
        /\ pc = "wait" /\ pc' = "answered" /\ result' = r
    BY DEF Answered, schedulerVars
  <1>2. /\ sch \in SchedulerRecord /\ pick \in PickRecord
        /\ phase \in {"first", "public", "any"}
        /\ errors \in 0 .. 2 /\ errors <= 1
    BY <1>1 DEF IInv, TypeOK, SchedulerTypeOK, ControlInv
  <1>4. ForceInv'
    BY <1>1 DEF IInv, ForceInv
  <1> QED
    BY <1>1, <1>2, <1>4, HandlerStepInv
-----------------------------------------------------------------------------
(* Calls and the list of passthrough                                       *)

(* The node called has not been called before and stands in no list.       *)
LEMMA SendInv == IInv /\ Send => IInv'
  <1> SUFFICES ASSUME IInv, Send PROVE IInv'
    OBVIOUS
  <1> USE DEF IInv
  <1>1. /\ UNCHANGED <<clients, known, info, changes, sch, pick, cl, order,
                       scores, request, phase, errors>>
        /\ pc = "call" /\ pc' \in {"answered", "wait"}
        /\ tried' = Append(tried, cl)
        /\ result' \in {result, "R_THROTTLED"}
    BY DEF Send, managerVars, listVars, schedulerVars
  <1>2. /\ tried \in Seq(Nodes) /\ cl \in Nodes /\ IsInjective(tried)
        /\ cl \notin Range(tried) /\ OnSide(cl)
    BY <1>1 DEF TypeOK, SchedulerTypeOK, ControlInv, TriedInv, Found
  <1>3. /\ tried' \in Seq(Nodes) /\ Range(tried') = Range(tried) \cup {cl}
        /\ IsInjective(tried')
    BY <1>1, <1>2, AppendRange
  <1>4. ManagerTypeOK' /\ SchedulerTypeOK'
    BY <1>1 DEF TypeOK, ManagerTypeOK, NodeListTypeOK, SchedulerTypeOK
  <1>5. TypeOK'
    BY <1>1, <1>3, <1>4 DEF TypeOK
  <1>6. ManagerInv' /\ ControlInv' /\ ListInv' /\ PickInv' /\ ForceInv'
    BY <1>1 DEF ManagerInv, ControlInv, ListInv, PickInv, ForceInv
  <1>7. TriedInv' /\ OrderInv'
    BY <1>1, <1>2, <1>3
    DEF TriedInv, OrderInv, ControlInv, Found, OnSide
  <1> QED
    BY <1>5, <1>6, <1>7

LEMMA ForwardInv == IInv /\ Forward => IInv'
  <1> SUFFICES ASSUME IInv, Forward PROVE IInv'
    OBVIOUS
  <1> USE DEF IInv
  <1>1. /\ UNCHANGED <<clients, known, info, changes, sch, pick, scores, tried,
                       request, phase, result, errors>>
        /\ pc = "forward" /\ request.handler = "passthrough"
        /\ request.forced = {}
    BY DEF Forward, End, managerVars, listVars, schedulerVars, handlerVars, ghostVars,
           ControlInv
  <1>2. ManagerInv' /\ ListInv' /\ ForceInv'
    BY <1>1 DEF ManagerInv, ListInv, ForceInv
  <1>3. CASE order = <<>>
    <2>1. pc' = "failed" /\ UNCHANGED <<cl, order>>
      BY <1>3 DEF Forward, End, schedulerVars
    <2>2. ManagerTypeOK' /\ SchedulerTypeOK'
      BY <1>1, <2>1 DEF TypeOK, ManagerTypeOK, NodeListTypeOK, SchedulerTypeOK
    <2>3. TypeOK' /\ ControlInv' /\ PickInv'
      BY <1>1, <2>1, <2>2 DEF TypeOK, ControlInv, PickInv
    <2>4. TriedInv' /\ OrderInv'
      BY <1>1, <2>1 DEF TriedInv, OrderInv, Found, OnSide
    <2> QED
      BY <1>2, <2>3, <2>4
  <1>4. CASE order # <<>>
    <2>1. pc' = "call" /\ cl' = Head(order) /\ order' = Tail(order)
      BY <1>4 DEF Forward
    <2>2. /\ cl' \in Nodes /\ cl' \in Range(order)
          /\ order' \in Seq(Nodes) /\ IsInjective(order')
          /\ Range(order') \subseteq Range(order) /\ cl' \notin Range(order')
      BY <1>1, <1>4, <2>1, TailRange DEF TypeOK, SchedulerTypeOK, OrderInv
    <2>3. ManagerTypeOK' /\ SchedulerTypeOK'
      BY <1>1, <2>2 DEF TypeOK, ManagerTypeOK, NodeListTypeOK, SchedulerTypeOK
    <2>4. TypeOK' /\ ControlInv' /\ PickInv'
      BY <1>1, <2>1, <2>2, <2>3, NilAssumption
      DEF TypeOK, ControlInv, PickInv
    <2>5. Range(order) \cap Range(tried) = {}
      BY <1>1 DEF OrderInv
    <2>6. TriedInv' /\ OrderInv'
      BY <1>1, <2>1, <2>2, <2>5 DEF TriedInv, OrderInv, Found, OnSide
    <2> QED
      BY <1>2, <2>4, <2>6
  <1> QED
    BY <1>3, <1>4

LEMMA ListNodeInv ==
  ASSUME IInv, ListNode, UNCHANGED <<managerVars, handlerVars, ghostVars>>
  PROVE  IInv'
  <1> USE DEF IInv
  <1> DEFINE n == sch.clients[pick.num]
  <1>1. /\ UNCHANGED <<clients, known, info, changes, sch, cl, scores, tried,
                       request, phase, result, errors>>
        /\ pc = "list" /\ pc' = "list"
        /\ pick' = [pick EXCEPT !.num = @ + 1]
        /\ order' \in {order, Append(order, n)}
        /\ pick.num <= Len(sch.clients)
    BY DEF ListNode, Candidate, managerVars, listVars, handlerVars, ghostVars
  <1>2. /\ request.handler = "passthrough" /\ sch.clients \in Seq(Nodes)
        /\ IsInjective(order) /\ order \in Seq(Nodes)
        /\ tried = <<>>
        /\ \A j \in DOMAIN sch.clients :
             j >= pick.num => sch.clients[j] \notin Range(order)
        /\ pick \in PickRecord
    BY <1>1 DEF OrderInv, ControlInv, TypeOK, SchedulerTypeOK
  <1>3. /\ pick.num \in Nat \ {0} /\ pick.num \in DOMAIN sch.clients
        /\ n \in Nodes /\ n \notin Range(order)
        /\ pick'.num = pick.num + 1
    BY <1>1, <1>2 DEF PickRecord
  <1>4. /\ order' \in Seq(Nodes) /\ IsInjective(order')
        /\ Range(order') \subseteq Range(order) \cup {n}
    <2>1. /\ Append(order, n) \in Seq(Nodes) /\ IsInjective(Append(order, n))
          /\ Range(Append(order, n)) = Range(order) \cup {n}
      <3> HIDE DEF n, IInv
      <3> QED
        BY <1>2, <1>3, AppendRange
    <2> HIDE DEF n, IInv
    <2>2. CASE order' = order
      BY <1>2, <2>2
    <2>3. CASE order' = Append(order, n)
      BY <2>1, <2>3
    <2> QED
      BY <1>1, <2>2, <2>3 DEF n
  <1>5. pick' \in PickRecord
    BY <1>1, <1>2, PickNext
  <1>6. ManagerTypeOK' /\ SchedulerTypeOK'
    BY <1>1, <1>4, <1>5 DEF TypeOK, ManagerTypeOK, NodeListTypeOK, SchedulerTypeOK
  <1>7. TypeOK'
    BY <1>1, <1>6 DEF TypeOK
  <1>8. ManagerInv' /\ ControlInv' /\ ListInv' /\ PickInv' /\ ForceInv'
    BY <1>1, <1>2 DEF ManagerInv, ControlInv, ListInv, PickInv, ForceInv
  <1>9. TriedInv'
    BY <1>1, <1>2 DEF TriedInv, Found, OnSide
  <1>10. ASSUME NEW j \in DOMAIN sch.clients, j >= pick.num + 1
         PROVE  sch.clients[j] \notin Range(order')
    <2>1. j >= pick.num /\ j # pick.num
      BY <1>2, <1>3, <1>10
    <2>2. sch.clients[j] \notin Range(order)
      BY <1>2, <2>1
    <2>3. sch.clients[j] # n
      BY <1>2, <1>3, <2>1, NilAssumption DEF ListInv
    <2> QED
      BY <1>4, <2>2, <2>3
  <1>11. OrderInv'
    <2>1. Range(tried) = {}
      BY <1>2 DEF Range
    <2> QED
      BY <1>1, <1>2, <1>3, <1>4, <1>10, <2>1 DEF OrderInv
  <1> QED
    BY <1>7, <1>8, <1>9, <1>11

LEMMA ReadScoreInv ==
  ASSUME IInv, ReadScore, UNCHANGED <<managerVars, handlerVars, ghostVars>>
  PROVE  IInv'
  <1> USE DEF IInv
  <1>1. /\ UNCHANGED <<clients, known, info, changes, pc, sch, pick, cl, order,
                       tried, request, phase, result, errors>>
        /\ pc = "list"
        /\ scores' = Append(scores, info[order[Len(scores) + 1]].score)
        /\ Len(scores) < Len(order)
    BY DEF ReadScore, managerVars, listVars, handlerVars, ghostVars
  <1>2. order[Len(scores) + 1] \in Nodes
    BY <1>1 DEF TypeOK, SchedulerTypeOK
  <1>3. info[order[Len(scores) + 1]].score \in Int
    BY <1>2, NodesAssumption DEF TypeOK, ManagerTypeOK, NodeListTypeOK
  <1>4. scores' \in Seq(Int)
    BY <1>1, <1>3, AppendProperties DEF TypeOK, SchedulerTypeOK
  <1>5. ManagerTypeOK' /\ SchedulerTypeOK'
    BY <1>1, <1>4 DEF TypeOK, ManagerTypeOK, NodeListTypeOK, SchedulerTypeOK
  <1>6. TypeOK'
    BY <1>1, <1>5 DEF TypeOK
  <1>7. ManagerInv' /\ ControlInv' /\ ListInv' /\ PickInv' /\ ForceInv'
    BY <1>1 DEF ManagerInv, ControlInv, ListInv, PickInv, ForceInv
  <1>8. TriedInv' /\ OrderInv'
    BY <1>1 DEF TriedInv, OrderInv, Found, OnSide
  <1> QED
    BY <1>6, <1>7, <1>8

LEMMA SortInv ==
  ASSUME IInv, Sort, UNCHANGED <<managerVars, handlerVars, ghostVars>>
  PROVE  IInv'
  <1> USE DEF IInv
  <1>1. /\ UNCHANGED <<clients, known, info, changes, sch, cl, tried, request,
                       phase, result, errors>>
        /\ pc = "list" /\ pc' \in {"failed", "forward"}
        /\ order' \in SortedOrders /\ scores' = <<>> /\ pick' = NoPick
    BY DEF Sort, managerVars, listVars, handlerVars, ghostVars
  <1>2. /\ request.handler = "passthrough" /\ request.forced = {}
        /\ IsInjective(order) /\ order \in Seq(Nodes)
        /\ Range(order) \cap Range(tried) = {}
    BY <1>1 DEF OrderInv, ControlInv, TypeOK, SchedulerTypeOK
  <1>3. /\ order' \in Seq(Nodes) /\ IsInjective(order')
        /\ Range(order') \subseteq Range(order)
    BY <1>1, <1>2, SortedRange
  <1>4. pick' \in PickRecord
    BY <1>1 DEF NoPick, PickRecord
  <1>5. ManagerTypeOK' /\ SchedulerTypeOK'
    BY <1>1, <1>3, <1>4 DEF TypeOK, ManagerTypeOK, NodeListTypeOK, SchedulerTypeOK
  <1>6. TypeOK'
    BY <1>1, <1>5 DEF TypeOK
  <1>7. ManagerInv' /\ ControlInv' /\ ListInv' /\ PickInv' /\ ForceInv'
    BY <1>1, <1>2 DEF ManagerInv, ControlInv, ListInv, PickInv, ForceInv
  <1>8. TriedInv' /\ OrderInv'
    BY <1>1, <1>2, <1>3 DEF TriedInv, OrderInv, Found, OnSide
  <1> QED
    BY <1>6, <1>7, <1>8
-----------------------------------------------------------------------------
(* Requests begin and end, and nodes change meanwhile                      *)

(* The scheduler a request begins with.                                    *)
LEMMA NewScheduler ==
  ASSUME clients \in Seq(Nodes), NEW f, MakeScheduler(f)
  PROVE  /\ sch' \in SchedulerRecord
         /\ sch'.clients = clients
         /\ f = {"public"} => sch'.force_public /\ ~ sch'.force_private
         /\ f = {"private"} => sch'.force_private /\ ~ sch'.force_public
  <1>1. /\ clients \in Seq(Nodes \cup {Nil}) /\ -1 \in Int
        /\ (f = {"public"}) \in BOOLEAN /\ (f = {"private"}) \in BOOLEAN
    BY SeqMonotonic
  <1>2. ASSUME NEW c \in Seq(Nodes \cup {Nil}), NEW a \in BOOLEAN,
               NEW b \in BOOLEAN, NEW m \in Int
        PROVE  [clients |-> c, force_public |-> a, force_private |-> b,
                min_block_no |-> m] \in SchedulerRecord
    BY Zenon DEF SchedulerRecord
  <1>3. sch' \in SchedulerRecord
    BY <1>1, <1>2 DEF MakeScheduler
  <1>4. /\ sch'.clients = clients
        /\ sch'.force_public = (f = {"public"})
        /\ sch'.force_private = (f = {"private"})
    BY DEF MakeScheduler
  <1>5. "public" # "private"
    OBVIOUS
  <1>6. {"public"} # {"private"}
    BY <1>5
  <1> QED
    BY <1>3, <1>4, <1>6

LEMMA BeginInv ==
  ASSUME IInv, NEW r \in Requests, Begin(r)
  PROVE  IInv'
  <1> USE DEF IInv
  <1>1. /\ UNCHANGED <<clients, known, info, changes, pick, cl, order, scores,
                       phase, result, errors, tried>>
        /\ pc = "idle" /\ request' = r /\ MakeScheduler(r.forced)
        /\ pc' = IF r.handler = "passthrough" THEN "list" ELSE "pick"
    BY DEF Begin, managerVars, listVars
  <1>2. /\ clients \in Seq(Nodes) /\ IsInjective(clients)
        /\ pick = NoPick /\ order = <<>> /\ tried = <<>> /\ errors <= 1
        /\ pick.num = 1 /\ pick.min_pos = 0 /\ pick.lift = FALSE
    BY <1>1 DEF TypeOK, ManagerTypeOK, NodeListTypeOK, ManagerInv, ControlInv, NoPick
  <1>3. /\ sch' \in SchedulerRecord /\ sch'.clients = clients
        /\ r.forced = {"public"} => sch'.force_public /\ ~ sch'.force_private
        /\ r.forced = {"private"} => sch'.force_private /\ ~ sch'.force_public
    BY <1>1, <1>2, NewScheduler
  <1>4. r.handler = "passthrough" => r.forced = {}
    BY RequestsAssumption
  <1>5. Range(<<>>) = {}
    BY DEF Range
  <1>6. ManagerTypeOK' /\ SchedulerTypeOK'
    BY <1>1, <1>3 DEF TypeOK, ManagerTypeOK, NodeListTypeOK, SchedulerTypeOK
  <1>7. TypeOK'
    BY <1>1, <1>6 DEF TypeOK
  <1>8. ManagerInv' /\ ControlInv'
    BY <1>1, <1>2, <1>4 DEF ManagerInv, ControlInv
  <1>9. ListInv'
    BY <1>2, <1>3 DEF ListInv, IsInjective
  <1>10. PickInv'
    BY <1>1, <1>2, <1>3 DEF PickInv
  <1>11. ForceInv'
    BY <1>1, <1>2, <1>3 DEF ForceInv
  <1>12. TriedInv'
    BY <1>1, <1>2, <1>5 DEF TriedInv, Found
  <1>13. OrderInv'
    <2>1. IsInjective(<<>>)
      BY DEF IsInjective
    <2>2. UNCHANGED <<order, tried>> /\ order = <<>> /\ tried = <<>>
      BY <1>1, <1>2
    <2>3. pc' # "call" /\ sch'.clients \in Seq(Nodes)
      BY <1>1, <1>2, <1>3
    <2> HIDE DEF IInv
    <2> QED
      BY <1>5, <2>1, <2>2, <2>3 DEF OrderInv
  <1> QED
    BY <1>7, <1>8, <1>9, <1>10, <1>11, <1>12, <1>13

LEMMA FinishInv ==
  ASSUME IInv, Finish
  PROVE  IInv'
  <1> USE DEF IInv
  <1>1. /\ UNCHANGED <<clients, known, info, changes>>
        /\ pc' = "idle" /\ request' = NoRequest /\ tried' = <<>>
        /\ sch' = NoScheduler /\ pick' = NoPick /\ cl' = Nil
        /\ order' = <<>> /\ scores' = <<>>
        /\ phase' = "first" /\ result' = "R_OK" /\ errors' = 0
    BY DEF Finish, managerVars, listVars
  <1>2. /\ NoScheduler \in SchedulerRecord /\ NoPick \in PickRecord
        /\ DOMAIN NoScheduler.clients = {}
    BY DEF NoScheduler, SchedulerRecord, NoPick, PickRecord
  <1>3. ManagerTypeOK' /\ SchedulerTypeOK'
    BY <1>1, <1>2 DEF TypeOK, ManagerTypeOK, NodeListTypeOK, SchedulerTypeOK
  <1>4. TypeOK'
    BY <1>1, <1>3 DEF TypeOK
  <1>5. IsInjective(<<>>) /\ Range(<<>>) = {}
    BY DEF IsInjective, Range
  <1>6. ManagerInv' /\ ControlInv' /\ PickInv' /\ ForceInv'
    BY <1>1 DEF ManagerInv, ControlInv, PickInv, ForceInv, NoRequest
  <1>7. ListInv'
    BY <1>1, <1>2 DEF ListInv
  <1>8. TriedInv' /\ OrderInv'
    BY <1>1, <1>2, <1>5 DEF TriedInv, OrderInv, Found, NoRequest
  <1> QED
    BY <1>4, <1>6, <1>7, <1>8

(* The manager's list stays free of duplicates; a request has a copy.      *)
LEMMA ManagerStepInv ==
  ASSUME IInv, ManagerStep
  PROVE  IInv'
  <1> USE DEF IInv
  <1>1. /\ ManagerNext
        /\ UNCHANGED <<pc, sch, pick, cl, order, scores, request, phase,
                       result, errors, tried>>
    BY DEF ManagerStep, schedulerVars, handlerVars
  <1>2. ManagerTypeOK' /\ ManagerInv'
    <2> USE DEF TypeOK, ManagerTypeOK, NodeListTypeOK, ManagerInv
    <2>1. ASSUME NEW n \in Nodes, NodeAdded(n)
          PROVE  ManagerTypeOK' /\ ManagerInv'
      <3>1. n \notin Range(clients)
        BY <2>1 DEF NodeAdded, ClientRegister
      <3>2. /\ Append(clients, n) \in Seq(Nodes)
            /\ Range(Append(clients, n)) = Range(clients) \cup {n}
            /\ IsInjective(Append(clients, n))
        BY <3>1, AppendRange
      <3> QED
        BY <2>1, <3>2 DEF NodeAdded, ClientRegister
    <2>2. ASSUME NEW i \in DOMAIN clients, NodeRemoved(i)
          PROVE  ManagerTypeOK' /\ ManagerInv'
      <3>1. /\ RemoveAt(clients, i) \in Seq(Nodes)
            /\ Range(RemoveAt(clients, i)) \subseteq Range(clients)
            /\ IsInjective(RemoveAt(clients, i))
        BY <2>2, RemoveAtRange DEF NodeRemoved, ClientRemove
      <3>2. changes' \in 0 .. MaxChanges
        BY <2>2, NodesAssumption DEF NodeRemoved, ClientRemove
      <3> QED
        BY <2>2, <3>1, <3>2 DEF NodeRemoved, ClientRemove
    <2>3. ASSUME NEW n \in Nodes, NEW s \in NodeStates, NodeChanges(n, s)
          PROVE  ManagerTypeOK' /\ ManagerInv'
      <3>1. changes' \in 0 .. MaxChanges
        BY <2>3, NodesAssumption DEF NodeChanges, listVars
      <3> QED
        BY <2>3, <3>1 DEF NodeChanges, listVars
    <2> QED
      BY <1>1, <2>1, <2>2, <2>3 DEF ManagerNext
  <1>3. SchedulerTypeOK'
    BY <1>1 DEF TypeOK, SchedulerTypeOK
  <1>4. TypeOK'
    BY <1>1, <1>2, <1>3 DEF TypeOK
  <1>5. ControlInv' /\ ListInv' /\ PickInv' /\ ForceInv'
    BY <1>1 DEF ControlInv, ListInv, PickInv, ForceInv, OnSide
  <1>6. TriedInv' /\ OrderInv'
    BY <1>1 DEF TriedInv, OrderInv, Found, OnSide
  <1> QED
    BY <1>2, <1>4, <1>5, <1>6

-----------------------------------------------------------------------------
(* The specification                                                       *)

(* Every step keeps the invariant.                                         *)
LEMMA NextInv == IInv /\ [Next]_vars => IInv'
  <1> SUFFICES ASSUME IInv, [Next]_vars PROVE IInv'
    OBVIOUS
  <1>1. ASSUME NEW r \in Requests, Begin(r) PROVE IInv'
    BY <1>1, BeginInv
  <1>2. CASE RequestStep
    <2>1. CASE PickStep /\ UNCHANGED <<managerVars, handlerVars, ghostVars>>
      BY <2>1, DropNodeInv, KeepNodeInv, SkipNodeInv, PickDoneInv DEF PickStep
    <2>2. CASE ListStep /\ UNCHANGED <<managerVars, handlerVars, ghostVars>>
      BY <2>2, ListNodeInv, ReadScoreInv, SortInv DEF ListStep
    <2>3. CASE Send
      BY <2>3, SendInv
    <2>4. ASSUME NEW r \in {"R_OK", "R_ERROR", "R_THROTTLED"}, Answered(r) PROVE IInv'
      BY <2>4, AnsweredInv
    <2>5. CASE FirstPicked \/ Refuse
      BY <2>5, FirstPickedInv
    <2>6. CASE Accept
      BY <2>6, AcceptInv
    <2>7. CASE Solana01Answered \/ Solana01Picked
      BY <2>7, Solana01Inv
    <2>8. CASE RawAnswered \/ RawPicked
      BY <2>8, RawInv
    <2>9. CASE Forward \/ PassthroughAnswered
      BY <2>9, ForwardInv, PassthroughAnsweredInv
    <2> QED
      BY <1>2, <2>1, <2>2, <2>3, <2>4, <2>5, <2>6, <2>7, <2>8, <2>9
      DEF RequestStep
  <1>3. CASE Finish
    BY <1>3, FinishInv
  <1>4. CASE ManagerStep
    BY <1>4, ManagerStepInv
  <1>5. CASE UNCHANGED vars
    BY <1>5
    DEF vars, managerVars, listVars, schedulerVars, handlerVars, ghostVars, IInv, TypeOK,
        ManagerTypeOK, NodeListTypeOK, SchedulerTypeOK, ManagerInv, ControlInv, ListInv,
        PickInv, ForceInv, TriedInv, OrderInv, Found, OnSide
  <1> QED
    BY <1>1, <1>2, <1>3, <1>4, <1>5 DEF Next

(* The inductive invariant holds of every behaviour, whatever the nodes,   *)
(* their number, the configuration and the requests.                       *)
THEOREM Invariant == Spec => []IInv
  BY InitInv, NextInv, PTL DEF Spec

(* Every variable keeps its type; a passthrough request makes at most two  *)
(* failing calls (public_passthrough_proxy.go:64-70).                      *)
THEOREM TypeCorrect == Spec => []TypeOK
  <1>1. IInv => TypeOK
    BY DEF IInv
  <1> QED
    BY <1>1, Invariant, PTL

(* No request is sent to a node twice: a node the scheduler hands out, or  *)
(* finds out of order, is crossed out (scheduler_pick.go:16-20, 40-45),    *)
(* and what the manager appends or removes meanwhile changes no copy.      *)
THEOREM NeverTwice == Spec => []NoNodeTwice
  <1>1. IInv => NoNodeTwice
    BY DEF IInv, TriedInv, NoNodeTwice
  <1> QED
    BY <1>1, Invariant, PTL

(* A request that forces a side never reaches the other one, though        *)
(* GetPublicClient sets force_public for a while (scheduler.go:53-64).     *)
THEOREM SideKept == Spec => []ForcedSide
  <1>1. IInv => ForcedSide
    BY DEF IInv, TriedInv, OnSide, TypeOK, ForcedSide
  <1> QED
    BY <1>1, Invariant, PTL

-----------------------------------------------------------------------------
(* Failover                                                                *)
(*                                                                         *)
(* The last two need more than the invariant above: what the looks of a    *)
(* search have found out about the nodes behind it (ScanInv, PassInv), and *)
(* where the nodes of the scheduler's first list have gone (LeftInv).      *)

(* A node in use now has not been away.                                    *)
AwayInv ==
  /\ away \subseteq AwayNow
  /\ request.handler # "passthrough" =>
       /\ pc = "pick" /\ pick.min_pos # 0 => sch.clients[pick.min_pos] \notin away
       /\ Found => cl \notin away

(* The only minimum block is the one the request asks for.                 *)
BlockInv ==
  sch.min_block_no = -1 \/
    (request.handler = "solana_01" /\ sch.min_block_no = request.block)

UnfitInv == pc # "idle" => UnfitNow \subseteq unfit

(* A side is forced only if the request asks for it, or for one pick.      *)
SideInv ==
  pc # "idle" /\ request.handler # "passthrough" =>
    /\ sch.force_private => request.forced = {"private"}
    /\ sch.force_public => request.forced = {"public"} \/ (pc = "pick" /\ pick.lift)

(* A node leaves the scheduler's list to be called, or unfit.              *)
InHand == IF Found THEN {cl} ELSE {}
LeftInv ==
  request.handler # "passthrough" /\ pc \notin {"idle", "refused"} =>
    snapshot \subseteq Range(sch.clients) \cup Range(tried) \cup unfit \cup InHand

(* What a pick without a node has found out of the places behind it.       *)
Useless(i) ==
  \/ sch.clients[i] = Nil
  \/ sch.clients[i] \in unfit
  \/ WrongSide(sch.clients[i])
ScanInv ==
  request.handler # "passthrough" =>
    /\ pc = "pick" /\ pick.min_pos = 0 =>
         /\ pick.min = -1
         /\ \A i \in DOMAIN sch.clients : i < pick.num => Useless(i)
    /\ pc = "pick" /\ pick.lift => phase = "public"
    /\ pc = "picked" /\ cl = Nil /\ phase # "public" =>
         \A i \in DOMAIN sch.clients : Useless(i)

(* The same of the list a passthrough request walks.                       *)
PassInv ==
  request.handler = "passthrough" =>
    /\ pc = "list" =>
         /\ snapshot \subseteq Range(sch.clients)
         /\ \A i \in DOMAIN sch.clients :
              i < pick.num => sch.clients[i] \in Range(order) \cup unfit \cup PublicNodes
    /\ pc \in {"forward", "call", "wait", "answered"} =>
         snapshot \ PublicNodes \subseteq
           Range(order) \cup Range(tried) \cup unfit \cup IF pc = "call" THEN {cl} ELSE {}

GivenUp == pc = "failed" /\ (request.handler = "solana_01" \/ result = "R_THROTTLED")
FailInv == GivenUp => Exhausted

SearchInv ==
  /\ AwayInv /\ BlockInv /\ UnfitInv /\ SideInv
  /\ LeftInv /\ ScanInv /\ PassInv /\ FailInv
  /\ snapshot \subseteq Nodes

-----------------------------------------------------------------------------
(* What does not change                                                    *)

(* Who is unfit depends on what nodes tell and on the request only.        *)
LEMMA StillNow ==
  ASSUME UNCHANGED <<info, request>>, sch'.min_block_no = sch.min_block_no
  PROVE  AwayNow' = AwayNow /\ UnfitNow' = UnfitNow
  BY DEF AwayNow, UnfitNow, Out, LacksBlock

(* A request that is given up after a search that found nothing, of both   *)
(* sides or of the side it asked for.                                      *)
LEMMA NothingFound ==
  ASSUME IInv, SearchInv, pc = "picked", cl = Nil,
         request.handler # "passthrough", phase # "public"
  PROVE  Exhausted
  <1>1. \A i \in DOMAIN sch.clients : Useless(i)
    BY DEF SearchInv, ScanInv
  <1>2. snapshot \subseteq Range(sch.clients) \cup Range(tried) \cup unfit
    BY DEF SearchInv, LeftInv, InHand, Found
  <1>3. /\ sch.force_private => request.forced = {"private"}
        /\ sch.force_public => request.forced = {"public"}
    BY DEF SearchInv, SideInv
  <1>4. SUFFICES ASSUME NEW n \in Eligible, n \notin Range(tried) \cup unfit
                 PROVE  FALSE
    BY DEF Exhausted
  <1>5. n \in snapshot /\ n \in Nodes
    BY <1>4 DEF Eligible, SearchInv
  <1>6. PICK i \in DOMAIN sch.clients : sch.clients[i] = n
    BY <1>2, <1>4, <1>5 DEF Range
  <1>7. WrongSide(n)
    BY <1>1, <1>4, <1>5, <1>6, NilAssumption DEF Useless
  <1>8. {"private"} # {"public"}
    OBVIOUS
  <1> QED
    BY <1>3, <1>4, <1>7, <1>8 DEF WrongSide, Eligible

-----------------------------------------------------------------------------
(* Steps of a pick                                                         *)

(* What all steps of a pick leave alone.                                   *)
LEMMA PickFrame ==
  ASSUME IInv, pc = "pick", UNCHANGED <<managerVars, handlerVars, ghostVars>>
  PROVE  /\ UNCHANGED <<info, request, phase, result, tried, snapshot, unfit, away>>
         /\ request.handler # "passthrough"
         /\ sch \in SchedulerRecord /\ pick \in PickRecord
         /\ sch.clients \in Seq(Nodes \cup {Nil})
  BY DEF managerVars, handlerVars, ghostVars, IInv, ControlInv, TypeOK,
         SchedulerTypeOK, SchedulerRecord

LEMMA DropNodeSearch ==
  ASSUME IInv, SearchInv, DropNode, UNCHANGED <<managerVars, handlerVars, ghostVars>>
  PROVE  SearchInv'
  <1> DEFINE k == pick.num
             n == sch.clients[k]
  <1>0. pc = "pick" /\ pc' = "pick" /\ UNCHANGED cl
    BY DEF DropNode, Looking
  <1>1. /\ UNCHANGED <<info, request, phase, result, tried, snapshot, unfit, away>>
        /\ request.handler # "passthrough"
        /\ sch \in SchedulerRecord /\ pick \in PickRecord
        /\ sch.clients \in Seq(Nodes \cup {Nil})
    BY <1>0, PickFrame
  <1>2. /\ k \in 1 .. Len(sch.clients) /\ k \in Nat
        /\ n # Nil /\ n \in Nodes /\ Out(n)
        /\ sch' = [sch EXCEPT !.clients = [sch.clients EXCEPT ![k] = Nil]]
        /\ pick' = [pick EXCEPT !.num = @ + 1]
    BY <1>1 DEF DropNode, Looking, Candidate, SchedulerRecord, PickRecord
  <1>3. /\ sch'.clients = [sch.clients EXCEPT ![k] = Nil]
        /\ sch'.min_block_no = sch.min_block_no
        /\ sch'.force_public = sch.force_public
        /\ sch'.force_private = sch.force_private
    BY <1>1, <1>2 DEF SchedulerRecord
  <1>4. /\ pick'.num = k + 1 /\ pick'.min = pick.min
        /\ pick'.min_pos = pick.min_pos /\ pick'.lift = pick.lift
        /\ pick.min_pos \in Nat
    BY <1>1, <1>2 DEF PickRecord
  <1>5. /\ DOMAIN sch'.clients = DOMAIN sch.clients
        /\ sch'.clients[k] = Nil
        /\ \A i \in DOMAIN sch.clients : i # k => sch'.clients[i] = sch.clients[i]
        /\ DOMAIN sch.clients = 1 .. Len(sch.clients)
    BY <1>1, <1>2, <1>3, CrossOut DEF IInv
  <1> HIDE DEF k, n
  <1>6. AwayNow' = AwayNow /\ UnfitNow' = UnfitNow
    BY <1>1, <1>3, StillNow
  <1>7. n \in unfit
    BY <1>0, <1>2 DEF SearchInv, UnfitInv, UnfitNow
  <1>8. AwayInv' /\ BlockInv' /\ UnfitInv' /\ SideInv'
    <2>1. pick.min_pos # 0 => pick.min_pos \in DOMAIN sch.clients /\ pick.min_pos # k
      BY <1>0, <1>2, <1>4, <1>5 DEF IInv, PickInv, k
    <2> QED
      BY <1>0, <1>1, <1>3, <1>4, <1>5, <1>6, <2>1
      DEF SearchInv, AwayInv, BlockInv, UnfitInv, SideInv, Found
  <1>9. LeftInv'
    <2>1. Range(sch.clients) \subseteq Range(sch'.clients) \cup {n}
      BY <1>5 DEF Range, n
    <2> QED
      BY <1>0, <1>1, <1>7, <2>1 DEF SearchInv, LeftInv, InHand, Found
  <1>10. ScanInv'
    <2>1. ASSUME NEW i \in DOMAIN sch.clients, i < k + 1, i < k => Useless(i)
          PROVE  Useless(i)'
      BY <1>1, <1>2, <1>3, <1>5, <2>1 DEF Useless, WrongSide
    <2> QED
      BY <1>0, <1>1, <1>4, <1>5, <2>1 DEF SearchInv, ScanInv, k
  <1>11. PassInv' /\ FailInv' /\ (snapshot \subseteq Nodes)'
    BY <1>0, <1>1 DEF SearchInv, PassInv, FailInv, GivenUp
  <1> QED
    BY <1>8, <1>9, <1>10, <1>11 DEF SearchInv

LEMMA KeepNodeSearch ==
  ASSUME IInv, SearchInv, KeepNode, UNCHANGED <<managerVars, handlerVars, ghostVars>>
  PROVE  SearchInv'
  <1>0. pc = "pick" /\ UNCHANGED <<pc, sch, cl>>
    BY DEF KeepNode, Looking
  <1>1. /\ UNCHANGED <<info, request, phase, result, tried, snapshot, unfit, away>>
        /\ request.handler # "passthrough"
        /\ sch \in SchedulerRecord /\ pick \in PickRecord
        /\ sch.clients \in Seq(Nodes \cup {Nil})
    BY <1>0, PickFrame
  <1>2. /\ pick.num \in 1 .. Len(sch.clients)
        /\ sch.clients[pick.num] \in Nodes
        /\ Suitable(sch.clients[pick.num])
        /\ pick'.min_pos = pick.num /\ pick'.lift = pick.lift
        /\ pick'.min_pos # 0
    BY <1>1 DEF KeepNode, Looking, Candidate, PickRecord
  <1>3. AwayNow' = AwayNow /\ UnfitNow' = UnfitNow
    BY <1>0, <1>1, StillNow
  <1>4. sch.clients[pick.num] \notin away
    BY <1>2 DEF SearchInv, AwayInv, AwayNow, Suitable
  <1>5. AwayInv' /\ BlockInv' /\ UnfitInv' /\ SideInv'
    BY <1>0, <1>1, <1>2, <1>3, <1>4
    DEF SearchInv, AwayInv, BlockInv, UnfitInv, SideInv, Found
  <1>6. LeftInv' /\ ScanInv'
    BY <1>0, <1>1, <1>2 DEF SearchInv, LeftInv, InHand, Found, ScanInv
  <1>7. PassInv' /\ FailInv' /\ (snapshot \subseteq Nodes)'
    BY <1>0, <1>1 DEF SearchInv, PassInv, FailInv, GivenUp
  <1> QED
    BY <1>5, <1>6, <1>7 DEF SearchInv

LEMMA SkipNodeSearch ==
  ASSUME IInv, SearchInv, SkipNode, UNCHANGED <<managerVars, handlerVars, ghostVars>>
  PROVE  SearchInv'
  <1> DEFINE k == pick.num
             n == sch.clients[k]
  <1>0. pc = "pick" /\ UNCHANGED <<pc, sch, cl>>
    BY DEF SkipNode, Looking
  <1>1. /\ UNCHANGED <<info, request, phase, result, tried, snapshot, unfit, away>>
        /\ request.handler # "passthrough"
        /\ sch \in SchedulerRecord /\ pick \in PickRecord
        /\ sch.clients \in Seq(Nodes \cup {Nil})
    BY <1>0, PickFrame
  <1>2. /\ k \in 1 .. Len(sch.clients) /\ DOMAIN sch.clients = 1 .. Len(sch.clients)
        /\ n = Nil \/ n \in Nodes
        /\ n # Nil => ~ Out(n) /\ ~ (Suitable(n) /\ Lowest(n))
        /\ pick'.num = k + 1 /\ pick'.min = pick.min
        /\ pick'.min_pos = pick.min_pos /\ pick'.lift = pick.lift
    BY <1>1 DEF SkipNode, Looking, Candidate, PickRecord
  <1>3. AwayNow' = AwayNow /\ UnfitNow' = UnfitNow
    BY <1>0, <1>1, StillNow
  <1>4. AwayInv' /\ BlockInv' /\ UnfitInv' /\ SideInv'
    BY <1>0, <1>1, <1>2, <1>3
    DEF SearchInv, AwayInv, BlockInv, UnfitInv, SideInv, Found
  <1>5. ASSUME pick.min_pos = 0 PROVE Useless(k)
    <2>1. CASE n = Nil
      BY <2>1 DEF Useless
    <2>2. CASE n # Nil
      <3>1. Lowest(n) /\ ~ Suitable(n) /\ ~ Out(n)
        BY <1>0, <1>1, <1>2, <1>5, <2>2 DEF SearchInv, ScanInv, Lowest
      <3>2. WrongSide(n) \/ LacksBlock(n)
        BY <3>1 DEF Suitable
      <3>3. LacksBlock(n) => n \in UnfitNow
        <4>1. n \in Nodes /\ -1 \in Int /\ ~(-1 > -1)
          BY <1>2, <2>2
        <4> HIDE DEF n
        <4> QED
          BY <4>1 DEF SearchInv, BlockInv, LacksBlock, UnfitNow
      <3> QED
        BY <1>0, <3>2, <3>3 DEF Useless, SearchInv, UnfitInv
    <2> QED
      BY <2>1, <2>2
  <1> HIDE DEF k, n
  <1>6. ScanInv'
    <2>1. ASSUME NEW i \in DOMAIN sch.clients, i < k + 1, i < k => Useless(i),
                 pick.min_pos = 0
          PROVE  Useless(i)'
      <3>1. Useless(i)
        <4>1. i < k \/ i = k
          BY <1>2, <2>1
        <4> QED
          BY <1>5, <2>1, <4>1
      <3> QED
        BY <1>0, <1>1, <3>1 DEF Useless, WrongSide
    <2> QED
      BY <1>0, <1>1, <1>2, <2>1 DEF SearchInv, ScanInv, k
  <1>7. LeftInv' /\ PassInv' /\ FailInv' /\ (snapshot \subseteq Nodes)'
    BY <1>0, <1>1
    DEF SearchInv, LeftInv, InHand, Found, PassInv, FailInv, GivenUp
  <1> QED
    BY <1>4, <1>6, <1>7 DEF SearchInv

LEMMA PickDoneSearch ==
  ASSUME IInv, SearchInv, PickDone, UNCHANGED <<managerVars, handlerVars, ghostVars>>
  PROVE  SearchInv'
  <1>0. pc = "pick" /\ pc' = "picked" /\ pick' = NoPick
    BY DEF PickDone
  <1>1. /\ UNCHANGED <<info, request, phase, result, tried, snapshot, unfit, away>>
        /\ request.handler # "passthrough"
        /\ sch \in SchedulerRecord /\ pick \in PickRecord
        /\ sch.clients \in Seq(Nodes \cup {Nil})
    BY <1>0, PickFrame
  <1>2. /\ pick.num > Len(sch.clients) /\ pick.num \in Nat
        /\ pick.min_pos \in 0 .. Len(sch.clients)
        /\ DOMAIN sch.clients = 1 .. Len(sch.clients)
    BY <1>0, <1>1 DEF PickDone, IInv, PickInv, PickRecord
  <1>3. /\ sch'.min_block_no = sch.min_block_no
        /\ sch'.force_private = sch.force_private
        /\ sch'.force_public = (sch.force_public /\ ~ pick.lift)
    BY <1>1 DEF PickDone, SchedulerRecord
  <1>4. AwayNow' = AwayNow /\ UnfitNow' = UnfitNow
    BY <1>1, <1>3, StillNow
  <1>5. BlockInv' /\ UnfitInv' /\ SideInv'
    BY <1>0, <1>1, <1>3, <1>4 DEF SearchInv, BlockInv, UnfitInv, SideInv
  <1>6. PassInv' /\ FailInv' /\ (snapshot \subseteq Nodes)'
    BY <1>0, <1>1 DEF SearchInv, PassInv, FailInv, GivenUp
  <1>7. CASE pick.min_pos = 0
    <2>1. cl' = Nil /\ sch'.clients = sch.clients
      BY <1>1, <1>7 DEF PickDone, SchedulerRecord
    <2>2. AwayInv' /\ LeftInv'
      BY <1>0, <1>1, <1>4, <2>1
      DEF SearchInv, AwayInv, LeftInv, InHand, Found
    <2>3. ASSUME NEW i \in DOMAIN sch.clients, phase # "public" PROVE Useless(i)'
      <3>1. Useless(i)
        BY <1>0, <1>1, <1>2, <1>7 DEF SearchInv, ScanInv
      <3>2. ~ pick.lift
        BY <1>0, <1>1, <2>3 DEF SearchInv, ScanInv
      <3>3. sch'.force_public = sch.force_public
        BY <1>1, <1>3, <3>2 DEF SchedulerRecord
      <3> QED
        BY <1>1, <1>3, <2>1, <3>1, <3>3 DEF Useless, WrongSide
    <2>4. ScanInv'
      BY <1>0, <1>1, <2>1, <2>3 DEF ScanInv
    <2> QED
      BY <1>5, <1>6, <2>2, <2>4 DEF SearchInv
  <1>8. CASE pick.min_pos # 0
    <2> DEFINE k == pick.min_pos
    <2>1. /\ cl' = sch.clients[k] /\ k \in DOMAIN sch.clients
          /\ sch'.clients = [sch.clients EXCEPT ![k] = Nil]
          /\ sch.clients[k] # Nil
      <3>1. /\ cl' = sch.clients[k]
            /\ sch' = [sch EXCEPT !.force_public = @ /\ ~ pick.lift,
                                  !.clients = [sch.clients EXCEPT ![k] = Nil]]
        BY <1>8 DEF PickDone
      <3>2. sch'.clients = [sch.clients EXCEPT ![k] = Nil]
        BY <1>1, <3>1 DEF SchedulerRecord
      <3>3. k \in DOMAIN sch.clients /\ sch.clients[k] # Nil
        BY <1>0, <1>2, <1>8 DEF IInv, PickInv
      <3> QED
        BY <3>1, <3>2, <3>3
    <2> HIDE DEF k
    <2>2. /\ DOMAIN sch'.clients = DOMAIN sch.clients
          /\ \A i \in DOMAIN sch.clients : i # k => sch'.clients[i] = sch.clients[i]
      BY <2>1
    <2>3. AwayInv'
      BY <1>0, <1>1, <1>4, <1>8, <2>1 DEF SearchInv, AwayInv, k
    <2>4. LeftInv'
      <3>1. Range(sch.clients) \subseteq Range(sch'.clients) \cup {cl'}
        BY <2>1, <2>2 DEF Range
      <3>2. InHand' = {cl'} /\ InHand = {}
        BY <1>0, <2>1 DEF InHand, Found
      <3> QED
        BY <1>0, <1>1, <3>1, <3>2 DEF SearchInv, LeftInv
    <2>5. ScanInv'
      BY <1>0, <1>1, <2>1 DEF ScanInv
    <2> QED
      BY <1>5, <1>6, <2>3, <2>4, <2>5 DEF SearchInv
  <1> QED
    BY <1>7, <1>8

-----------------------------------------------------------------------------
(* The handlers that search                                                *)

(* What all steps of a handler leave alone.                                *)
StillHandling ==
  /\ UNCHANGED <<info, request, tried, snapshot, unfit, away>>
  /\ pc # "idle" /\ pc' # "idle"

(* A search begins where none was going on: the list stays, and so does    *)
(* the side, but for the length of a pick.                                 *)
LEMMA SearchBeginsSearch ==
  ASSUME IInv, SearchInv, StillHandling, request.handler # "passthrough",
         pc \in {"answered", "picked"}, pc = "picked" => cl = Nil,
         \/ FindNext(GetPublicClient, "public")
         \/ FindNext(GetAnyClient, "any")
  PROVE  SearchInv'
  <1>1. /\ UNCHANGED <<info, request, tried, snapshot, unfit, away>>
        /\ sch \in SchedulerRecord
    BY DEF StillHandling, IInv, TypeOK, SchedulerTypeOK
  <1>2. /\ pc' = "pick" /\ pick'.min_pos = 0 /\ pick'.num = 1 /\ pick'.min = -1
        /\ UNCHANGED cl
        /\ pick'.lift => phase' = "public"
        /\ sch'.force_public => sch.force_public \/ pick'.lift
        /\ sch'.force_private = sch.force_private
        /\ sch'.clients = sch.clients /\ sch'.min_block_no = sch.min_block_no
    <2>1. CASE FindNext(GetAnyClient, "any")
      BY <2>1 DEF FindNext, GetAnyClient, NoPick
    <2>2. CASE FindNext(GetPublicClient, "public")
      <3> DEFINE lift == ~ sch.force_public /\ ~ sch.force_private
      <3>1. /\ sch' = [sch EXCEPT !.force_public = @ \/ lift]
            /\ pick' = [NoPick EXCEPT !.lift = lift]
            /\ pc' = "pick" /\ UNCHANGED cl /\ phase' = "public"
        BY <2>2 DEF FindNext, GetPublicClient
      <3> HIDE DEF lift
      <3>2. /\ sch'.force_public = (sch.force_public \/ lift)
            /\ sch'.force_private = sch.force_private
            /\ sch'.clients = sch.clients /\ sch'.min_block_no = sch.min_block_no
        BY <1>1, <3>1 DEF SchedulerRecord
      <3>3. /\ pick'.min_pos = 0 /\ pick'.num = 1 /\ pick'.min = -1
            /\ pick'.lift = lift
        BY <3>1 DEF NoPick
      <3> QED
        BY <3>1, <3>2, <3>3
    <2> QED
      BY <2>1, <2>2
  <1>3. AwayNow' = AwayNow /\ UnfitNow' = UnfitNow
    BY <1>1, <1>2, StillNow
  <1>4. AwayInv' /\ BlockInv' /\ UnfitInv' /\ SideInv'
    BY <1>1, <1>2, <1>3
    DEF SearchInv, AwayInv, BlockInv, UnfitInv, SideInv, Found
  <1>5. LeftInv'
    BY <1>1, <1>2 DEF SearchInv, LeftInv, InHand, Found
  <1>6. ScanInv'
    <2>1. \A i \in DOMAIN sch'.clients : ~(i < 1)
      <3>1. sch.clients \in Seq(Nodes \cup {Nil})
        BY <1>1 DEF SchedulerRecord
      <3> QED
        BY <1>2, <3>1
    <2> QED
      BY <1>1, <1>2, <2>1 DEF ScanInv
  <1>7. PassInv' /\ FailInv' /\ (snapshot \subseteq Nodes)'
    BY <1>1, <1>2 DEF SearchInv, PassInv, FailInv, GivenUp
  <1> QED
    BY <1>4, <1>5, <1>6, <1>7 DEF SearchInv

(* The handler goes on with the node found, or ends; it gives up only when *)
(* it may.                                                                 *)
LEMMA GoOnSearch ==
  ASSUME IInv, SearchInv, StillHandling, request.handler # "passthrough",
         pc \in {"answered", "picked", "accept"},
         NEW outcome \in {"accept", "call", "done", "failed", "refused"},
         End(outcome),
         outcome \in {"accept", "call"} => Found,
         outcome \in {"done", "failed"} => pc = "answered" \/ cl = Nil,
         outcome = "failed" /\ GivenUp' => Exhausted
  PROVE  SearchInv'
  <1>1. /\ UNCHANGED <<info, request, tried, snapshot, unfit, away>>
        /\ UNCHANGED <<sch, pick, cl, order>> /\ pc' = outcome
    BY DEF StillHandling, End, schedulerVars
  <1>2. AwayNow' = AwayNow /\ UnfitNow' = UnfitNow
    BY <1>1, StillNow
  <1>3. AwayInv' /\ BlockInv' /\ UnfitInv' /\ SideInv'
    BY <1>1, <1>2 DEF SearchInv, AwayInv, BlockInv, UnfitInv, SideInv, Found
  <1>4. LeftInv'
    <2>1. CASE outcome \in {"accept", "call"}
      BY <1>1, <2>1 DEF SearchInv, LeftInv, InHand, Found
    <2>2. CASE outcome \in {"done", "failed"}
      BY <1>1, <2>2 DEF SearchInv, LeftInv, InHand, Found
    <2> QED
      BY <1>1, <2>1, <2>2 DEF LeftInv
  <1>5. ScanInv' /\ PassInv'
    BY <1>1 DEF ScanInv, PassInv
  <1>6. FailInv'
    BY <1>1 DEF SearchInv, FailInv, GivenUp, Exhausted, Eligible
  <1> QED
    BY <1>1, <1>3, <1>4, <1>5, <1>6 DEF SearchInv

LEMMA FirstPickedSearch ==
  IInv /\ SearchInv /\ (FirstPicked \/ Refuse) => SearchInv'
  <1> SUFFICES ASSUME IInv, SearchInv, FirstPicked \/ Refuse PROVE SearchInv'
    OBVIOUS
  <1>1. /\ UNCHANGED <<info, request, tried, snapshot, unfit, away, phase, result>>
        /\ pc \in {"picked", "accept"} /\ request.handler # "passthrough"
    BY DEF FirstPicked, Refuse, managerVars, handlerVars, ghostVars, IInv, ControlInv
  <1>2. CASE FirstPicked
    <2>1. /\ pc = "picked" /\ phase = "first"
          /\ End(IF cl = Nil THEN "failed" ELSE "accept")
      BY <1>2 DEF FirstPicked
    <2>2. CASE cl = Nil
      <3>1. End("failed") /\ pc' = "failed"
        BY <2>1, <2>2 DEF End
      <3>2. Exhausted
        BY <1>1, <2>1, <2>2, NothingFound
      <3>3. StillHandling
        BY <1>1, <2>1, <3>1 DEF StillHandling
      <3> QED
        BY <1>1, <2>1, <2>2, <3>1, <3>2, <3>3, GoOnSearch
    <2>3. CASE cl # Nil
      <3>1. End("accept") /\ pc' = "accept"
        BY <2>1, <2>3 DEF End
      <3>2. StillHandling /\ Found
        BY <1>1, <2>1, <2>3, <3>1 DEF StillHandling, Found
      <3> QED
        BY <1>1, <2>1, <3>1, <3>2, GoOnSearch
    <2> QED
      BY <2>2, <2>3
  <1>3. CASE Refuse
    <2>1. End("refused") /\ pc' = "refused" /\ pc = "accept"
      BY <1>3 DEF Refuse, End
    <2>2. StillHandling
      BY <1>1, <2>1 DEF StillHandling
    <2> QED
      BY <1>1, <2>1, <2>2, GoOnSearch
  <1> QED
    BY <1>2, <1>3

(* From here on a node without the block is to be left alone too.          *)
LEMMA AcceptSearch == IInv /\ SearchInv /\ Accept => SearchInv'
  <1> SUFFICES ASSUME IInv, SearchInv, Accept PROVE SearchInv'
    OBVIOUS
  <1>1. /\ UNCHANGED <<info, request, tried, snapshot, unfit, away, phase,
                       result, pick, cl, order>>
        /\ pc = "accept" /\ pc' = "call" /\ request.handler # "passthrough"
    BY DEF Accept, managerVars, handlerVars, ghostVars, IInv, ControlInv
  <1>2. /\ sch'.clients = sch.clients
        /\ sch'.force_public = sch.force_public
        /\ sch'.force_private = sch.force_private
        /\ \/ sch'.min_block_no = sch.min_block_no
           \/ request.handler = "solana_01" /\ sch'.min_block_no = request.block
    BY DEF Accept, IInv, TypeOK, SchedulerTypeOK, SchedulerRecord
  <1>3. UnfitNow' = UnfitNow /\ BlockInv'
    BY <1>1, <1>2 DEF UnfitNow, Out, SearchInv, BlockInv
  <1>4. AwayNow \subseteq AwayNow'
    <2>1. ~ (-1 > -1)
      OBVIOUS
    <2> QED
      BY <1>1, <1>2, <2>1 DEF AwayNow, Out, LacksBlock, SearchInv, BlockInv
  <1>5. AwayInv' /\ UnfitInv' /\ SideInv'
    BY <1>1, <1>2, <1>3, <1>4
    DEF SearchInv, AwayInv, UnfitInv, SideInv, Found
  <1>6. LeftInv'
    BY <1>1, <1>2 DEF SearchInv, LeftInv, InHand, Found
  <1>7. ScanInv' /\ PassInv' /\ FailInv' /\ (snapshot \subseteq Nodes)'
    BY <1>1 DEF SearchInv, ScanInv, PassInv, FailInv, GivenUp
  <1> QED
    BY <1>3, <1>5, <1>6, <1>7 DEF SearchInv

(* What solana_01 and raw do with an answer, or with the end of a search.  *)
LEMMA SearchStepSearch ==
  ASSUME IInv, SearchInv,
         UNCHANGED <<managerVars, request, result, errors, ghostVars>>,
         request.handler # "passthrough", pc \in {"answered", "picked"},
         \/ (pc = "answered" \/ cl = Nil) /\ FindNext(GetPublicClient, "public")
         \/ (pc = "answered" \/ cl = Nil) /\ FindNext(GetAnyClient, "any")
         \/ pc = "picked" /\ cl # Nil /\ End("call")
         \/ pc = "picked" /\ cl = Nil /\ phase # "public" /\ End("failed")
         \/ pc = "answered" /\ End("done")
         \/ /\ pc = "answered" \/ cl = Nil
            /\ request.handler # "solana_01" /\ result # "R_THROTTLED"
            /\ End("failed")
  PROVE  SearchInv'
  <1>1. /\ UNCHANGED <<info, request, tried, snapshot, unfit, away, result>>
        /\ pc # "idle"
    BY DEF managerVars, ghostVars
  <1>2. pc' # "idle"
    BY DEF FindNext, GetPublicClient, GetAnyClient, End
  <1>3. StillHandling
    BY <1>1, <1>2 DEF StillHandling
  <1>4. CASE /\ pc = "answered" \/ cl = Nil
             /\ FindNext(GetPublicClient, "public") \/ FindNext(GetAnyClient, "any")
    BY <1>3, <1>4, SearchBeginsSearch
  <1>5. CASE pc = "picked" /\ cl # Nil /\ End("call")
    <2>1. Found
      BY <1>5 DEF Found
    <2> QED
      BY <1>3, <1>5, <2>1, GoOnSearch
  <1>6. CASE pc = "picked" /\ cl = Nil /\ phase # "public" /\ End("failed")
    <2>1. Exhausted
      BY <1>6, NothingFound
    <2> QED
      BY <1>3, <1>6, <2>1, GoOnSearch
  <1>7. CASE pc = "answered" /\ End("done")
    BY <1>3, <1>7, GoOnSearch
  <1>8. CASE /\ pc = "answered" \/ cl = Nil
             /\ request.handler # "solana_01" /\ result # "R_THROTTLED"
             /\ End("failed")
    <2>1. ~ GivenUp'
      BY <1>1, <1>8 DEF GivenUp
    <2> QED
      BY <1>3, <1>8, <2>1, GoOnSearch
  <1> QED
    BY <1>4, <1>5, <1>6, <1>7, <1>8

LEMMA Solana01Search ==
  IInv /\ SearchInv /\ (Solana01Answered \/ Solana01Picked) => SearchInv'
  <1> SUFFICES ASSUME IInv, SearchInv, Solana01Answered \/ Solana01Picked
               PROVE  SearchInv'
    OBVIOUS
  <1>1. /\ UNCHANGED <<managerVars, request, result, errors, ghostVars>>
        /\ request.handler # "passthrough" /\ pc \in {"answered", "picked"}
    BY DEF Solana01Answered, Solana01Picked
  <1>2. CASE Solana01Answered
    BY <1>1, <1>2, SearchStepSearch DEF Solana01Answered
  <1>3. CASE Solana01Picked
    <2>1. "any" # "public"
      OBVIOUS
    <2> QED
      BY <1>1, <1>3, <2>1, SearchStepSearch DEF Solana01Picked, NothingLeft
  <1> QED
    BY <1>2, <1>3

LEMMA RawSearch ==
  IInv /\ SearchInv /\ (RawAnswered \/ RawPicked) => SearchInv'
  <1> SUFFICES ASSUME IInv, SearchInv, RawAnswered \/ RawPicked
               PROVE  SearchInv'
    OBVIOUS
  <1>1. /\ UNCHANGED <<managerVars, request, result, errors, ghostVars>>
        /\ request.handler # "passthrough" /\ request.handler # "solana_01"
        /\ pc \in {"answered", "picked"}
    BY DEF RawAnswered, RawPicked
  <1>2. CASE RawAnswered
    BY <1>1, <1>2, SearchStepSearch DEF RawAnswered, AnyWhileThrottled
  <1>3. CASE RawPicked
    <2>1. "any" # "public"
      OBVIOUS
    <2> QED
      BY <1>1, <1>3, <2>1, SearchStepSearch
      DEF RawPicked, NothingLeft, AnyWhileThrottled
  <1> QED
    BY <1>2, <1>3

-----------------------------------------------------------------------------
(* Calls                                                                   *)

LEMMA SendSearch == IInv /\ SearchInv /\ Send => SearchInv'
  <1> SUFFICES ASSUME IInv, SearchInv, Send PROVE SearchInv'
    OBVIOUS
  <1>1. /\ UNCHANGED <<info, request, snapshot, unfit, sch, cl, order>>
        /\ pc = "call" /\ pc' \in {"answered", "wait"}
        /\ tried' = Append(tried, cl)
        /\ away' \in {away, AwayNow}
    <2>1. UNCHANGED <<info, sch>>
      BY DEF Send, managerVars, schedulerVars
    <2>2. AwayNow' = AwayNow
      BY <2>1 DEF AwayNow, Out, LacksBlock
    <2> QED
      BY <2>2 DEF Send, managerVars, schedulerVars
  <1>2. Range(tried') = Range(tried) \cup {cl}
    <2>1. tried \in Seq(Nodes) /\ cl \in Nodes
      BY <1>1 DEF IInv, TypeOK, SchedulerTypeOK, ControlInv
    <2>2. cl \notin Range(tried) /\ IsInjective(tried)
      BY <1>1 DEF IInv, ControlInv, TriedInv, Found
    <2> QED
      BY <1>1, <2>1, <2>2, AppendRange
  <1>3. AwayNow' = AwayNow /\ UnfitNow' = UnfitNow
    BY <1>1, StillNow
  <1>4. AwayInv' /\ BlockInv' /\ UnfitInv' /\ SideInv'
    BY <1>1, <1>3 DEF SearchInv, AwayInv, BlockInv, UnfitInv, SideInv, Found
  <1>5. LeftInv'
    BY <1>1, <1>2 DEF SearchInv, LeftInv, InHand, Found
  <1>6. PassInv'
    BY <1>1, <1>2 DEF SearchInv, PassInv
  <1>7. ScanInv' /\ FailInv' /\ (snapshot \subseteq Nodes)'
    BY <1>1 DEF SearchInv, ScanInv, FailInv, GivenUp
  <1> QED
    BY <1>4, <1>5, <1>6, <1>7 DEF SearchInv

LEMMA AnsweredSearch ==
  ASSUME IInv, SearchInv, NEW r, Answered(r)
  PROVE  SearchInv'
  <1>1. /\ UNCHANGED <<info, request, snapshot, unfit, tried, sch, cl, order>>
        /\ pc = "wait" /\ pc' = "answered"
    BY DEF Answered, managerVars, schedulerVars
  <1>2. AwayNow' = AwayNow /\ UnfitNow' = UnfitNow
    BY <1>1, StillNow
  <1>3. away' = AwayNow
    BY <1>2 DEF Answered
  <1>4. AwayInv' /\ BlockInv' /\ UnfitInv' /\ SideInv'
    BY <1>1, <1>2, <1>3
    DEF SearchInv, AwayInv, BlockInv, UnfitInv, SideInv, Found
  <1>5. LeftInv' /\ PassInv'
    BY <1>1 DEF SearchInv, LeftInv, InHand, Found, PassInv
  <1>6. ScanInv' /\ FailInv' /\ (snapshot \subseteq Nodes)'
    BY <1>1 DEF SearchInv, ScanInv, FailInv, GivenUp
  <1> QED
    BY <1>4, <1>5, <1>6 DEF SearchInv

-----------------------------------------------------------------------------
(* The list of a passthrough request                                       *)

(* Sorting loses no node: the list is finite, so a rearrangement of it     *)
(* that uses no place twice uses them all.                                 *)
LEMMA SortedKeepsAll ==
  ASSUME order \in Seq(Nodes), NEW s \in SortedOrders
  PROVE  Range(order) \subseteq Range(s)
  <1> DEFINE D == DOMAIN order
  <1>1. PICK p \in Injection(D, D) : s = [i \in D |-> order[p[i]]]
    BY DEF SortedOrders
  <1>2. IsFiniteSet(D)
    <2>1. D = 1 .. Len(order) /\ Len(order) \in Nat /\ 1 \in Int
      OBVIOUS
    <2> HIDE DEF D
    <2> QED
      BY <2>1, FS_Interval
  <1> HIDE DEF D
  <1>3. p \in Surjection(D, D)
    BY <1>1, <1>2, FS_Injection
  <1>4. SUFFICES ASSUME NEW j \in D PROVE order[j] \in Range(s)
    BY DEF Range, D
  <1>5. PICK i \in D : p[i] = j
    BY <1>3 DEF Surjection
  <1>6. DOMAIN s = D /\ s[i] = order[j]
    BY <1>1, <1>5
  <1> QED
    BY <1>5, <1>6 DEF Range

LEMMA ListNodeSearch ==
  ASSUME IInv, SearchInv, ListNode, UNCHANGED <<managerVars, handlerVars, ghostVars>>
  PROVE  SearchInv'
  <1> DEFINE n == sch.clients[pick.num]
  <1>1. /\ UNCHANGED <<info, request, phase, result, tried, snapshot, unfit, away, sch, cl>>
        /\ pc = "list" /\ pc' = "list" /\ request.handler = "passthrough"
        /\ pick' = [pick EXCEPT !.num = @ + 1]
        /\ pick.num <= Len(sch.clients)
        /\ order' = IF ~ Out(n) /\ n \notin PublicNodes /\ ~ LacksBlock(n)
                    THEN Append(order, n) ELSE order
    BY DEF ListNode, Candidate, managerVars, handlerVars, ghostVars, IInv, ControlInv
  <1>2. /\ sch.clients \in Seq(Nodes) /\ order \in Seq(Nodes)
        /\ IsInjective(order) /\ pick \in PickRecord
        /\ \A j \in DOMAIN sch.clients :
             j >= pick.num => sch.clients[j] \notin Range(order)
    BY <1>1 DEF IInv, OrderInv, TypeOK, SchedulerTypeOK
  <1>3. /\ pick.num \in Nat \ {0} /\ pick.num \in DOMAIN sch.clients
        /\ n \in Nodes /\ n \notin Range(order)
        /\ pick'.num = pick.num + 1
        /\ DOMAIN sch.clients \subseteq Nat
    BY <1>1, <1>2 DEF PickRecord
  <1> HIDE DEF n
  <1>4. Range(Append(order, n)) = Range(order) \cup {n}
    BY <1>2, <1>3, AppendRange
  <1>5. Range(order) \subseteq Range(order') /\ n \in Range(order') \cup unfit \cup PublicNodes
    <2>1. ~ LacksBlock(n)
      <3>1. sch.min_block_no = -1 /\ ~ (-1 > -1)
        BY <1>1 DEF SearchInv, BlockInv
      <3> QED
        BY <3>1 DEF LacksBlock
    <2>2. Out(n) => n \in unfit
      BY <1>1, <1>3 DEF SearchInv, UnfitInv, UnfitNow
    <2> QED
      BY <1>1, <1>4, <2>1, <2>2
  <1>6. PassInv'
    <2>1. ASSUME NEW i \in DOMAIN sch.clients, i < pick.num + 1
          PROVE  sch.clients[i] \in Range(order') \cup unfit \cup PublicNodes
      <3>1. i < pick.num \/ i = pick.num
        BY <1>3, <2>1
      <3> QED
        BY <1>1, <1>5, <3>1 DEF SearchInv, PassInv, n
    <2> QED
      BY <1>1, <1>3, <2>1 DEF SearchInv, PassInv
  <1>7. AwayNow' = AwayNow /\ UnfitNow' = UnfitNow
    BY <1>1, StillNow
  <1>8. AwayInv' /\ BlockInv' /\ UnfitInv' /\ SideInv' /\ LeftInv' /\ ScanInv' /\ FailInv'
    BY <1>1, <1>7
    DEF SearchInv, AwayInv, BlockInv, UnfitInv, SideInv, LeftInv, ScanInv, FailInv, GivenUp
  <1> QED
    BY <1>1, <1>6, <1>8 DEF SearchInv

LEMMA ReadScoreSearch ==
  ASSUME IInv, SearchInv, ReadScore, UNCHANGED <<managerVars, handlerVars, ghostVars>>
  PROVE  SearchInv'
  <1>1. /\ UNCHANGED <<info, request, phase, result, tried, snapshot, unfit, away,
                       sch, cl, pick, order, pc>>
    BY DEF ReadScore, managerVars, handlerVars, ghostVars
  <1>2. AwayNow' = AwayNow /\ UnfitNow' = UnfitNow
    BY <1>1, StillNow
  <1> QED
    BY <1>1, <1>2
    DEF SearchInv, AwayInv, BlockInv, UnfitInv, SideInv, LeftInv, InHand, Found,
        ScanInv, Useless, WrongSide, PassInv, FailInv, GivenUp, Exhausted, Eligible

(* What a passthrough request is given up after.                           *)
LEMMA PassExhausted ==
  ASSUME IInv, request.handler = "passthrough",
         snapshot \ PublicNodes \subseteq Range(tried) \cup unfit
  PROVE  Exhausted
  <1>1. request.forced = {}
    BY DEF IInv, ControlInv
  <1>2. {} # {"public"} /\ {} # {"private"}
    OBVIOUS
  <1> QED
    BY <1>1, <1>2 DEF Exhausted, Eligible

LEMMA SortSearch ==
  ASSUME IInv, SearchInv, Sort, UNCHANGED <<managerVars, handlerVars, ghostVars>>
  PROVE  SearchInv'
  <1>1. /\ UNCHANGED <<info, request, phase, result, tried, snapshot, unfit, away, sch, cl>>
        /\ pc = "list" /\ pc' = IF order = <<>> THEN "failed" ELSE "forward"
        /\ request.handler = "passthrough"
        /\ pick.num > Len(sch.clients) /\ order' \in SortedOrders
    BY DEF Sort, managerVars, handlerVars, ghostVars, IInv, ControlInv
  <1>2. /\ sch.clients \in Seq(Nodes) /\ order \in Seq(Nodes) /\ pick.num \in Nat
    BY <1>1 DEF IInv, OrderInv, TypeOK, SchedulerTypeOK, PickRecord
  <1>3. Range(order) \subseteq Range(order')
    BY <1>1, <1>2, SortedKeepsAll
  <1>4. snapshot \ PublicNodes \subseteq Range(order) \cup unfit
    <2>1. \A i \in DOMAIN sch.clients : i < pick.num
      BY <1>1, <1>2
    <2> QED
      BY <1>1, <2>1 DEF SearchInv, PassInv, Range
  <1>5. PassInv'
    BY <1>1, <1>3, <1>4 DEF PassInv
  <1>6. FailInv'
    <2>1. CASE order = <<>>
      <3>1. Range(order) = {}
        BY <2>1 DEF Range
      <3>2. Exhausted
        BY <1>1, <1>4, <3>1, PassExhausted
      <3> QED
        BY <1>1, <3>2 DEF FailInv, Exhausted, Eligible
    <2>2. CASE order # <<>>
      BY <1>1, <2>2 DEF FailInv, GivenUp
    <2> QED
      BY <2>1, <2>2
  <1>7. AwayNow' = AwayNow /\ UnfitNow' = UnfitNow
    BY <1>1, StillNow
  <1>8. AwayInv' /\ BlockInv' /\ UnfitInv' /\ SideInv' /\ LeftInv' /\ ScanInv'
    BY <1>1, <1>7
    DEF SearchInv, AwayInv, BlockInv, UnfitInv, SideInv, LeftInv, ScanInv
  <1> QED
    BY <1>1, <1>5, <1>6, <1>8 DEF SearchInv

LEMMA ForwardSearch == IInv /\ SearchInv /\ Forward => SearchInv'
  <1> SUFFICES ASSUME IInv, SearchInv, Forward PROVE SearchInv'
    OBVIOUS
  <1>1. /\ UNCHANGED <<info, request, phase, result, tried, snapshot, unfit, away, sch>>
        /\ pc = "forward" /\ request.handler = "passthrough"
        /\ order \in Seq(Nodes) /\ IsInjective(order)
    BY DEF Forward, End, schedulerVars, managerVars, handlerVars, ghostVars,
           IInv, ControlInv, OrderInv, TypeOK, SchedulerTypeOK
  <1>2. AwayNow' = AwayNow /\ UnfitNow' = UnfitNow
    BY <1>1, StillNow
  <1>3. snapshot \ PublicNodes \subseteq Range(order) \cup Range(tried) \cup unfit
    BY <1>1 DEF SearchInv, PassInv
  <1>4. pc' \in {"failed", "call"}
    BY DEF Forward, End
  <1>5. AwayInv' /\ BlockInv' /\ UnfitInv' /\ SideInv' /\ LeftInv' /\ ScanInv'
    BY <1>1, <1>2, <1>4
    DEF SearchInv, AwayInv, BlockInv, UnfitInv, SideInv, LeftInv, ScanInv
  <1>6. CASE order = <<>>
    <2>1. pc' = "failed" /\ Range(order) = {}
      BY <1>6 DEF Forward, End, Range
    <2>2. Exhausted
      BY <1>1, <1>3, <2>1, PassExhausted
    <2>3. FailInv' /\ PassInv'
      BY <1>1, <2>1, <2>2 DEF FailInv, Exhausted, Eligible, PassInv
    <2> QED
      BY <1>1, <1>5, <2>3 DEF SearchInv
  <1>7. CASE order # <<>>
    <2>1. pc' = "call" /\ cl' = Head(order) /\ order' = Tail(order)
      BY <1>7 DEF Forward
    <2>2. Range(order) \subseteq Range(order') \cup {cl'}
      <3>1. /\ DOMAIN order = 1 .. Len(order) /\ Len(order) \in Nat
            /\ Head(order) = order[1]
            /\ DOMAIN Tail(order) = 1 .. Len(order) - 1
            /\ \A i \in 1 .. Len(order) - 1 : Tail(order)[i] = order[i + 1]
        BY <1>1, <1>7
      <3>2. ASSUME NEW i \in DOMAIN order, i # 1
            PROVE  order[i] \in Range(Tail(order))
        <4>1. i - 1 \in DOMAIN Tail(order) /\ (i - 1) + 1 = i
          BY <3>1, <3>2
        <4>2. Tail(order)[i - 1] = order[i]
          BY <3>1, <4>1
        <4> QED
          BY <4>1, <4>2 DEF Range
      <3> QED
        BY <2>1, <3>1, <3>2 DEF Range
    <2>3. PassInv' /\ FailInv'
      BY <1>1, <1>3, <2>1, <2>2 DEF PassInv, FailInv, GivenUp
    <2> QED
      BY <1>1, <1>5, <2>3 DEF SearchInv
  <1> QED
    BY <1>6, <1>7

LEMMA PassthroughAnsweredSearch ==
  IInv /\ SearchInv /\ PassthroughAnswered => SearchInv'
  <1> SUFFICES ASSUME IInv, SearchInv, PassthroughAnswered PROVE SearchInv'
    OBVIOUS
  <1>1. /\ UNCHANGED <<info, request, phase, result, tried, snapshot, unfit, away,
                       sch, cl, order>>
        /\ pc = "answered" /\ pc' \in {"done", "failed", "forward"}
        /\ request.handler = "passthrough"
        /\ pc' = "failed" => result = "R_ERROR"
    BY DEF PassthroughAnswered, End, schedulerVars, managerVars, ghostVars
  <1>2. AwayNow' = AwayNow /\ UnfitNow' = UnfitNow
    BY <1>1, StillNow
  <1>3. AwayInv' /\ BlockInv' /\ UnfitInv' /\ SideInv' /\ LeftInv' /\ ScanInv'
    BY <1>1, <1>2
    DEF SearchInv, AwayInv, BlockInv, UnfitInv, SideInv, LeftInv, ScanInv
  <1>4. PassInv' /\ FailInv'
    BY <1>1 DEF SearchInv, PassInv, FailInv, GivenUp
  <1> QED
    BY <1>1, <1>3, <1>4 DEF SearchInv

-----------------------------------------------------------------------------
(* Requests begin and end, and nodes change meanwhile                      *)

LEMMA BeginSearch ==
  ASSUME IInv, SearchInv, NEW r \in Requests, Begin(r)
  PROVE  SearchInv'
  <1>1. /\ UNCHANGED <<info, pick, cl, order>>
        /\ pc = "idle" /\ pc' \in {"list", "pick"} /\ request' = r
        /\ MakeScheduler(r.forced)
        /\ snapshot' = Range(clients)
        /\ unfit' = UnfitNow' /\ away' = AwayNow'
        /\ pc' = "list" <=> r.handler = "passthrough"
    BY DEF Begin, managerVars
  <1>2. /\ clients \in Seq(Nodes) /\ pick.num = 1 /\ pick.min = -1
        /\ pick.min_pos = 0 /\ pick.lift = FALSE
    BY <1>1 DEF IInv, TypeOK, ManagerTypeOK, NodeListTypeOK, ControlInv, NoPick
  <1>3. /\ sch'.clients = clients /\ sch'.min_block_no = -1
        /\ sch'.force_public = (r.forced = {"public"})
        /\ sch'.force_private = (r.forced = {"private"})
    BY <1>1 DEF MakeScheduler
  <1>4. AwayInv' /\ BlockInv' /\ UnfitInv' /\ SideInv'
    BY <1>1, <1>2, <1>3 DEF AwayInv, BlockInv, UnfitInv, SideInv, Found
  <1>5. LeftInv' /\ FailInv'
    BY <1>1, <1>3 DEF LeftInv, FailInv, GivenUp
  <1>6. \A i \in DOMAIN clients : ~ (i < 1)
    BY <1>2
  <1>7. ScanInv' /\ PassInv'
    BY <1>1, <1>2, <1>3, <1>6 DEF ScanInv, PassInv
  <1>8. (snapshot \subseteq Nodes)'
    BY <1>1, <1>2, RangeOfSeq
  <1> QED
    BY <1>4, <1>5, <1>7, <1>8 DEF SearchInv

LEMMA FinishSearch ==
  ASSUME Finish
  PROVE  SearchInv'
  <1>1. /\ pc' = "idle" /\ request' = NoRequest /\ sch' = NoScheduler
        /\ snapshot' = {} /\ away' = {}
    BY DEF Finish
  <1>2. NoRequest.handler = "raw" /\ NoScheduler.min_block_no = -1
    BY DEF NoRequest, NoScheduler
  <1> QED
    BY <1>1, <1>2
    DEF SearchInv, AwayInv, BlockInv, UnfitInv, SideInv, LeftInv, ScanInv, PassInv,
        FailInv, GivenUp, Found

(* Nodes change: more of them have been unfit, fewer are away since.       *)
LEMMA ManagerStepSearch ==
  ASSUME IInv, SearchInv, ManagerStep
  PROVE  SearchInv'
  <1>1. /\ UNCHANGED <<pc, sch, pick, cl, order, request, phase, result, tried,
                       snapshot>>
        /\ unfit' = IF pc = "idle" THEN unfit ELSE unfit \cup UnfitNow'
        /\ away' = away \cap AwayNow'
    BY DEF ManagerStep, schedulerVars, handlerVars
  <1>2. unfit \subseteq unfit'
    BY <1>1
  <1>3. AwayInv' /\ BlockInv' /\ UnfitInv' /\ SideInv'
    BY <1>1 DEF SearchInv, AwayInv, BlockInv, UnfitInv, SideInv, Found
  <1>4. LeftInv' /\ PassInv'
    BY <1>1, <1>2 DEF SearchInv, LeftInv, InHand, Found, PassInv
  <1>5. \A i \in DOMAIN sch.clients : Useless(i) => Useless(i)'
    BY <1>1, <1>2 DEF Useless, WrongSide
  <1>6. ScanInv'
    BY <1>1, <1>5 DEF SearchInv, ScanInv
  <1>7. FailInv' /\ (snapshot \subseteq Nodes)'
    BY <1>1, <1>2 DEF SearchInv, FailInv, GivenUp, Exhausted, Eligible
  <1> QED
    BY <1>3, <1>4, <1>6, <1>7 DEF SearchInv

-----------------------------------------------------------------------------
(* The specification                                                       *)

(* There is no request at first.                                           *)
LEMMA InitSearch == Init => SearchInv
  BY DEF Init, RequestInit, SchedulerInit, NoRequest, NoScheduler, SearchInv, AwayInv,
         BlockInv, UnfitInv, SideInv, LeftInv, ScanInv, PassInv, FailInv, GivenUp, Found

(* Every step keeps the invariant.                                         *)
LEMMA NextSearch == IInv /\ SearchInv /\ [Next]_vars => SearchInv'
  <1> SUFFICES ASSUME IInv, SearchInv, [Next]_vars PROVE SearchInv'
    OBVIOUS
  <1>1. ASSUME NEW r \in Requests, Begin(r) PROVE SearchInv'
    BY <1>1, BeginSearch
  <1>2. CASE RequestStep
    <2>1. CASE PickStep /\ UNCHANGED <<managerVars, handlerVars, ghostVars>>
      BY <2>1, DropNodeSearch, KeepNodeSearch, SkipNodeSearch, PickDoneSearch DEF PickStep
    <2>2. CASE ListStep /\ UNCHANGED <<managerVars, handlerVars, ghostVars>>
      BY <2>2, ListNodeSearch, ReadScoreSearch, SortSearch DEF ListStep
    <2>3. CASE Send
      BY <2>3, SendSearch
    <2>4. ASSUME NEW r \in {"R_OK", "R_ERROR", "R_THROTTLED"}, Answered(r)
          PROVE  SearchInv'
      BY <2>4, AnsweredSearch
    <2>5. CASE FirstPicked \/ Refuse
      BY <2>5, FirstPickedSearch
    <2>6. CASE Accept
      BY <2>6, AcceptSearch
    <2>7. CASE Solana01Answered \/ Solana01Picked
      BY <2>7, Solana01Search
    <2>8. CASE RawAnswered \/ RawPicked
      BY <2>8, RawSearch
    <2>9. CASE Forward \/ PassthroughAnswered
      BY <2>9, ForwardSearch, PassthroughAnsweredSearch
    <2> QED
      BY <1>2, <2>1, <2>2, <2>3, <2>4, <2>5, <2>6, <2>7, <2>8, <2>9
      DEF RequestStep
  <1>3. CASE Finish
    BY <1>3, FinishSearch
  <1>4. CASE ManagerStep
    BY <1>4, ManagerStepSearch
  <1>5. CASE UNCHANGED vars
    <2>1. UNCHANGED <<info, request, phase, result, tried, snapshot, unfit, away,
                      sch, cl, pick, order, pc>>
      BY <1>5 DEF vars, managerVars, schedulerVars, handlerVars, ghostVars
    <2>2. AwayNow' = AwayNow /\ UnfitNow' = UnfitNow
      BY <2>1, StillNow
    <2> QED
      BY <2>1, <2>2
      DEF SearchInv, AwayInv, BlockInv, UnfitInv, SideInv, LeftInv, InHand, Found,
          ScanInv, Useless, WrongSide, PassInv, FailInv, GivenUp, Exhausted, Eligible
  <1> QED
    BY <1>1, <1>2, <1>3, <1>4, <1>5 DEF Next

(* What the searches found out holds of every behaviour, whatever the      *)
(* nodes, their number, the configuration and the requests.                *)
THEOREM SearchInvariant == Spec => [](IInv /\ SearchInv)
  <1>1. Init => IInv /\ SearchInv
    BY InitInv, InitSearch
  <1>2. IInv /\ SearchInv /\ [Next]_vars => (IInv /\ SearchInv)'
    BY NextInv, NextSearch
  <1> QED
    BY <1>1, <1>2, PTL DEF Spec

(* getBlock and the other functions of handle_solana_01.go give up only    *)
(* when every node they could use was asked or was unfit at some time,     *)
(* however the nodes change while the handler searches (lines 61-75).      *)
THEOREM FailoverComplete == Spec => []FailoverExhaustive
  <1>1. IInv /\ SearchInv => FailoverExhaustive
    BY DEF SearchInv, FailInv, GivenUp, FailoverExhaustive
  <1> QED
    BY <1>1, SearchInvariant, PTL

(* No handler gives up on R_THROTTLED while another node could have served *)
(* the request (solana_raw.go:79, public_passthrough_proxy.go:57-70).      *)
THEOREM ThrottledRerouted == Spec => []ThrottledIsRerouted
  <1>1. IInv /\ SearchInv => ThrottledIsRerouted
    BY DEF SearchInv, FailInv, GivenUp, ThrottledIsRerouted
  <1> QED
    BY <1>1, SearchInvariant, PTL

(* No request is sent to a node that was unfit ever since the last answer: *)
(* every retry looks at the nodes anew (scheduler_pick.go:15-31).          *)
THEOREM AwayAvoided == Spec => StaysAway
  <1>1. IInv /\ SearchInv => (Send /\ request.handler # "passthrough" => cl \notin away)
    BY DEF SearchInv, AwayInv, Found, Send, IInv, ControlInv
  <1> QED
    BY <1>1, SearchInvariant, PTL DEF Spec, StaysAway
=============================================================================
