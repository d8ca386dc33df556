------------------------------ MODULE Routing ------------------------------
(***************************************************************************)
(* A user's request on its way through the nodes. Three handlers route     *)
(* requests, each by its own rules:                                        *)
(*                                                                         *)
(*   "solana_01"    getBlock, getTransaction, getBalance, getTokenSupply   *)
(*                  (handle_solana_01.go): any node first, then public     *)
(*                  nodes, then any other, until one answers;              *)
(*   "raw"          solanaRaw (solana_raw.go): any node, then one public   *)
(*                  node, then others only while nodes are throttled;      *)
(*   "passthrough"  plain RPC calls (public_passthrough_proxy.go): the     *)
(*                  private nodes by score, until two of them failed.      *)
(*                                                                         *)
(* Requests share nothing but the nodes and the manager's list, and those  *)
(* change at any moment, so one request at a time is enough.               *)
(***************************************************************************)
EXTENDS Scheduler

CONSTANT Requests   \* [handler, forced, block]; block -1: no particular block

ASSUME RequestsAssumption ==
  /\ Requests \subseteq [handler : {"solana_01", "raw", "passthrough"},
                         forced : SUBSET {"public", "private"}, block : Int]
  /\ \A r \in Requests : r.handler = "passthrough" => r.forced = {}

VARIABLES
  request,    \* the request being routed
  phase,      \* the search in progress: "first", "public" or "any"
  result,     \* R_OK, R_ERROR or R_THROTTLED of the last call
  errors,     \* passthrough: calls that returned R_ERROR
  tried,      \* ghost: the nodes called, in order
  snapshot,   \* ghost: the nodes the scheduler started with
  unfit,      \* ghost: nodes that were once unfit during the request
  away        \* ghost: nodes unfit ever since the last answer

handlerVars == <<request, phase, result, errors>>
ghostVars == <<tried, snapshot, unfit, away>>
vars == <<managerVars, pc, schedulerVars, handlerVars, ghostVars>>

NoRequest == [handler |-> "raw", forced |-> {}, block |-> -1]

TypeOK ==
  /\ ManagerTypeOK
  /\ SchedulerTypeOK
  /\ pc \in {"idle", "pick", "picked", "accept", "call", "wait", "answered",
             "list", "forward", "done", "failed", "refused"}
  /\ request \in Requests \cup {NoRequest}
  /\ phase \in {"first", "public", "any"}
  /\ result \in {"R_OK", "R_ERROR", "R_THROTTLED"}
  /\ errors \in 0 .. 2
  /\ tried \in Seq(Nodes)

(* No node of that state may serve the request now.                        *)
UnfitNow == {n \in Nodes : \/ Out(n)
                           \/ request.block > -1 /\ request.block <= info[n].first}
AwayNow == {n \in Nodes : Out(n) \/ LacksBlock(n)}

RequestInit ==
  /\ pc = "idle"
  /\ SchedulerInit
  /\ request = NoRequest
  /\ phase = "first"
  /\ result = "R_OK"
  /\ errors = 0
  /\ tried = <<>>
  /\ snapshot = {}
  /\ unfit = {}
  /\ away = {}

Init == ManagerInit /\ RequestInit

-----------------------------------------------------------------------------
(* Calls                                                                   *)

(* A node answers R_THROTTLED at once when it is throttled by now.         *)
Send ==
  /\ pc = "call"
  /\ tried' = Append(tried, cl)
  /\ IF "throttled" \in info[cl].flags
     THEN /\ result' = "R_THROTTLED"
          /\ pc' = "answered"
          /\ away' = AwayNow
     ELSE /\ pc' = "wait"
          /\ UNCHANGED <<result, away>>
  /\ UNCHANGED <<managerVars, schedulerVars, request, phase, errors, snapshot,
                 unfit>>

(* R_OK is an answer the handler accepts, R_ERROR any other end of the     *)
(* call, a timeout included. A transaction that a GenesysGo node does not  *)
(* find is asked for again at once, and that may be throttled by now.      *)
Answered(r) ==
  /\ pc = "wait"
  /\ r = "R_THROTTLED" => /\ request.handler = "solana_01"
                          /\ "throttled" \in info[cl].flags
  /\ result' = r
  /\ pc' = "answered"
  /\ away' = AwayNow
  /\ UNCHANGED <<managerVars, schedulerVars, request, phase, errors, tried,
                 snapshot, unfit>>

End(outcome) == pc' = outcome /\ UNCHANGED schedulerVars

-----------------------------------------------------------------------------
(* Begin and end of a request                                              *)

Begin(r) ==
  /\ pc = "idle"
  /\ UNCHANGED <<managerVars, pick, cl, order, scores, phase, result, errors,
                 tried>>
  /\ request' = r
  /\ MakeScheduler(r.forced)
  /\ pc' = IF r.handler = "passthrough" THEN "list" ELSE "pick"
  /\ snapshot' = Range(clients)
  /\ unfit' = UnfitNow'
  /\ away' = AwayNow'

(* The request ends; its scheduler, lists and counters go with it.         *)
Finish ==
  /\ pc \in {"done", "failed", "refused"}
  /\ pc' = "idle"
  /\ sch' = NoScheduler /\ pick' = NoPick /\ cl' = Nil
  /\ order' = <<>> /\ scores' = <<>>
  /\ request' = NoRequest /\ phase' = "first"
  /\ result' = "R_OK" /\ errors' = 0
  /\ tried' = <<>> /\ snapshot' = {} /\ unfit' = {} /\ away' = {}
  /\ UNCHANGED managerVars

(* A parameter is missing or wrong; only found out when there is a node.   *)
Refuse ==
  /\ pc = "accept"
  /\ End("refused")
  /\ UNCHANGED <<managerVars, handlerVars, ghostVars>>

(* getBlock: SetMinBlock, from here on.                                    *)
Accept ==
  /\ pc = "accept"
  /\ pc' = "call"
  /\ sch' = IF request.handler = "solana_01"
            THEN [sch EXCEPT !.min_block_no = request.block] ELSE sch
  /\ UNCHANGED <<managerVars, pick, cl, order, scores, handlerVars, ghostVars>>

(* The first search found a node, or none.                                 *)
FirstPicked ==
  /\ pc = "picked"
  /\ phase = "first"
  /\ End(IF cl = Nil THEN "failed" ELSE "accept")
  /\ UNCHANGED <<managerVars, handlerVars, ghostVars>>

FindNext(search, p) ==
  /\ search
  /\ phase' = p

(* A bug the properties must notice: the search starts over.               *)
NothingLeftSearchesAgain == FindNext(GetAnyClient, "any")

(* if cl == nil { return "can't find appropriate client (2)" }             *)
NothingLeft == End("failed") /\ UNCHANGED phase

-----------------------------------------------------------------------------
(* solana_01: for result != client.R_OK { ... }                            *)

Solana01Answered ==
  /\ pc = "answered"
  /\ request.handler = "solana_01"
  /\ IF result = "R_OK" THEN End("done") /\ UNCHANGED phase
                        ELSE FindNext(GetPublicClient, "public")
  /\ UNCHANGED <<managerVars, request, result, errors, ghostVars>>

Solana01Picked ==
  /\ pc = "picked"
  /\ request.handler = "solana_01"
  /\ \/ cl # Nil /\ phase # "first" /\ End("call") /\ UNCHANGED phase
     \/ cl = Nil /\ phase = "public" /\ FindNext(GetAnyClient, "any")
     \/ cl = Nil /\ phase = "any" /\ NothingLeft
  /\ UNCHANGED <<managerVars, request, result, errors, ghostVars>>

-----------------------------------------------------------------------------
(* raw                                                                     *)

(* A bug the properties must notice: a throttled request is given up.      *)
AnyWhileThrottledGivesUp == End("failed") /\ UNCHANGED phase

(* for result == client.R_THROTTLED { ... }                                *)
AnyWhileThrottled ==
  IF result = "R_THROTTLED" THEN FindNext(GetAnyClient, "any")
                            ELSE End("failed") /\ UNCHANGED phase

RawAnswered ==
  /\ pc = "answered"
  /\ request.handler = "raw"
  /\ CASE result = "R_OK" -> End("done") /\ UNCHANGED phase
       [] result # "R_OK" /\ phase = "first" ->
            FindNext(GetPublicClient, "public")
       [] OTHER -> AnyWhileThrottled
  /\ UNCHANGED <<managerVars, request, result, errors, ghostVars>>

RawPicked ==
  /\ pc = "picked"
  /\ request.handler = "raw"
  /\ \/ cl # Nil /\ phase # "first" /\ End("call") /\ UNCHANGED phase
     \/ cl = Nil /\ phase = "public" /\ AnyWhileThrottled
     \/ cl = Nil /\ phase = "any" /\ NothingLeft
  /\ UNCHANGED <<managerVars, request, result, errors, ghostVars>>

-----------------------------------------------------------------------------
(* passthrough: for _, cl := range clients { ... }                         *)

Forward ==
  /\ pc = "forward"
  /\ IF order = <<>>
     THEN End("failed")
     ELSE /\ cl' = Head(order)
          /\ order' = Tail(order)
          /\ pc' = "call"
          /\ UNCHANGED <<sch, pick, scores>>
  /\ UNCHANGED <<managerVars, handlerVars, ghostVars>>

PassthroughAnswered ==
  /\ pc = "answered"
  /\ request.handler = "passthrough"
  /\ errors' = IF result = "R_ERROR" THEN errors + 1 ELSE errors
  /\ End(CASE result = "R_OK" -> "done"
           [] result = "R_ERROR" /\ errors + 1 >= 2 -> "failed"
           [] OTHER -> "forward")
  /\ UNCHANGED <<managerVars, request, phase, result, ghostVars>>

-----------------------------------------------------------------------------
RequestStep ==
  \/ PickStep /\ UNCHANGED <<managerVars, handlerVars, ghostVars>>
  \/ ListStep /\ UNCHANGED <<managerVars, handlerVars, ghostVars>>
  \/ Send
  \/ \E r \in {"R_OK", "R_ERROR", "R_THROTTLED"} : Answered(r)
  \/ FirstPicked \/ Refuse \/ Accept
  \/ Solana01Answered \/ Solana01Picked
  \/ RawAnswered \/ RawPicked
  \/ Forward \/ PassthroughAnswered

(* The ghosts follow what the nodes go through.                            *)
ManagerStep ==
  /\ ManagerNext
  /\ UNCHANGED <<pc, schedulerVars, handlerVars, tried, snapshot>>
  /\ unfit' = IF pc = "idle" THEN unfit ELSE unfit \cup UnfitNow'
  /\ away' = away \cap AwayNow'

Next ==
  \/ \E r \in Requests : Begin(r)
  \/ RequestStep
  \/ Finish
  \/ ManagerStep

Spec == Init /\ [][Next]_vars

(* Goroutines are scheduled and the HTTP client gives up after 5 seconds.  *)
FairSpec == Spec /\ WF_vars(RequestStep)

-----------------------------------------------------------------------------
(* Properties                                                              *)

(* A request is sent to a node at most once, whichever way nodes are       *)
(* searched for, dropped and changed in between: _pick_next crosses out    *)
(* what it hands out and GetAllSorted lists each node once.                *)
NoNodeTwice == IsInjective(tried)

(* doc/ADVANCED.md:5: a request that forces one side never reaches a node  *)
(* of the other, though GetPublicClient changes force_public for a while.  *)
ForcedSide ==
  /\ request.forced = {"public"} => Range(tried) \subseteq PublicNodes
  /\ request.forced = {"private"} => Range(tried) \cap PublicNodes = {}

(* Nodes the handler would use for the request.                            *)
Eligible ==
  CASE request.forced = {"public"} -> snapshot \cap PublicNodes
    [] request.forced = {"private"} \/ request.handler = "passthrough" ->
         snapshot \ PublicNodes
    [] OTHER -> snapshot

(* Every node was asked or has been unfit at some time.                    *)
Exhausted == Eligible \subseteq Range(tried) \cup unfit

(* README.md:14, "Automatically re-do failed requests on different node":  *)
(* getBlock and the other functions of handle_solana_01.go give up only    *)
(* when no node is left, however the nodes change while it searches.       *)
FailoverExhaustive ==
  pc = "failed" /\ request.handler = "solana_01" => Exhausted

(* README.md:82, "If node is throttled the request will be routed to       *)
(* different node": no handler gives up because a node was throttled while *)
(* another could have served the request.                                  *)
ThrottledIsRerouted ==
  pc = "failed" /\ result = "R_THROTTLED" => Exhausted

(* Nodes are looked at anew before every retry (scheduler_pick.go:15-31):  *)
(* no request goes to a node that has been disabled, throttled, paused or  *)
(* without its block ever since the last answer. A passthrough request     *)
(* walks a list made once (public_passthrough_proxy.go:57) and is excepted.*)
StaysAway ==
  [][Send /\ request.handler # "passthrough" => cl \notin away]_vars

(* Whatever the nodes answer, the search ends: no node is asked over and   *)
(* over (handle_solana_01.go:65, solana_raw.go:79).                        *)
RequestEnds == []<>(pc \in {"idle", "done", "failed", "refused"})

(* README.md:14, of every request, "if they timed-out or returned an       *)
(* error": a failed request has been tried on every node fit for it.       *)
FailedRequestsRedone == pc = "failed" => Exhausted
=============================================================================
