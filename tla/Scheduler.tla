----------------------------- MODULE Scheduler -----------------------------
(***************************************************************************)
(* A scheduler (scheduler.go, scheduler_pick.go) belongs to one request. It*)
(* copies the list of nodes when it is made and crosses a node out when it *)
(* has been handed to the request or was found out of order.               *)
(*                                                                         *)
(* Every look at a node (GetInfo) takes that node's lock only, so one step *)
(* looks at one node, and nodes change between the looks.                  *)
(***************************************************************************)
EXTENDS Manager

CONSTANT Nil   \* no node: a crossed out entry, or nothing found

ASSUME NilAssumption == Nil \notin Nodes

VARIABLES
  pc,      \* what the request is doing
  sch,     \* its scheduler
  pick,    \* the pick in progress: num, min, min_pos, and lift when
           \* force_public holds for this pick only
  cl,      \* the node found
  order,   \* GetAll: the nodes listed, later those still to be asked
  scores   \* GetAllSorted: their scores

schedulerVars == <<sch, pick, cl, order, scores>>

NoScheduler ==
  [clients |-> <<>>, force_public |-> FALSE, force_private |-> FALSE,
   min_block_no |-> -1]
NoPick == [num |-> 1, min |-> -1, min_pos |-> 0, lift |-> FALSE]

SchedulerRecord ==
  [clients : Seq(Nodes \cup {Nil}), force_public : BOOLEAN,
   force_private : BOOLEAN, min_block_no : Int]
PickRecord == [num : Nat \ {0}, min : Int, min_pos : Nat, lift : BOOLEAN]

SchedulerTypeOK ==
  /\ sch \in SchedulerRecord
  /\ pick \in PickRecord
  /\ cl \in Nodes \cup {Nil}
  /\ order \in Seq(Nodes)
  /\ scores \in Seq(Int)

SchedulerInit ==
  /\ sch = NoScheduler
  /\ pick = NoPick
  /\ cl = Nil
  /\ order = <<>>
  /\ scores = <<>>

(* MakeScheduler, then ForcePublic and ForcePrivate as the request asks:   *)
(* the two cancel each other.                                              *)
MakeScheduler(forced) ==
  sch' = [clients |-> clients,
          force_public |-> forced = {"public"},
          force_private |-> forced = {"private"},
          min_block_no |-> -1]

(* The block the request wants is too old for the node.                    *)
LacksBlock(n) == sch.min_block_no > -1 /\ sch.min_block_no <= info[n].first

WrongSide(n) ==
  \/ n \in PublicNodes /\ sch.force_private
  \/ n \notin PublicNodes /\ sch.force_public

-----------------------------------------------------------------------------
(* GetAnyClient and GetPublicClient, up to the first look at a node        *)

GetAnyClient ==
  /\ pick' = NoPick
  /\ pc' = "pick"
  /\ UNCHANGED <<sch, cl, order, scores>>

(* A bug the properties must notice: force_public is never lifted.         *)
GetPublicClientSticks ==
  LET lift == ~ sch.force_public /\ ~ sch.force_private
  IN  /\ sch' = [sch EXCEPT !.force_public = @ \/ lift]
      /\ pick' = NoPick
      /\ pc' = "pick"
      /\ UNCHANGED <<cl, order, scores>>

(* A bug the properties must notice: the side asked for is overridden.     *)
GetPublicClientOverrides ==
  /\ sch' = [sch EXCEPT !.force_public = TRUE, !.force_private = FALSE]
  /\ pick' = [NoPick EXCEPT !.lift = TRUE]
  /\ pc' = "pick"
  /\ UNCHANGED <<cl, order, scores>>

(* Public nodes only, unless the request has forced a side itself.         *)
GetPublicClient ==
  LET lift == ~ sch.force_public /\ ~ sch.force_private
  IN  /\ sch' = [sch EXCEPT !.force_public = @ \/ lift]
      /\ pick' = [NoPick EXCEPT !.lift = lift]
      /\ pc' = "pick"
      /\ UNCHANGED <<cl, order, scores>>

-----------------------------------------------------------------------------
(* _pick_next looks at one node after another                              *)

Looking == pc = "pick" /\ pick.num <= Len(sch.clients)
Candidate == sch.clients[pick.num]

(* A node that is to be left alone is crossed out for good.                *)
DropNode ==
  /\ Looking
  /\ Candidate # Nil
  /\ Out(Candidate)
  /\ sch' = [sch EXCEPT !.clients[pick.num] = Nil]
  /\ pick' = [pick EXCEPT !.num = @ + 1]
  /\ UNCHANGED <<pc, cl, order, scores>>

(* A bug the properties must notice: min_block_no is not looked at.        *)
SuitableAnyBlock(n) == ~ Out(n) /\ ~ WrongSide(n)

Suitable(n) == ~ Out(n) /\ ~ WrongSide(n) /\ ~ LacksBlock(n)

(* The lowest score so far, or the first: min = -1 stands for none.        *)
Lowest(n) == pick.min = -1 \/ info[n].score < pick.min

KeepNode ==
  /\ Looking
  /\ Candidate # Nil
  /\ Suitable(Candidate)
  /\ Lowest(Candidate)
  /\ pick' = [pick EXCEPT !.num = @ + 1, !.min = info[Candidate].score,
                          !.min_pos = pick.num]
  /\ UNCHANGED <<pc, sch, cl, order, scores>>

SkipNode ==
  /\ Looking
  /\ Candidate # Nil =>
       ~ Out(Candidate) /\ ~ (Suitable(Candidate) /\ Lowest(Candidate))
  /\ pick' = [pick EXCEPT !.num = @ + 1]
  /\ UNCHANGED <<pc, sch, cl, order, scores>>

(* A bug the properties must notice: the node is not crossed out.          *)
PickDoneKeepsNode ==
  /\ pc = "pick"
  /\ pick.num > Len(sch.clients)
  /\ pc' = "picked"
  /\ cl' = IF pick.min_pos = 0 THEN Nil ELSE sch.clients[pick.min_pos]
  /\ sch' = [sch EXCEPT !.force_public = @ /\ ~ pick.lift]
  /\ pick' = NoPick
  /\ UNCHANGED <<order, scores>>

(* The node is handed out and crossed out.                                 *)
PickDone ==
  /\ pc = "pick"
  /\ pick.num > Len(sch.clients)
  /\ pc' = "picked"
  /\ IF pick.min_pos = 0
     THEN /\ cl' = Nil
          /\ sch' = [sch EXCEPT !.force_public = @ /\ ~ pick.lift]
     ELSE /\ cl' = sch.clients[pick.min_pos]
          /\ sch' = [sch EXCEPT !.force_public = @ /\ ~ pick.lift,
                                !.clients[pick.min_pos] = Nil]
  /\ pick' = NoPick
  /\ UNCHANGED <<order, scores>>

PickStep == DropNode \/ KeepNode \/ SkipNode \/ PickDone

-----------------------------------------------------------------------------
(* GetAllSorted(false, false): list the private nodes in order, look at    *)
(* each once more for its score, sort                                      *)

ListNode ==
  /\ pc = "list"
  /\ pick.num <= Len(sch.clients)
  /\ order' = IF ~ Out(Candidate) /\ Candidate \notin PublicNodes
                 /\ ~ LacksBlock(Candidate)
              THEN Append(order, Candidate) ELSE order
  /\ pick' = [pick EXCEPT !.num = @ + 1]
  /\ UNCHANGED <<pc, sch, cl, scores>>

ReadScore ==
  /\ pc = "list"
  /\ pick.num > Len(sch.clients)
  /\ Len(scores) < Len(order)
  /\ scores' = Append(scores, info[order[Len(scores) + 1]].score)
  /\ UNCHANGED <<pc, sch, pick, cl, order>>

(* sort.Slice leaves nodes of equal score in any order.                    *)
SortedOrders ==
  {[i \in DOMAIN order |-> order[p[i]]] :
     p \in {q \in Injection(DOMAIN order, DOMAIN order) :
              \A i, j \in DOMAIN order :
                i < j => scores[q[i]] <= scores[q[j]]}}

Sort ==
  /\ pc = "list"
  /\ pick.num > Len(sch.clients)
  /\ Len(scores) = Len(order)
  /\ order' \in SortedOrders
  /\ scores' = <<>>
  /\ pick' = NoPick
  /\ pc' = IF order = <<>> THEN "failed" ELSE "forward"
  /\ UNCHANGED <<sch, cl>>

ListStep == ListNode \/ ReadScore \/ Sort
=============================================================================
