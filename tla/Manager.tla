------------------------------ MODULE Manager ------------------------------
(***************************************************************************)
(* The nodes of the proxy as requests see them: the list changes and so    *)
(* does all the time what a node tells about itself (client.GetInfo); its  *)
(* throttles, its health, the health checker and the heartbeats decide it, *)
(* so here it is arbitrary.                                                *)
(***************************************************************************)
EXTENDS NodeList

CONSTANTS
  PublicNodes,   \* nodes that are public; the others are private
  Flags,         \* reasons to leave a node alone: "disabled", "throttled", "paused"
  NodeStates,    \* what a node may tell: [flags, score, first]
  MaxChanges     \* bound: changes of nodes and removals

ASSUME NodesAssumption ==
  /\ PublicNodes \subseteq Nodes
  /\ NodeStates \subseteq [flags : SUBSET Flags, score : Int, first : Int]
  /\ MaxChanges \in Nat

VARIABLES
  info,      \* what client.GetInfo returns for each node
  changes    \* bound: changes so far

managerVars == <<listVars, info, changes>>

ManagerTypeOK ==
  /\ NodeListTypeOK
  /\ info \in [Nodes -> NodeStates]
  /\ changes \in 0 .. MaxChanges

ManagerInit ==
  /\ NodeListInit
  /\ info \in [Nodes -> NodeStates]
  /\ changes = 0

NodeAdded(n) == ClientRegister(n) /\ UNCHANGED <<info, changes>>

NodeRemoved(i) ==
  /\ changes < MaxChanges
  /\ changes' = changes + 1
  /\ ClientRemove(i)
  /\ UNCHANGED info

(* A node changes what it tells: SetPaused, _maint_stat, a request that    *)
(* uses up its throttle, a heartbeat.                                      *)
NodeChanges(n, s) ==
  /\ s # info[n]
  /\ changes < MaxChanges
  /\ changes' = changes + 1
  /\ info' = [info EXCEPT ![n] = s]
  /\ UNCHANGED listVars

ManagerNext ==
  \/ \E n \in Nodes : NodeAdded(n)
  \/ \E i \in DOMAIN clients : NodeRemoved(i)
  \/ \E n \in Nodes, s \in NodeStates : NodeChanges(n, s)

(* A node that is to be left alone.                                        *)
Out(n) == info[n].flags # {}
=============================================================================
