------------------------------ MODULE NodeList ------------------------------
(***************************************************************************)
(* The list of nodes (gosol/solana_proxy/manager.go), filled by the        *)
(* configuration and edited by the administrator. Each action is one       *)
(* critical section of its lock.                                           *)
(***************************************************************************)
EXTENDS Integers, SequencesExt

CONSTANTS
  Nodes,        \* nodes that may ever be registered
  Configured    \* the lists the configuration may begin with (SOL_NODES)

ASSUME ConfiguredAssumption ==
  Configured \subseteq {s \in Seq(Nodes) : IsInjective(s)}

VARIABLES
  clients,   \* manager.go: clients
  known      \* nodes made so far; a removed node never comes back

listVars == <<clients, known>>

NodeListTypeOK ==
  /\ clients \in Seq(Nodes)
  /\ known \subseteq Nodes

NodeListInit ==
  /\ clients \in Configured
  /\ known = Range(clients)

(* NodeRegister: a node is made, with an id of its own, and appended.      *)
ClientRegister(n) ==
  /\ n \notin known
  /\ known' = known \cup {n}
  /\ clients' = Append(clients, n)

(* ClientManage(nil, id): the list is copied without the node of that id.  *)
(* A node removed goes on running and stays in the copies of the list.     *)
ClientRemove(i) ==
  /\ i \in DOMAIN clients
  /\ clients' = RemoveAt(clients, i)
  /\ UNCHANGED known
=============================================================================
