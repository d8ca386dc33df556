----------------------------- MODULE MCRouting -----------------------------
(* Two private nodes and a public one. A node is free, or used and without *)
(* the old block the request wants, or paused, or throttled.               *)
EXTENDS Routing

CONSTANTS priv1, priv2, pub

MCNodeStates ==
  {[flags |-> {}, score |-> 0, first |-> 0],
   [flags |-> {}, score |-> 1, first |-> 5],
   [flags |-> {"paused"}, score |-> 0, first |-> 0],
   [flags |-> {"throttled"}, score |-> 1, first |-> 0]}

MCConfigured == {<<priv1, pub>>, <<pub, priv1>>}

MCRequests ==
  {[handler |-> "solana_01", forced |-> f, block |-> 5] :
     f \in {{}, {"private"}}}
  \cup
  {[handler |-> "raw", forced |-> f, block |-> -1] :
     f \in {{"public"}, {"public", "private"}}}
  \cup
  {[handler |-> "passthrough", forced |-> {}, block |-> -1]}
=============================================================================
