SPECIFICATION Spec
CONSTANTS
  priv1 = priv1
  priv2 = priv2
  pub = pub
  Nodes = {priv1, priv2, pub}
  Configured <- MCConfigured
  PublicNodes = {pub}
  Flags = {"disabled", "throttled", "paused"}
  NodeStates <- MCNodeStates
  MaxChanges = 2
  Nil = Nil
  Requests <- MCRequests
INVARIANTS
  FailedRequestsRedone
