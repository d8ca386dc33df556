-------------------------- MODULE MCThrottleGroup --------------------------
(* A node whose configuration limits requests over two seconds, requests   *)
(* for one method over three and data over four: a ring of 1s windows with *)
(* two limiters and a ring of 2s windows with one.                         *)
EXTENDS ThrottleGroup, ThrottleConfig

CONSTANTS m1, m2

Piece(type, limit, time) ==
  [fields |-> 3, type |-> type, limit |-> limit, time |-> time]
MCNode ==
  NodeThrottles([throttle |-> <<Piece("r", 2, 2), Piece("f", 1, 3), Piece("d", 3, 4)>>,
                 public |-> FALSE])
MCThrottles == DOMAIN MCNode
MCWindowCount == [th \in MCThrottles |-> th.count]
MCWindowSeconds == [th \in MCThrottles |-> th.size]
MCLimiters == MCNode
=============================================================================
