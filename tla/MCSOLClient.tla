---------------------------- MODULE MCSOLClient ----------------------------
(* A node limited to two requests per second, with two users and a prober.  *)
EXTENDS SOLClient, TLC

CONSTANTS u1, u2, p1, heart, m1, t1

MCWindowCount == t1 :> 3
MCWindowSeconds == t1 :> 1
MCLimiters ==
  t1 :> {[t |-> "L_REQUESTS", maximum |-> 2, in_time_windows |-> 1]}

UserSymmetry == Permutations(Users)
=============================================================================
