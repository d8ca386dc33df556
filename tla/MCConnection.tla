---------------------------- MODULE MCConnection ----------------------------
(* Requests that fit into the memory of the connection (less than 5 bytes) *)
(* and one that does not, answers that leave the next request alone and    *)
(* answers that do not. Then clients who negotiate: twice, who turn        *)
(* compression off, in a WAN, locally, and, at servers without flate, who  *)
(* turn compression off and on again and who know snappy in a WAN.         *)
EXTENDS Connection

Request(bytes, resp) ==
  [size |-> bytes, form |-> "ok", resp |-> resp, fast |-> FALSE, skip |-> FALSE,
   conn_ex |-> FALSE, snappy |-> FALSE, threshold |-> 0]
Short == Request(3, 0)
Tiny == [Request(2, 1) EXCEPT !.fast = TRUE]
Long == Request(5, 4)
Fast == [Request(2, 2) EXCEPT !.fast = TRUE]
Skipped == [Request(3, 2) EXCEPT !.skip = TRUE]
ConnEx(snappy, thr) ==
  [Request(2, 0) EXCEPT !.conn_ex = TRUE, !.snappy = snappy, !.threshold = thr]

Framing ==
  {<<Long, Short>>,
   <<Tiny, Short>>,
   <<Short, [Long EXCEPT !.form = "params"]>>,
   <<Skipped, [Short EXCEPT !.form = "kind"]>>}

Client(requests, far, compressors) ==
  [script |-> requests, distance |-> far, enabled |-> compressors]
Both == {"flate", "snappy"}

MCCases ==
  {Client(s, 0, {}) : s \in Framing} \cup
  {Client(<<ConnEx(TRUE, 1), ConnEx(FALSE, 1), Fast>>, 1, Both),
   Client(<<ConnEx(FALSE, 0), Tiny>>, 1, Both),
   Client(<<ConnEx(TRUE, 1), Fast>>, 2, Both),
   Client(<<ConnEx(TRUE, 1), Fast>>, 0, Both),
   Client(<<ConnEx(TRUE, 0), ConnEx(FALSE, 1), Fast>>, 1, {"snappy"}),
   Client(<<ConnEx(TRUE, 1), Fast>>, 2, {"snappy"})}
=============================================================================
